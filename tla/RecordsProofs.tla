---------------------------- MODULE RecordsProofs ----------------------------
(***************************************************************************)
(* Proofs about the components that keep records: the tables kept by REST, *)
(* tenants with their users, customers with their phones; and the flows of *)
(* the IVR with their versions, and the engine that runs what is stored.   *)
(***************************************************************************)
EXTENDS MCServices, FiniteSetTheorems, SequenceTheorems, WellFoundedInduction, TLAPS

(* Tables kept by REST. What is used of a table: an UPDATE writes the columns *)
(* that a handler takes from a body, and a table of upserts has no DELETE and *)
(* writes all columns but for the settings of a tenant.                       *)
TableRec == [writes : SUBSET Columns, takes : SUBSET Columns, deletes : BOOLEAN,
             tenant : {"caller", "body"}, checked : BOOLEAN,
             update : {"patch", "replace", "none", "upsert"}]

SoundTable(T) ==
    /\ T \in TableRec
    /\ T.update = "patch" => T.takes \subseteq T.writes
    /\ T.update = "replace" => T.writes = Columns
    /\ T.update = "upsert" => ~T.deletes
    /\ T.update = "upsert" => T.writes = Columns \/ (T = TenantSettingsHandler /\ T.writes = {"label"})

LEMMA TablesAreSound == \A T \in Tables : SoundTable(T)
<1>1. \A d \in BOOLEAN : /\ SoundTable(Repo(Columns, d)) /\ Repo(Columns, d).writes = Columns
                         /\ Repo(Columns, d).update = "patch"
    BY DEF Repo, SoundTable, TableRec
<1>2. \A w \in SUBSET Columns, d \in BOOLEAN : /\ SoundTable([Repo(w, d) EXCEPT !.update = "none"])
                                               /\ [Repo(w, d) EXCEPT !.update = "none"].update = "none"
    BY DEF Repo, SoundTable, TableRec
<1>3. SoundTable([Repo(Columns, FALSE) EXCEPT !.update = "upsert"])
    BY DEF Repo, SoundTable, TableRec
<1>t. SoundTable(TenantSettingsHandler)
    <2>1. PICK T : T = TenantSettingsHandler
        OBVIOUS
    <2>2. T = [writes |-> {"label"}, takes |-> Columns, deletes |-> FALSE, tenant |-> "caller",
               checked |-> FALSE, update |-> "upsert"]
        BY <2>1 DEF Repo, TenantSettingsHandler, TenantSettingsRepo
    <2>3. T \in TableRec /\ T.writes = {"label"} /\ T.update = "upsert" /\ ~T.deletes
        BY <2>2 DEF TableRec, Columns
    <2> QED
        BY <2>1, <2>3 DEF SoundTable
<1>4. SoundTable([Repo({"body"}, FALSE) EXCEPT !.takes = {"body"}])
    BY DEF Repo, SoundTable, TableRec, Columns
<1>5. ASSUME NEW T, SoundTable(T), T.update # "upsert"
      PROVE  SoundTable(FromBody(T)) /\ SoundTable(OnlyNew(T)) /\ OnlyNew(T).update = "none"
    BY <1>5 DEF FromBody, OnlyNew, SoundTable, TableRec
<1>6. ASSUME NEW T, SoundTable(T), T.writes = Columns PROVE SoundTable(Guarded(T))
    BY <1>6 DEF Guarded, SoundTable, TableRec
<1>7. SoundTable([FromBody(Repo(Columns, FALSE)) EXCEPT !.takes = {"body"}])
    BY DEF Repo, FromBody, SoundTable, TableRec, Columns
<1>0. {} \in SUBSET Columns /\ TRUE \in BOOLEAN /\ FALSE \in BOOLEAN
    OBVIOUS
<1> HIDE DEF SoundTable, Repo, FromBody, OnlyNew, Guarded
<1>8. /\ SoundTable(BreakReasonHandler) /\ SoundTable(DispositionCodeHandler)
      /\ SoundTable(CallTagDefHandler) /\ SoundTable(AudioFileHandler)
      /\ SoundTable(BusinessHoursHandler) /\ SoundTable(CarrierHandler)
      /\ SoundTable(SIPTrunkHandler) /\ SoundTable(PhoneNumberHandler)
      /\ SoundTable(CallNumberTagHandler) /\ SoundTable(AutoTagRuleHandler)
    BY <1>0, <1>1, <1>2, <1>4, <1>5
       DEF BreakReasonHandler, BreakReasonRepo, DispositionCodeHandler, DispositionCodeRepo,
           CallTagDefHandler, CallTagDefRepo, AudioFileHandler, AudioFileRepo, BusinessHoursHandler,
           BusinessHoursRepo, CarrierHandler, CarrierRepo, SIPTrunkHandler, SIPTrunkRepo,
           PhoneNumberHandler, PhoneNumberRepo, CallNumberTagHandler, CallNumberTagRepo,
           AutoTagRuleHandler, AutoTagRuleRepo
<1>9. /\ SoundTable(TrunkGroupHandler) /\ SoundTable(CLIPolicyHandler)
      /\ SoundTable(RoutingRuleHandler) /\ SoundTable(DNCHandler)
      /\ SoundTable(QuickReplyHandler) /\ SoundTable(ScreenPopConfigHandler)
      /\ SoundTable(SmsConfigHandler) /\ SoundTable(WebhookConfigHandler)
      /\ SoundTable(CSATHandler) /\ SoundTable(ASRHotwordsHandler)
    BY <1>0, <1>1, <1>2, <1>5, <1>6, <1>7
       DEF TrunkGroupHandler, SIPTrunkGroupRepo, CLIPolicyHandler, CLIPolicyRepo, RoutingRuleHandler,
           RoutingRuleRepo, DNCHandler, DNCRepo, QuickReplyHandler, QuickReplyRepo,
           ScreenPopConfigHandler, ScreenPopConfigRepo, SmsConfigHandler, SmsConfigRepo,
           WebhookConfigHandler, WebhookConfigRepo, CSATHandler, CSATConfigRepo,
           ASRHotwordsHandler, ASRHotwordsService, ASRHotwordsRepo
<1>10. /\ SoundTable(AgentScriptHandler) /\ SoundTable(SessionInfoHandler)
       /\ SoundTable(LLMGatewayHandler) /\ SoundTable(EmployeeHandler)
       /\ SoundTable(SocialChannelHandler) /\ SoundTable(TenantSettingsHandler)
       /\ SoundTable(RingAnalysisHandler) /\ SoundTable(FullDuplexHandler)
       /\ \A T \in KnowledgeHandler : SoundTable(T)
    BY <1>0, <1>1, <1>2, <1>3, <1>5, <1>t
       DEF AgentScriptHandler, AgentScriptService, AgentScriptRepo, SessionInfoHandler,
           SessionInfoService, SessionInfoRepo, LLMGatewayHandler, LLMGatewayService,
           LLMModelConfigRepo, EmployeeHandler, EmployeeService, EmployeeRepo, SocialChannelHandler,
           SocialConfigRepo, RingAnalysisHandler,
           RingAnalysisRepo, FullDuplexHandler, FullDuplexRepo, KnowledgeHandler, KnowledgeService,
           CategoryRepo, ArticleRepo
<1> QED
    BY <1>8, <1>9, <1>10 DEF Tables

Edit == [id : RowIds, row : AdminRow \cup {NoRow}, sent : SUBSET Columns,
         caller : AdminTenants, op : {"insert", "update", "delete"}]

Agree(r, s, columns) == \A c \in columns : r[c] = s[c]

(* What a request that is about to write still has right, although others     *)
(* wrote since it read. The row to insert is nobody's; an update's copy has   *)
(* the row's tenant and whatever the UPDATE would leave alone anyway, and all *)
(* it was not told to change unless another request was at the row too.       *)
EditOK(w) ==
    LET e == admin[w] IN
    /\ e.op = "delete" <=> e.row = NoRow
    /\ e.op = "insert" =>
          /\ rows[e.id] = NoRow /\ e.id \notin gone
          /\ \A v \in Admins \ {w} :
                admin[v].id = e.id => admin[v].op = "delete" /\ ~adminTable.checked
    /\ e.op = "update" /\ rows[e.id] # NoRow =>
          /\ e.row.tenant = rows[e.id].tenant
          /\ Agree(e.row, rows[e.id], Columns \ adminTable.writes)
          /\ e.id \in coedited \/ Agree(e.row, rows[e.id], Columns \ e.sent)
    /\ adminTable.checked /\ e.op # "insert" /\ rows[e.id] # NoRow => rows[e.id].tenant = e.caller

AdminInv ==
    /\ adminTable \in Tables
    /\ rows \in [RowIds -> AdminRow \cup {NoRow}]
    /\ admin \in [Admins -> Edit \cup {NoEdit}]
    /\ gone \cup coedited \cup undone \cup foreign \subseteq RowIds
    /\ untold \subseteq RowIds \X (Columns \cup {"tenant"})
    /\ adminTable.update = "upsert" => gone = {} /\ \A w \in Admins : admin[w] = NoEdit
    /\ \A w \in Admins : admin[w] # NoEdit =>
          /\ EditOK(w)
          /\ \A v \in Admins \ {w} : admin[v].id = admin[w].id => admin[w].id \in coedited
    /\ gone \cap Ids(rows) = {}
    /\ undone \subseteq coedited /\ AnswersAreStored /\ (adminTable.checked => foreign = {})

LEMMA NextAdmin == AdminInv /\ [AdministrationNext]_adminVars => AdminInv'
<1> SUFFICES ASSUME AdminInv, [AdministrationNext]_adminVars PROVE AdminInv'
    OBVIOUS
<1> USE AdministrationAssumption
<1>0. /\ adminTable \in Tables /\ SoundTable(adminTable)
      /\ rows \in [RowIds -> AdminRow \cup {NoRow}]
      /\ admin \in [Admins -> Edit \cup {NoEdit}]
      /\ gone \cup coedited \cup undone \cup foreign \subseteq RowIds
    BY TablesAreSound DEF AdminInv
<1>n. NoEdit.id = "none" /\ NoEdit.op = "none" /\ NoEdit \notin Edit
    BY DEF NoEdit, Edit
\* A request takes up a row. It has to be right about it now.
<1>c. ASSUME NEW w \in Admins, NEW op \in {"insert", "update", "delete"}, NEW t \in AdminTenants,
             NEW id \in RowIds, NEW row \in AdminRow \cup {NoRow}, NEW sent \in SUBSET Columns,
             Compose(w, op, t, id, row, sent), adminTable.update # "upsert",
             op = "delete" <=> row = NoRow,
             op = "insert" => id \notin Ids(rows) \cup gone /\ \A v \in Admins : admin[v].id # id,
             op = "update" => /\ rows[id] # NoRow /\ row.tenant = rows[id].tenant
                              /\ Agree(row, rows[id], Columns \ adminTable.writes)
                              /\ Agree(row, rows[id], Columns \ sent),
             adminTable.checked /\ op # "insert" => rows[id] # NoRow /\ rows[id].tenant = t
      PROVE  AdminInv'
    <2> DEFINE e == [id |-> id, row |-> row, sent |-> sent, caller |-> t, op |-> op]
    <2>1. e \in Edit /\ e # NoEdit /\ e.id = id /\ e.row = row /\ e.sent = sent
          /\ e.caller = t /\ e.op = op
        BY <1>n DEF Edit
    <2>2. /\ admin[w] = NoEdit /\ admin' = [admin EXCEPT ![w] = e]
          /\ coedited' = IF \E v \in Admins : admin[v].id = id THEN coedited \cup {id} ELSE coedited
          /\ UNCHANGED <<adminTable, rows, gone, undone, untold, foreign>>
        BY <1>c DEF Compose
    <2> HIDE DEF e
    <2>3. admin' \in [Admins -> Edit \cup {NoEdit}] /\ admin'[w] = e
          /\ \A v \in Admins \ {w} : admin'[v] = admin[v]
        BY <1>0, <2>1, <2>2
    <2>4. EditOK(w)'
        BY <1>0, <1>c, <2>1, <2>2, <2>3 DEF EditOK, Ids
    <2>5. \A v \in Admins \ {w} : admin'[v].id = id => id \in coedited'
        BY <2>2, <2>3
    <2>6. ASSUME NEW v \in Admins \ {w}, admin[v] # NoEdit
          PROVE  /\ EditOK(v)'
                 /\ \A u \in Admins \ {v} : admin'[u].id = admin'[v].id => admin'[v].id \in coedited'
        <3>0. EditOK(v) /\ \A u \in Admins \ {v} : admin[u].id = admin[v].id => admin[v].id \in coedited
            BY <2>6 DEF AdminInv
        <3>1. admin[v].op = "insert" /\ admin[v].id = id => op = "delete" /\ ~adminTable.checked
            BY <1>c, <3>0 DEF EditOK
        <3>2. EditOK(v)'
            BY <2>1, <2>2, <2>3, <3>0, <3>1 DEF EditOK
        <3>3. \A u \in Admins \ {v} : admin'[u].id = admin'[v].id => admin'[v].id \in coedited'
            BY <2>1, <2>2, <2>3, <2>5, <3>0
        <3> QED
            BY <3>2, <3>3
    <2> QED
        BY <1>0, <1>c, <2>1, <2>2, <2>3, <2>4, <2>5, <2>6 DEF AdminInv, AnswersAreStored
<1>1. ASSUME NEW w \in Admins, NEW t \in AdminTenants, NEW u \in AdminTenants, NEW id \in RowIds,
             NEW label \in Values, NEW body \in Values, CreateRow(w, t, u, id, label, body)
      PROVE  AdminInv'
    <2> DEFINE row == [tenant |-> IF adminTable.tenant = "caller" THEN t ELSE u,
                       label |-> label, body |-> body]
    <2>1. row \in AdminRow /\ row # NoRow
        BY DEF AdminRow
    <2>2. /\ adminTable.update # "upsert" /\ Compose(w, "insert", t, id, row, Columns)
          /\ id \notin Ids(rows) \cup gone /\ \A v \in Admins : admin[v].id # id
        BY <1>1 DEF CreateRow
    <2> HIDE DEF row
    <2> QED
        BY <1>c, <2>1, <2>2
<1>2. ASSUME NEW w \in Admins, NEW t \in AdminTenants, NEW id \in RowIds,
             NEW values \in [label : Values, body : Values], NEW given \in SUBSET Columns,
             UpdateRow(w, t, id, values, given)
      PROVE  AdminInv'
    <2>1. rows[id] # NoRow /\ rows[id] \in AdminRow /\ (adminTable.checked => rows[id].tenant = t)
        BY <1>2, <1>0 DEF UpdateRow, Admitted, Owns, Ids
    <2>2. PICK row : row = Patched(rows[id], values, given)
        OBVIOUS
    <2>3. row \in AdminRow /\ row # NoRow /\ row.tenant = rows[id].tenant
          /\ Agree(row, rows[id], Columns \ given)
        BY <2>1, <2>2 DEF Patched, AdminRow, Agree, Columns
    <2>4. Compose(w, "update", t, id, row, given) /\ adminTable.update # "upsert"
          /\ given \subseteq adminTable.writes
        BY <1>2, <1>0, <2>2 DEF UpdateRow, SoundTable
    <2>5. Agree(row, rows[id], Columns \ adminTable.writes)
        BY <2>3, <2>4 DEF Agree
    <2> QED
        BY <1>c, <2>1, <2>3, <2>4, <2>5
<1>3. ASSUME NEW w \in Admins, NEW t \in AdminTenants, NEW id \in RowIds, DeleteRow(w, t, id)
      PROVE  AdminInv'
    <2>1. adminTable.checked => rows[id] # NoRow /\ rows[id].tenant = t
        BY <1>3 DEF DeleteRow, Admitted, Owns, Ids
    <2>2. Compose(w, "delete", t, id, NoRow, {}) /\ adminTable.update # "upsert"
        BY <1>3, <1>0 DEF DeleteRow, SoundTable
    <2> QED
        BY <1>c, <2>1, <2>2
<1>4. ASSUME NEW w \in Admins, WriteRow(w) PROVE AdminInv'
    <2>0. PICK e, id, old, new : e = admin[w] /\ id = e.id /\ old = rows[id] /\ new = Written(e)[id]
        OBVIOUS
    <2>1. /\ e # NoEdit /\ rows' = Written(e) /\ admin' = [admin EXCEPT ![w] = NoEdit]
          /\ gone' = Note(gone, id, old # NoRow /\ new = NoRow)
          /\ undone' = Note(undone, id, old # NoRow /\ new # NoRow
                                        /\ \E c \in Columns \ e.sent : new[c] # old[c])
          /\ untold' = untold \cup Differing(id, new, e.row)
          /\ foreign' = Note(foreign, id, old # NoRow /\ new # old /\ old.tenant # e.caller)
          /\ UNCHANGED <<adminTable, coedited>>
        BY <1>4, <2>0 DEF WriteRow
    <2>2. e \in Edit /\ id \in RowIds /\ EditOK(w) /\ adminTable.update # "upsert"
          /\ old \in AdminRow \cup {NoRow}
        BY <1>0, <2>0, <2>1 DEF AdminInv, Edit
    <2>3. /\ admin' \in [Admins -> Edit \cup {NoEdit}] /\ admin'[w] = NoEdit
          /\ \A v \in Admins \ {w} : admin'[v] = admin[v]
        BY <1>0, <2>1
    <2>4. ASSUME NEW v \in Admins, admin'[v] # NoEdit
          PROVE  /\ v # w /\ admin[v] # NoEdit /\ admin[v] \in Edit /\ EditOK(v)
                 /\ \A u \in Admins \ {v} : admin'[u].id = admin'[v].id => admin'[v].id \in coedited'
                 /\ admin[v].id = id => id \in coedited
        BY <1>0, <1>n, <2>0, <2>1, <2>3, <2>4 DEF AdminInv, Edit
    \* What is left to show, for each of the three statements.
    <2>s. ASSUME new \in AdminRow \cup {NoRow}, rows' = [rows EXCEPT ![id] = new],
                 id \in gone => new = NoRow,
                 undone' \subseteq coedited, untold' = untold, adminTable.checked => foreign' = {},
                 \A v \in Admins : admin'[v] # NoEdit => EditOK(v)'
          PROVE  AdminInv'
        <3>1. rows' \in [RowIds -> AdminRow \cup {NoRow}]
              /\ gone' \cup coedited' \cup undone' \cup foreign' \subseteq RowIds
            BY <1>0, <2>1, <2>2, <2>s DEF Note
        <3>2. gone' \cap Ids(rows') = {}
            BY <1>0, <2>1, <2>2, <2>s DEF AdminInv, Ids, Note
        <3>3. undone' \subseteq coedited' /\ AnswersAreStored' /\ (adminTable'.checked => foreign' = {})
            BY <2>1, <2>s DEF AdminInv, AnswersAreStored
        <3> QED
            BY <1>0, <2>1, <2>2, <2>3, <2>4, <2>s, <3>1, <3>2, <3>3 DEF AdminInv
    <2>5. CASE e.op = "insert"
        <3>1. rows' = [rows EXCEPT ![id] = e.row] /\ old = NoRow /\ id \notin gone
              /\ e.row \in AdminRow
            BY <2>0, <2>1, <2>2, <2>5 DEF Written, Inserted, EditOK, Edit
        <3>2. new = e.row
            BY <1>0, <2>0, <2>1, <2>2, <3>1
        <3>3. UNCHANGED <<gone, undone, untold, foreign>>
            BY <2>1, <3>1, <3>2 DEF Note, Differing
        <3>4. ASSUME NEW v \in Admins, admin'[v] # NoEdit PROVE EditOK(v)'
            <4>1. admin[v].id = id => admin[v].op = "delete" /\ ~adminTable.checked
                BY <2>0, <2>2, <2>4, <2>5, <3>4 DEF EditOK
            <4>2. admin[v].id # id => rows'[admin[v].id] = rows[admin[v].id]
                BY <1>0, <2>4, <3>1, <3>4 DEF Edit
            <4>3. admin[v].id \in RowIds /\ EditOK(v) /\ admin'[v] = admin[v]
                BY <2>3, <2>4, <3>4 DEF Edit
            <4>4. CASE admin[v].id = id
                BY <2>1, <3>3, <4>1, <4>3, <4>4 DEF EditOK
            <4>5. CASE admin[v].id # id
                BY <1>n, <2>1, <2>3, <3>3, <4>2, <4>3, <4>5 DEF EditOK
            <4> QED
                BY <4>4, <4>5
        <3> QED
            BY <2>s, <3>1, <3>2, <3>3, <3>4 DEF AdminInv
    <2>6. CASE e.op = "delete"
        <3>1. rows' = [rows EXCEPT ![id] = NoRow]
            BY <2>0, <2>1, <2>5, <2>6 DEF Written, Deleted
        <3>2. new = NoRow
            BY <1>0, <2>0, <2>1, <2>2, <3>1
        <3>3. UNCHANGED <<undone, untold>> /\ (adminTable.checked => foreign' = foreign)
            BY <2>0, <2>1, <2>2, <2>6, <3>2 DEF Note, EditOK, Differing
        <3>4. ASSUME NEW v \in Admins, admin'[v] # NoEdit PROVE EditOK(v)'
            <4>1. admin[v].id \in RowIds /\ EditOK(v) /\ admin'[v] = admin[v]
                BY <2>3, <2>4, <3>4 DEF Edit
            <4>2. rows'[admin[v].id] = IF admin[v].id = id THEN NoRow ELSE rows[admin[v].id]
                BY <1>0, <3>1, <4>1
            <4>3. admin[v].op = "insert" => admin[v].id \notin gone'
                BY <2>0, <2>1, <4>1 DEF Note, EditOK
            <4> QED
                BY <1>n, <2>1, <2>3, <4>1, <4>2, <4>3 DEF EditOK
        <3> QED
            BY <2>s, <3>1, <3>2, <3>3, <3>4 DEF AdminInv
    <2>7. CASE e.op = "update"
        <3>1. CASE old = NoRow
            <4>1. rows' = rows /\ new = NoRow
                BY <2>0, <2>1, <2>7, <3>1 DEF Written, UpdateStatement, Updated
            <4>2. rows' = [rows EXCEPT ![id] = new]
                BY <1>0, <2>0, <3>1, <4>1
            <4>3. UNCHANGED <<gone, undone, untold, foreign>>
                BY <2>1, <3>1, <4>1 DEF Note, Differing
            <4>4. ASSUME NEW v \in Admins, admin'[v] # NoEdit PROVE EditOK(v)'
                <5>1. admin[v].id \in RowIds /\ EditOK(v) /\ admin'[v] = admin[v]
                    BY <2>3, <2>4, <4>4 DEF Edit
                <5> QED
                    BY <1>n, <2>1, <2>3, <4>1, <4>3, <5>1 DEF EditOK
            <4> QED
                BY <2>s, <4>1, <4>2, <4>3, <4>4 DEF AdminInv
        <3>2. CASE old # NoRow
            <4>1. /\ e.row \in AdminRow /\ e.row.tenant = old.tenant
                  /\ Agree(e.row, old, Columns \ adminTable.writes)
                  /\ id \in coedited \/ Agree(e.row, old, Columns \ e.sent)
                BY <2>0, <2>2, <2>7, <3>2 DEF EditOK, Edit
            <4>2. rows' = [rows EXCEPT ![id] = Overwritten(old, e.row)]
                BY <1>0, <2>0, <2>1, <2>2, <2>7, <3>2 DEF Written, UpdateStatement, Updated, Ids
            <4>3. new = Overwritten(old, e.row)
                BY <1>0, <2>0, <2>1, <2>2, <4>2
            <4>4. Overwritten(old, e.row) = e.row
                <5>1. old \in AdminRow
                    BY <2>2, <3>2
                <5>2. Overwritten(old, e.row) \in AdminRow
                    BY <4>1, <5>1 DEF Overwritten, AdminRow
                <5>3. /\ Overwritten(old, e.row).tenant = e.row.tenant
                      /\ Overwritten(old, e.row).label = e.row.label
                      /\ Overwritten(old, e.row).body = e.row.body
                    BY <4>1, <5>1 DEF Overwritten, AdminRow, Agree, Columns
                <5> QED
                    BY <4>1, <5>2, <5>3 DEF AdminRow
            <4>5. new = e.row /\ new # NoRow /\ UNCHANGED <<gone, untold>>
                BY <2>1, <4>1, <4>3, <4>4 DEF Note, Differing
            <4>6. undone' \subseteq coedited
                BY <2>1, <4>1, <4>5 DEF AdminInv, Note, Agree
            <4>7. adminTable.checked => foreign' = {}
                BY <2>0, <2>1, <2>2, <2>7, <3>2 DEF AdminInv, EditOK, Note
            <4>8. ASSUME NEW v \in Admins, admin'[v] # NoEdit PROVE EditOK(v)'
                <5>1. admin[v].id \in RowIds /\ EditOK(v) /\ admin'[v] = admin[v]
                      /\ (admin[v].id = id => id \in coedited)
                    BY <2>3, <2>4, <4>8 DEF Edit
                <5>2. rows'[admin[v].id] = IF admin[v].id = id THEN e.row ELSE rows[admin[v].id]
                    BY <1>0, <4>2, <4>4, <5>1
                <5>3. CASE admin[v].id # id
                    BY <1>n, <2>1, <2>3, <4>5, <5>1, <5>2, <5>3 DEF EditOK
                <5>4. CASE admin[v].id = id
                    <6>1. admin[v].op # "insert"
                        BY <2>0, <3>2, <5>1, <5>4 DEF EditOK
                    <6>2. admin[v].op = "update" =>
                            /\ admin[v].row.tenant = e.row.tenant
                            /\ Agree(admin[v].row, e.row, Columns \ adminTable.writes)
                        BY <2>0, <3>2, <4>1, <5>1, <5>4 DEF EditOK, Agree
                    <6>3. adminTable.checked => e.row.tenant = admin[v].caller
                        BY <2>0, <3>2, <4>1, <5>1, <5>4, <6>1 DEF EditOK
                    <6> QED
                        BY <2>1, <5>1, <5>2, <5>4, <6>1, <6>2, <6>3 DEF EditOK
                <5> QED
                    BY <5>3, <5>4
            <4>9. rows' = [rows EXCEPT ![id] = new] /\ new \in AdminRow
                BY <4>1, <4>2, <4>3, <4>5
            <4>10. id \notin gone
                BY <1>0, <2>0, <2>2, <3>2 DEF AdminInv, Ids
            <4> QED
                BY <2>s, <4>5, <4>6, <4>7, <4>8, <4>9, <4>10
        <3> QED
            BY <3>1, <3>2
    <2> QED
        BY <2>2, <2>5, <2>6, <2>7 DEF Edit
<1>5. ASSUME NEW w \in Admins, AdminRequestFails(w) PROVE AdminInv'
    <2>1. /\ admin' = [admin EXCEPT ![w] = NoEdit]
          /\ UNCHANGED <<adminTable, rows, gone, coedited, undone, untold, foreign>>
        BY <1>5 DEF AdminRequestFails, adminHistory
    <2>2. admin' \in [Admins -> Edit \cup {NoEdit}] /\ admin'[w] = NoEdit
          /\ \A v \in Admins \ {w} : admin'[v] = admin[v]
        BY <1>0, <2>1
    <2>3. ASSUME NEW v \in Admins, admin'[v] # NoEdit
          PROVE  /\ EditOK(v)'
                 /\ \A u \in Admins \ {v} : admin'[u].id = admin'[v].id => admin'[v].id \in coedited'
        <3>1. v # w /\ admin[v] # NoEdit /\ admin[v] \in Edit /\ EditOK(v)
              /\ \A u \in Admins \ {v} : admin[u].id = admin[v].id => admin[v].id \in coedited
            BY <1>0, <2>2, <2>3 DEF AdminInv
        <3>2. EditOK(v)'
            BY <1>n, <2>1, <2>2, <3>1 DEF EditOK, Edit
        <3> QED
            BY <1>n, <2>1, <2>2, <3>1, <3>2 DEF Edit
    <2> QED
        BY <1>0, <2>1, <2>2, <2>3 DEF AdminInv, AnswersAreStored
<1>6. ASSUME NEW t \in AdminTenants, NEW id \in RowIds, NEW label \in Values, NEW body \in Values,
             UpsertRow(t, id, label, body)
      PROVE  AdminInv'
    <2>0. PICK sent, old, new : /\ sent = [tenant |-> t, label |-> label, body |-> body]
                                /\ old = IF id \in Ids(rows) THEN rows[id]
                                         ELSE [tenant |-> t, label |-> 0, body |-> 0]
                                /\ new = Overwritten(old, sent)
        OBVIOUS
    <2>1. /\ rows' = [rows EXCEPT ![id] = new]
          /\ untold' = untold \cup Differing(id, new, sent)
          /\ UNCHANGED <<adminTable, admin, gone, coedited, undone, foreign>>
          /\ adminTable.update = "upsert" /\ gone = {} /\ \A w \in Admins : admin[w] = NoEdit
          /\ id \in Ids(rows) => rows[id].tenant = t
        BY <1>6, <2>0 DEF UpsertRow, AdminInv
    <2>2. sent \in AdminRow /\ old \in AdminRow /\ old.tenant = t
        BY <1>0, <2>0, <2>1 DEF AdminRow, Ids
    <2>3. new \in AdminRow /\ new # NoRow /\ new.tenant = sent.tenant
          /\ \A c \in adminTable.writes : new[c] = sent[c]
        <3>1. new = [old EXCEPT !.label = IF "label" \in adminTable.writes THEN sent.label ELSE @,
                                !.body = IF "body" \in adminTable.writes THEN sent.body ELSE @]
            BY <2>0 DEF Overwritten
        <3>2. adminTable.writes \subseteq Columns /\ sent.tenant = t
            BY <1>0, <2>0 DEF SoundTable, TableRec
        <3>3. new \in AdminRow /\ new.tenant = old.tenant
            BY <2>2, <3>1 DEF AdminRow
        <3>4. \A c \in adminTable.writes : new[c] = sent[c]
            BY <2>2, <3>1, <3>2 DEF AdminRow, Columns
        <3> QED
            BY <2>2, <3>2, <3>3, <3>4
    <2>4. rows' \in [RowIds -> AdminRow \cup {NoRow}]
        BY <1>0, <2>1, <2>3
    <2>5. \A u \in Differing(id, new, sent) :
              u \in RowIds \X (Columns \cup {"tenant"}) /\ u[2] \in Columns \ adminTable.writes
        BY <2>3 DEF Differing
    <2>6. adminTable.writes = Columns \/ adminTable = TenantSettingsHandler
        BY <1>0, <2>1 DEF SoundTable
    <2>7. AnswersAreStored'
        BY <2>1, <2>5, <2>6 DEF AdminInv, AnswersAreStored, Columns
    <2> QED
        BY <1>0, <2>1, <2>4, <2>5, <2>7 DEF AdminInv
<1>7. CASE UNCHANGED adminVars
    BY <1>7 DEF AdminInv, adminVars, adminHistory, EditOK, Ids, AnswersAreStored
<1> QED
    BY <1>1, <1>2, <1>3, <1>4, <1>5, <1>6, <1>7 DEF AdministrationNext

LEMMA InitAdmin == AdministrationInit => AdminInv
<1> SUFFICES ASSUME AdministrationInit PROVE AdminInv
    OBVIOUS
<1> QED
    BY DEF AdministrationInit, AdminInv, Ids, AnswersAreStored

(* AdminInv holds in every reachable state.                                  *)
THEOREM AdminInvariant == ServicesSpec => []AdminInv
<1>1. ServicesInit => AdminInv
    BY InitAdmin DEF ServicesInit
<1>2. [ServicesNext]_servicesVars => [AdministrationNext]_adminVars
    BY DEF ServicesNext, servicesVars
<1>3. AdminInv /\ [ServicesNext]_servicesVars => AdminInv'
    BY <1>2, NextAdmin
<1> QED
    BY <1>1, <1>3, PTL DEF ServicesSpec

-----------------------------------------------------------------------------
(***************************************************************************)
(* Tenants, users, agents. The seats of a tenant: the agents there are and *)
(* the requests that have counted and are about to insert.                 *)
(***************************************************************************)
Inserting(t) == {o \in Officers : officer[o].at = "agent" /\ officer[o].tenant = t}

(* What a request has read is still so when it goes on: tenants stay, a limit *)
(* it read was the tenant's.                                                  *)
ErrandOK(o) ==
    LET e == officer[o] IN
    /\ e.at \in {"defaults", "user", "settings", "count", "agent", "group"} => e.tenant \in tenantRows
    /\ e.at = "count" => e.limit <= mostSeats[e.tenant]
    /\ e.at \in {"count", "agent"} => seats[e.tenant] # NoRow

IdentityInv ==
    /\ tenantRows \subseteq Tenants /\ halfMade \subseteq tenantRows
    /\ seats \in [Tenants -> 0..MaxSeats \cup {NoRow}]
    /\ mostSeats \in [Tenants -> 0..MaxSeats]
    /\ users \in [UserIds -> UserRow \cup {NoRow}]
    /\ agentOf \in [UserIds -> tenantRows \cup {NoRow}]
    /\ groups \in [GroupIds -> GroupRow \cup {NoRow}]
    /\ \A u \in Ids(users) : users[u].tenant \in tenantRows
    /\ \A g \in Ids(groups) : groups[g].tenant \in tenantRows
    /\ members \subseteq Ids(groups) \X Ids(users)
    /\ officer \in [Officers -> Errands \cup {Free}]
    /\ \A o \in Officers : ErrandOK(o)
    /\ \A t \in Tenants :
          /\ seats[t] # NoRow => seats[t] <= mostSeats[t]
          /\ Cardinality(AgentsOf(t)) + Cardinality(Inserting(t))
                <= mostSeats[t] + Cardinality(Officers) - 1
          /\ seats[t] = NoRow /\ t \in tenantRows =>
                /\ t \in halfMade \/ \E o \in Officers : Does(o, "defaults") /\ officer[o].tenant = t
                /\ AgentsOf(t) = {}

(* The kinds of errands, and what each carries.                              *)
LEMMA ErrandKinds ==
    ASSUME NEW e \in Errands \cup {Free}
    PROVE  /\ e.at \in {"free", "tenant", "defaults", "user", "settings", "agent", "count", "group", "member"}
           /\ e.at \in {"tenant", "defaults", "user", "settings", "agent", "count", "group"} => e.tenant \in Tenants
           /\ e.at \in {"user", "settings", "agent", "count", "member"} => e.id \in UserIds
           /\ e.at = "group" => e.id \in GroupIds /\ e.code \in GroupCodes
           /\ e.at = "user" => e.name \in UserNames
           /\ e.at = "member" => e.group \in GroupIds
           /\ e.at = "count" => e.limit \in 0..MaxSeats
           /\ e.at = "free" <=> e = Free
BY DEF Errands, Free

LEMMA SeatSets ==
    ASSUME NEW t
    PROVE  /\ IsFiniteSet(AgentsOf(t)) /\ Cardinality(AgentsOf(t)) \in Nat
           /\ IsFiniteSet(Inserting(t)) /\ Cardinality(Inserting(t)) \in Nat
           /\ Cardinality(Inserting(t)) <= Cardinality(Officers)
           /\ Cardinality(Officers) \in Nat /\ Cardinality(Officers) >= 1
<1>1. AgentsOf(t) \subseteq UserIds /\ Inserting(t) \subseteq Officers
    BY DEF AgentsOf, Inserting
<1>2. IsFiniteSet(AgentsOf(t)) /\ IsFiniteSet(Inserting(t))
    BY <1>1, FS_Subset, IdentityAssumption
<1>3. Cardinality(Inserting(t)) <= Cardinality(Officers)
    BY <1>1, FS_Subset, IdentityAssumption
<1>4. Cardinality(Officers) # 0
    BY FS_EmptySet, IdentityAssumption
<1>5. Cardinality(Officers) \in Nat
    BY FS_CardinalityType, IdentityAssumption
<1> QED
    BY <1>2, <1>3, <1>4, <1>5, FS_CardinalityType

LEMMA NextIdentity == IdentityInv /\ [IdentityNext]_identityVars => IdentityInv'
<1> SUFFICES ASSUME IdentityInv, [IdentityNext]_identityVars PROVE IdentityInv'
    OBVIOUS
<1> USE IdentityAssumption
<1>0. /\ tenantRows \subseteq Tenants /\ halfMade \subseteq tenantRows
      /\ seats \in [Tenants -> 0..MaxSeats \cup {NoRow}] /\ mostSeats \in [Tenants -> 0..MaxSeats]
      /\ users \in [UserIds -> UserRow \cup {NoRow}] /\ agentOf \in [UserIds -> tenantRows \cup {NoRow}]
      /\ groups \in [GroupIds -> GroupRow \cup {NoRow}]
      /\ officer \in [Officers -> Errands \cup {Free}]
      /\ members \subseteq Ids(groups) \X Ids(users)
      /\ \A o \in Officers : ErrandOK(o)
    BY DEF IdentityInv
<1>u. /\ \A u \in Ids(users) : users[u].tenant \in tenantRows
      /\ \A g \in Ids(groups) : groups[g].tenant \in tenantRows
    BY DEF IdentityInv
<1>t. \A t \in Tenants :
          /\ seats[t] # NoRow => seats[t] <= mostSeats[t]
          /\ Cardinality(AgentsOf(t)) + Cardinality(Inserting(t))
                <= mostSeats[t] + Cardinality(Officers) - 1
          /\ seats[t] = NoRow /\ t \in tenantRows =>
                /\ t \in halfMade \/ \E o \in Officers : Does(o, "defaults") /\ officer[o].tenant = t
                /\ AgentsOf(t) = {}
    BY DEF IdentityInv
<1>k. \A o \in Officers :
        LET e == officer[o] IN
           /\ e.at \in {"tenant", "defaults", "user", "settings", "agent", "count", "group"} => e.tenant \in Tenants
           /\ e.at \in {"user", "settings", "agent", "count", "member"} => e.id \in UserIds
           /\ e.at = "group" => e.id \in GroupIds /\ e.code \in GroupCodes
           /\ e.at = "user" => e.name \in UserNames
           /\ e.at = "member" => e.group \in GroupIds
           /\ e.at = "count" => e.limit \in 0..MaxSeats
    BY <1>0, ErrandKinds
<1>f. Free \in Errands \cup {Free} /\ Free.at = "free"
    BY DEF Free
\* A request goes from one errand to another. Only CountAgents makes it one
\* that inserts; only what is at the settings' INSERT keeps a tenant complete.
<1>s. ASSUME NEW o \in Officers, NEW e \in Errands \cup {Free}, Becomes(o, e),
             UNCHANGED <<tables, mostSeats>>,
             e.at \in {"defaults", "user", "settings", "count", "agent", "group"} => e.tenant \in tenantRows,
             e.at = "count" => e.limit <= mostSeats[e.tenant],
             e.at \in {"count", "agent"} => seats[e.tenant] # NoRow,
             e.at = "agent" => Cardinality(AgentsOf(e.tenant)) < mostSeats[e.tenant],
             halfMade' = IF Does(o, "defaults") THEN halfMade \cup {officer[o].tenant} ELSE halfMade
      PROVE  IdentityInv'
    <2>1. officer' \in [Officers -> Errands \cup {Free}] /\ officer'[o] = e
          /\ \A p \in Officers \ {o} : officer'[p] = officer[p]
        BY <1>0, <1>s DEF Becomes
    <2>2. UNCHANGED <<tenantRows, seats, users, agentOf, groups, members, mostSeats>>
        BY <1>s DEF tables
    <2>3. \A p \in Officers : ErrandOK(p)'
        BY <1>0, <1>s, <2>1, <2>2 DEF ErrandOK
    <2>4. halfMade' \subseteq tenantRows' /\ halfMade \subseteq halfMade'
        BY <1>0, <1>s, <2>2 DEF ErrandOK, Does
    <2>5. ASSUME NEW t \in Tenants
          PROVE  /\ Cardinality(AgentsOf(t)') + Cardinality(Inserting(t)')
                      <= mostSeats'[t] + Cardinality(Officers) - 1
                 /\ seats'[t] = NoRow /\ t \in tenantRows' =>
                       /\ t \in halfMade' \/ \E p \in Officers : Does(p, "defaults")' /\ officer'[p].tenant = t
                       /\ AgentsOf(t)' = {}
        <3>1. AgentsOf(t)' = AgentsOf(t)
            BY <2>2 DEF AgentsOf
        <3>4. seats'[t] = NoRow /\ t \in tenantRows' =>
                       /\ t \in halfMade' \/ \E p \in Officers : Does(p, "defaults")' /\ officer'[p].tenant = t
                       /\ AgentsOf(t)' = {}
            BY <1>s, <1>t, <2>1, <2>2, <2>4, <3>1 DEF Does
        <3>2. CASE e.at = "agent" /\ e.tenant = t
            <4>1. Cardinality(Inserting(t)') <= Cardinality(Officers)
                <5>1. Inserting(t)' \subseteq Officers
                    BY DEF Inserting
                <5> QED
                    BY <5>1, FS_Subset
            <4>2. Inserting(t)' \subseteq Officers
                BY DEF Inserting
            <4>3. Cardinality(Inserting(t)') \in Nat
                BY <4>2, FS_Subset, FS_CardinalityType
            <4> QED
                BY <1>0, <1>s, <2>2, <3>1, <3>2, <4>1, <4>3, SeatSets
        <3>3. CASE ~(e.at = "agent" /\ e.tenant = t)
            <4>1. Inserting(t)' \subseteq Inserting(t)
                BY <2>1, <3>3 DEF Inserting
            <4>2. Cardinality(Inserting(t)') <= Cardinality(Inserting(t)) /\ Cardinality(Inserting(t)') \in Nat
                BY <4>1, SeatSets, FS_Subset, FS_CardinalityType
            <4>3. mostSeats[t] \in Nat /\ mostSeats'[t] = mostSeats[t]
                BY <1>0, <2>2
            <4>4. Cardinality(AgentsOf(t)) + Cardinality(Inserting(t))
                     <= mostSeats[t] + Cardinality(Officers) - 1
                BY <1>t
            <4>5. Cardinality(AgentsOf(t)') + Cardinality(Inserting(t)')
                      <= mostSeats'[t] + Cardinality(Officers) - 1
                BY <3>1, <4>2, <4>3, <4>4, SeatSets
            <4> QED
                BY <3>4, <4>5
        <3> QED
            BY <3>2, <3>3, <3>4
    <2> QED
        BY <1>0, <1>u, <1>t, <2>1, <2>2, <2>3, <2>4, <2>5 DEF IdentityInv, Ids
\* The same, for a request that changes the tables of users and groups alone.
<1>b. ASSUME NEW o \in Officers, NEW e \in Errands, Begins(o, e),
             e.at \in {"tenant", "user", "settings", "group", "member"},
             e.at \in {"user", "settings", "group"} => e.tenant \in tenantRows
      PROVE  IdentityInv'
    BY <1>b, <1>s DEF Begins, identityHistory, Does
<1>w. ASSUME NEW o \in Officers, Becomes(o, Free), ~Does(o, "defaults"),
             UNCHANGED <<tenantRows, seats, agentOf, identityHistory>>,
             users' \in [UserIds -> UserRow \cup {NoRow}], groups' \in [GroupIds -> GroupRow \cup {NoRow}],
             \A u \in Ids(users') : users'[u].tenant \in tenantRows,
             \A g \in Ids(groups') : groups'[g].tenant \in tenantRows,
             members' \subseteq Ids(groups') \X Ids(users')
      PROVE  IdentityInv'
    <2>1. officer' \in [Officers -> Errands \cup {Free}] /\ officer'[o] = Free
          /\ \A p \in Officers \ {o} : officer'[p] = officer[p]
        BY <1>0, <1>w DEF Becomes
    <2>2. UNCHANGED <<tenantRows, seats, agentOf, mostSeats, halfMade>>
        BY <1>w DEF identityHistory
    <2>3. \A p \in Officers : ErrandOK(p)'
        BY <1>0, <1>f, <2>1, <2>2 DEF ErrandOK
    <2>4. ASSUME NEW t \in Tenants
          PROVE  /\ Cardinality(AgentsOf(t)') + Cardinality(Inserting(t)')
                      <= mostSeats'[t] + Cardinality(Officers) - 1
                 /\ seats'[t] = NoRow /\ t \in tenantRows' =>
                       /\ t \in halfMade' \/ \E p \in Officers : Does(p, "defaults")' /\ officer'[p].tenant = t
                       /\ AgentsOf(t)' = {}
        <3>1. AgentsOf(t)' = AgentsOf(t)
            BY <2>2 DEF AgentsOf
        <3>2. Inserting(t)' \subseteq Inserting(t)
            BY <1>f, <2>1 DEF Inserting
        <3>3. Cardinality(Inserting(t)') <= Cardinality(Inserting(t)) /\ Cardinality(Inserting(t)') \in Nat
            BY <3>2, SeatSets, FS_Subset, FS_CardinalityType
        <3> QED
            BY <1>0, <1>t, <1>w, <2>1, <2>2, <3>1, <3>3, SeatSets DEF Does
    <2> QED
        BY <1>0, <1>t, <1>w, <2>1, <2>2, <2>3, <2>4 DEF IdentityInv
\* A limit that is set: it exists from now on, and the largest does not fall.
<1>l. ASSUME NEW t \in Tenants, NEW n \in 0..MaxSeats, SetSeats(t, n)
      PROVE  /\ seats' \in [Tenants -> 0..MaxSeats \cup {NoRow}] /\ mostSeats' \in [Tenants -> 0..MaxSeats]
             /\ seats'[t] = n /\ n <= mostSeats'[t] /\ n # NoRow
             /\ \A u \in Tenants \ {t} : seats'[u] = seats[u] /\ mostSeats'[u] = mostSeats[u]
             /\ \A u \in Tenants : mostSeats[u] <= mostSeats'[u]
             /\ \A u \in Tenants : seats[u] # NoRow => seats'[u] # NoRow
    BY <1>0, <1>l DEF SetSeats
<1>1. ASSUME NEW o \in Officers, NEW t \in Tenants, CreateTenant(o, t) PROVE IdentityInv'
    <2>1. [at |-> "tenant", tenant |-> t] \in Errands
        BY DEF Errands
    <2> QED
        BY <1>1, <1>b, <2>1 DEF CreateTenant
<1>2. ASSUME NEW o \in Officers, InsertTenant(o) PROVE IdentityInv'
    <2>0. PICK t : t = officer[o].tenant
        OBVIOUS
    <2>1. t \in Tenants /\ officer[o].at = "tenant"
          /\ UNCHANGED <<seats, users, agentOf, groups, members, mostSeats, halfMade>>
        BY <1>2, <1>k, <2>0 DEF InsertTenant, Does, identityHistory
    <2>2. CASE t \in tenantRows
        <3>1. Becomes(o, Free) /\ tenantRows' = tenantRows
            BY <1>2, <2>0, <2>2 DEF InsertTenant
        <3> QED
            BY <1>s, <1>f, <2>1, <3>1 DEF tables, Does
    <2>3. CASE t \notin tenantRows
        <3> DEFINE e == [at |-> "defaults", tenant |-> t]
        <3>1. tenantRows' = tenantRows \cup {t} /\ Becomes(o, e)
            BY <1>2, <2>0, <2>3 DEF InsertTenant
        <3>2. e \in Errands /\ e.at = "defaults" /\ e.tenant = t
            BY <2>1 DEF Errands
        <3> HIDE DEF e
        <3>3. officer' \in [Officers -> Errands \cup {Free}] /\ officer'[o] = e
              /\ \A p \in Officers \ {o} : officer'[p] = officer[p]
            BY <1>0, <3>1, <3>2 DEF Becomes
        <3>4. \A p \in Officers : ErrandOK(p)'
            BY <1>0, <2>1, <3>1, <3>2, <3>3 DEF ErrandOK
        <3>5. \A u \in Tenants : AgentsOf(u)' = AgentsOf(u) /\ Inserting(u)' = Inserting(u)
            BY <2>1, <3>2, <3>3 DEF AgentsOf, Inserting
        <3>6. AgentsOf(t) = {}
            BY <1>0, <2>1, <2>3 DEF AgentsOf
        <3>7. ASSUME NEW u \in Tenants, seats'[u] = NoRow, u \in tenantRows'
              PROVE  /\ u \in halfMade' \/ \E p \in Officers : Does(p, "defaults")' /\ officer'[p].tenant = u
                     /\ AgentsOf(u)' = {}
            <4>1. CASE u = t
                BY <3>2, <3>3, <3>5, <3>6, <4>1 DEF Does
            <4>2. CASE u # t
                <5>1. u \in tenantRows /\ seats[u] = NoRow
                    BY <2>1, <3>1, <3>7, <4>2
                <5>2. u \in halfMade \/ \E p \in Officers : officer[p].at = "defaults" /\ officer[p].tenant = u
                    BY <1>t, <5>1 DEF Does
                <5>3. AgentsOf(u)' = {}
                    BY <1>t, <3>5, <5>1
                <5> QED
                    BY <2>1, <3>3, <5>2, <5>3 DEF Does
            <4> QED
                BY <4>1, <4>2
        <3>8. agentOf' \in [UserIds -> tenantRows' \cup {NoRow}] /\ tenantRows' \subseteq Tenants
              /\ halfMade' \subseteq tenantRows'
            BY <1>0, <2>1, <3>1
        <3>9. \A u \in Tenants : Cardinality(AgentsOf(u)') + Cardinality(Inserting(u)')
                      <= mostSeats'[u] + Cardinality(Officers) - 1
            BY <1>t, <2>1, <3>5
        <3> QED
            BY <1>0, <1>u, <1>t, <2>1, <3>1, <3>3, <3>4, <3>7, <3>8, <3>9 DEF IdentityInv, Ids
    <2> QED
        BY <2>2, <2>3
\* InsertDefaults and UpdateSettings: the limit of a tenant is set.
<1>3. ASSUME NEW t \in tenantRows, NEW n \in 0..MaxSeats, SetSeats(t, n),
             UNCHANGED <<tenantRows, users, agentOf, groups, members, halfMade>>,
             \/ officer' = officer
             \/ \E o \in Officers : Does(o, "defaults") /\ officer[o].tenant = t /\ Becomes(o, Free)
      PROVE  IdentityInv'
    <2>1. t \in Tenants
        BY <1>0
    <2>2. officer' \in [Officers -> Errands \cup {Free}]
          /\ \A p \in Officers : \/ officer'[p] = officer[p]
                                 \/ officer'[p] = Free /\ officer[p].at = "defaults" /\ officer[p].tenant = t
        BY <1>0, <1>3 DEF Becomes, Does
    <2>3. ASSUME NEW p \in Officers PROVE ErrandOK(p)'
        <3>1. CASE officer'[p] = Free
            BY <1>f, <3>1 DEF ErrandOK
        <3>2. CASE officer'[p] = officer[p]
            <4>1. ErrandOK(p) /\ (officer[p].at = "count" => officer[p].limit \in 0..MaxSeats)
                  /\ (officer[p].at \in {"count", "agent"} => officer[p].tenant \in Tenants)
                BY <1>0, <1>k
            <4>2. officer[p].at = "count" => officer[p].limit <= mostSeats'[officer[p].tenant]
                BY <1>0, <1>l, <1>3, <2>1, <4>1 DEF ErrandOK
            <4>3. officer[p].at \in {"count", "agent"} => seats'[officer[p].tenant] # NoRow
                BY <1>l, <1>3, <2>1, <4>1 DEF ErrandOK
            <4> QED
                BY <1>3, <3>2, <4>1, <4>2, <4>3 DEF ErrandOK
        <3> QED
            BY <2>2, <3>1, <3>2
    <2>4. ASSUME NEW u \in Tenants
          PROVE  /\ Cardinality(AgentsOf(u)') + Cardinality(Inserting(u)')
                      <= mostSeats'[u] + Cardinality(Officers) - 1
                 /\ seats'[u] # NoRow => seats'[u] <= mostSeats'[u]
                 /\ seats'[u] = NoRow /\ u \in tenantRows' =>
                       /\ u \in halfMade' \/ \E p \in Officers : Does(p, "defaults")' /\ officer'[p].tenant = u
                       /\ AgentsOf(u)' = {}
        <3>1. AgentsOf(u)' = AgentsOf(u)
            BY <1>3 DEF AgentsOf
        <3>2. Inserting(u)' = Inserting(u)
            BY <1>f, <2>2 DEF Inserting
        <3>3. Cardinality(AgentsOf(u)') + Cardinality(Inserting(u)')
                      <= mostSeats'[u] + Cardinality(Officers) - 1
            BY <1>0, <1>l, <1>t, <1>3, <2>1, <3>1, <3>2, SeatSets
        <3>4. seats'[u] # NoRow => seats'[u] <= mostSeats'[u]
            BY <1>0, <1>l, <1>t, <1>3, <2>1
        <3>5. ASSUME seats'[u] = NoRow, u \in tenantRows'
              PROVE  u \in halfMade' \/ \E p \in Officers : Does(p, "defaults")' /\ officer'[p].tenant = u
            <4>1. u # t /\ seats[u] = NoRow /\ u \in tenantRows
                BY <1>l, <1>3, <2>1, <3>5
            <4> QED
                BY <1>t, <1>3, <2>2, <4>1 DEF Does
        <3>6. seats'[u] = NoRow /\ u \in tenantRows' => AgentsOf(u)' = {}
            BY <1>l, <1>t, <1>3, <2>1, <3>1
        <3> QED
            BY <3>3, <3>4, <3>5, <3>6
    <2> QED
        BY <1>0, <1>u, <1>l, <1>3, <2>1, <2>2, <2>3, <2>4 DEF IdentityInv, Ids
<1>4. ASSUME NEW o \in Officers, InsertDefaults(o) PROVE IdentityInv'
    <2>1. officer[o].tenant \in tenantRows
        BY <1>0, <1>4 DEF InsertDefaults, Does, ErrandOK
    <2> QED
        BY <1>3, <1>4, <2>1 DEF InsertDefaults
<1>5. ASSUME NEW t \in Tenants, NEW n \in 0..MaxSeats, UpdateSettings(t, n) PROVE IdentityInv'
    BY <1>3, <1>5 DEF UpdateSettings
<1>6. ASSUME NEW o \in Officers, NEW t \in Tenants, NEW u \in UserIds,
             CreateAgent(o, t, u) \/ \E n \in UserNames : CreateUser(o, t, u, n)
      PROVE  IdentityInv'
    <2>1. [at |-> "settings", id |-> u, tenant |-> t] \in Errands
          /\ \A n \in UserNames : [at |-> "user", id |-> u, tenant |-> t, name |-> n] \in Errands
        BY DEF Errands
    <2> QED
        BY <1>6, <1>b, <2>1 DEF CreateAgent, CreateUser
<1>7. ASSUME NEW o \in Officers, NEW t \in Tenants, NEW g \in GroupIds, NEW c \in GroupCodes,
             CreateGroup(o, t, g, c)
      PROVE  IdentityInv'
    <2>1. [at |-> "group", id |-> g, tenant |-> t, code |-> c] \in Errands
        BY DEF Errands
    <2> QED
        BY <1>7, <1>b, <2>1 DEF CreateGroup
<1>8. ASSUME NEW o \in Officers, NEW g \in GroupIds, NEW u \in UserIds, AddMember(o, g, u) PROVE IdentityInv'
    <2>1. [at |-> "member", id |-> u, group |-> g] \in Errands
        BY DEF Errands
    <2> QED
        BY <1>8, <1>b, <2>1 DEF AddMember
<1>9. ASSUME NEW o \in Officers, InsertUser(o) PROVE IdentityInv'
    <2>0. PICK e, row : e = officer[o] /\ row = [tenant |-> e.tenant, name |-> e.name]
        OBVIOUS
    <2>1. e.at = "user" /\ e.id \in UserIds /\ e.name \in UserNames /\ e.tenant \in tenantRows
        BY <1>0, <1>k, <1>9, <2>0 DEF InsertUser, Does, ErrandOK
    <2>2. row \in UserRow /\ row # NoRow /\ row.tenant \in tenantRows
        BY <1>0, <2>0, <2>1 DEF UserRow
    <2>3. users' = users \/ users' = [users EXCEPT ![e.id] = row]
        BY <1>9, <2>0 DEF InsertUser, Inserted
    <2>4. users' \in [UserIds -> UserRow \cup {NoRow}] /\ Ids(users) \subseteq Ids(users')
          /\ \A u \in Ids(users') : users'[u].tenant \in tenantRows
        BY <1>0, <1>u, <2>1, <2>2, <2>3 DEF Ids
    <2>5. Becomes(o, Free) /\ ~Does(o, "defaults")
          /\ UNCHANGED <<tenantRows, seats, agentOf, groups, members, identityHistory>>
        BY <1>9, <2>0, <2>1 DEF InsertUser, Does
    <2> QED
        BY <1>0, <1>u, <1>w, <2>4, <2>5
<1>10. ASSUME NEW o \in Officers, InsertGroup(o) PROVE IdentityInv'
    <2>0. PICK e, row : e = officer[o] /\ row = [tenant |-> e.tenant, code |-> e.code]
        OBVIOUS
    <2>1. e.at = "group" /\ e.id \in GroupIds /\ e.code \in GroupCodes /\ e.tenant \in tenantRows
        BY <1>0, <1>k, <1>10, <2>0 DEF InsertGroup, Does, ErrandOK
    <2>2. row \in GroupRow /\ row # NoRow /\ row.tenant \in tenantRows
        BY <1>0, <2>0, <2>1 DEF GroupRow
    <2>3. groups' = groups \/ groups' = [groups EXCEPT ![e.id] = row]
        BY <1>10, <2>0 DEF InsertGroup, Inserted
    <2>4. groups' \in [GroupIds -> GroupRow \cup {NoRow}] /\ Ids(groups) \subseteq Ids(groups')
          /\ \A g \in Ids(groups') : groups'[g].tenant \in tenantRows
        BY <1>0, <1>u, <2>1, <2>2, <2>3 DEF Ids
    <2>5. Becomes(o, Free) /\ ~Does(o, "defaults")
          /\ UNCHANGED <<tenantRows, seats, users, agentOf, members, identityHistory>>
        BY <1>10, <2>0, <2>1 DEF InsertGroup, Does
    <2> QED
        BY <1>0, <1>u, <1>w, <2>4, <2>5
<1>11. ASSUME NEW o \in Officers, InsertMember(o) PROVE IdentityInv'
    <2>1. members' \subseteq Ids(groups) \X Ids(users)
        BY <1>0, <1>11 DEF InsertMember
    <2>2. Becomes(o, Free) /\ ~Does(o, "defaults")
          /\ UNCHANGED <<tenantRows, seats, users, agentOf, groups, identityHistory>>
        BY <1>11 DEF InsertMember, Does
    <2> QED
        BY <1>0, <1>u, <1>w, <2>1, <2>2
<1>12. ASSUME NEW o \in Officers, ReadSettings(o) PROVE IdentityInv'
    <2>0. PICK e : e = officer[o]
        OBVIOUS
    <2>1. e.at = "settings" /\ e.id \in UserIds /\ e.tenant \in tenantRows /\ e.tenant \in Tenants
        BY <1>0, <1>k, <1>12, <2>0 DEF ReadSettings, Does, ErrandOK
    <2>2. UNCHANGED <<tables, mostSeats, halfMade>> /\ ~Does(o, "defaults")
        BY <1>12 DEF ReadSettings, Proceeds, identityHistory, Does
    <2>3. CASE seats[e.tenant] = NoRow
        BY <1>12, <1>s, <1>f, <2>0, <2>2, <2>3 DEF ReadSettings, Proceeds
    <2>4. CASE seats[e.tenant] # NoRow
        <3> DEFINE next == [at |-> "count", id |-> e.id, tenant |-> e.tenant, limit |-> seats[e.tenant]]
        <3>1. next \in Errands /\ next.at = "count" /\ next.tenant = e.tenant /\ next.limit = seats[e.tenant]
            BY <1>0, <2>1, <2>4 DEF Errands
        <3>2. Becomes(o, next)
            BY <1>12, <2>0, <2>4 DEF ReadSettings, Proceeds
        <3>3. seats[e.tenant] <= mostSeats[e.tenant]
            BY <1>t, <2>1, <2>4
        <3> HIDE DEF next
        <3> QED
            BY <1>s, <2>1, <2>2, <2>4, <3>1, <3>2, <3>3
    <2> QED
        BY <2>3, <2>4
<1>13. ASSUME NEW o \in Officers, CountAgents(o) PROVE IdentityInv'
    <2>0. PICK e : e = officer[o]
        OBVIOUS
    <2>1. e.at = "count" /\ e.id \in UserIds /\ e.tenant \in tenantRows /\ e.tenant \in Tenants
          /\ e.limit <= mostSeats[e.tenant] /\ e.limit \in 0..MaxSeats /\ seats[e.tenant] # NoRow
        BY <1>0, <1>k, <1>13, <2>0 DEF CountAgents, Does, ErrandOK
    <2>2. UNCHANGED <<tables, mostSeats, halfMade>> /\ ~Does(o, "defaults")
        BY <1>13 DEF CountAgents, Proceeds, identityHistory, Does
    <2>3. CASE Cardinality(AgentsOf(e.tenant)) >= e.limit
        BY <1>13, <1>s, <1>f, <2>0, <2>2, <2>3 DEF CountAgents, Proceeds
    <2>4. CASE ~(Cardinality(AgentsOf(e.tenant)) >= e.limit)
        <3> DEFINE next == [at |-> "agent", id |-> e.id, tenant |-> e.tenant]
        <3>1. next \in Errands /\ next.at = "agent" /\ next.tenant = e.tenant
            BY <2>1 DEF Errands
        <3>2. Becomes(o, next)
            BY <1>13, <2>0, <2>4 DEF CountAgents, Proceeds
        <3>3. Cardinality(AgentsOf(e.tenant)) < mostSeats[e.tenant]
            BY <1>0, <2>1, <2>4, SeatSets
        <3> HIDE DEF next
        <3> QED
            BY <1>s, <2>1, <2>2, <3>1, <3>2, <3>3
    <2> QED
        BY <2>3, <2>4
<1>14. ASSUME NEW o \in Officers, InsertAgent(o) PROVE IdentityInv'
    <2>0. PICK e : e = officer[o]
        OBVIOUS
    <2>1. e.at = "agent" /\ e.id \in UserIds /\ e.tenant \in tenantRows /\ e.tenant \in Tenants
          /\ seats[e.tenant] # NoRow /\ e.tenant # NoRow
        BY <1>0, <1>k, <1>14, <2>0 DEF InsertAgent, Does, ErrandOK
    <2>2. /\ agentOf' = agentOf \/ (e.id \notin Ids(agentOf) /\ agentOf' = [agentOf EXCEPT ![e.id] = e.tenant])
          /\ Becomes(o, Free) /\ UNCHANGED <<tenantRows, seats, users, groups, members, mostSeats, halfMade>>
        BY <1>14, <2>0 DEF InsertAgent, Inserted, identityHistory
    <2>3. officer' \in [Officers -> Errands \cup {Free}] /\ officer'[o] = Free
          /\ \A p \in Officers \ {o} : officer'[p] = officer[p]
        BY <1>0, <2>2 DEF Becomes
    <2>4. \A p \in Officers : ErrandOK(p)'
        BY <1>0, <1>f, <2>2, <2>3 DEF ErrandOK
    <2>5. agentOf' \in [UserIds -> tenantRows \cup {NoRow}]
        BY <1>0, <2>1, <2>2
    <2>6. Inserting(e.tenant)' = Inserting(e.tenant) \ {o} /\ o \in Inserting(e.tenant)
        BY <1>f, <2>0, <2>1, <2>3 DEF Inserting
    <2>7. Cardinality(Inserting(e.tenant)') = Cardinality(Inserting(e.tenant)) - 1
        BY <2>6, SeatSets, FS_RemoveElement
    <2>8. ASSUME NEW t \in Tenants
          PROVE  /\ Cardinality(AgentsOf(t)') + Cardinality(Inserting(t)')
                      <= mostSeats'[t] + Cardinality(Officers) - 1
                 /\ seats'[t] = NoRow /\ t \in tenantRows' =>
                       /\ t \in halfMade' \/ \E p \in Officers : Does(p, "defaults")' /\ officer'[p].tenant = t
                       /\ AgentsOf(t)' = {}
        <3>1. CASE t = e.tenant
            <4>1. AgentsOf(t)' = AgentsOf(t) \/ AgentsOf(t)' = AgentsOf(t) \cup {e.id}
                BY <1>0, <2>1, <2>2, <3>1 DEF AgentsOf
            <4>2. Cardinality(AgentsOf(t)') <= Cardinality(AgentsOf(t)) + 1 /\ Cardinality(AgentsOf(t)') \in Nat
                <5>1. CASE AgentsOf(t)' = AgentsOf(t)
                    BY <5>1, SeatSets
                <5>2. CASE AgentsOf(t)' = AgentsOf(t) \cup {e.id}
                    <6>1. e.id \in AgentsOf(t) => AgentsOf(t)' = AgentsOf(t)
                        BY <5>2
                    <6>2. e.id \notin AgentsOf(t) => Cardinality(AgentsOf(t)') = Cardinality(AgentsOf(t)) + 1
                        BY <5>2, SeatSets, FS_AddElement
                    <6> QED
                        BY <6>1, <6>2, SeatSets
                <5> QED
                    BY <4>1, <5>1, <5>2
            <4> QED
                BY <1>0, <1>t, <2>1, <2>2, <2>7, <3>1, <4>2, SeatSets
        <3>2. CASE t # e.tenant
            <4>1. AgentsOf(t)' = AgentsOf(t)
                BY <1>0, <2>1, <2>2, <3>2, <2>8 DEF AgentsOf, Ids
            <4>2. Inserting(t)' = Inserting(t)
                BY <1>f, <2>0, <2>3, <3>2 DEF Inserting
            <4> QED
                BY <1>t, <2>0, <2>1, <2>2, <2>3, <4>1, <4>2 DEF Does
        <3> QED
            BY <3>1, <3>2
    <2> QED
        BY <1>0, <1>u, <1>t, <2>2, <2>3, <2>4, <2>5, <2>8 DEF IdentityInv, Ids
<1>15. ASSUME NEW o \in Officers, ErrandFails(o) PROVE IdentityInv'
    BY <1>15, <1>s, <1>f DEF ErrandFails
<1>x. ASSUME UNCHANGED <<tenantRows, seats, users, agentOf, groups, officer, mostSeats, halfMade>>,
             members' \subseteq members
      PROVE  IdentityInv'
    <2>1. \A o \in Officers : ErrandOK(o)'
        BY <1>0, <1>x DEF ErrandOK
    <2>2. \A t : AgentsOf(t)' = AgentsOf(t) /\ Inserting(t)' = Inserting(t)
        BY <1>x DEF AgentsOf, Inserting
    <2>3. members' \subseteq Ids(groups') \X Ids(users')
        BY <1>0, <1>x DEF Ids
    <2>4. \A t \in Tenants :
          /\ seats'[t] # NoRow => seats'[t] <= mostSeats'[t]
          /\ Cardinality(AgentsOf(t)') + Cardinality(Inserting(t)')
                <= mostSeats'[t] + Cardinality(Officers) - 1
          /\ seats'[t] = NoRow /\ t \in tenantRows' =>
                /\ t \in halfMade' \/ \E o \in Officers : Does(o, "defaults")' /\ officer'[o].tenant = t
                /\ AgentsOf(t)' = {}
        BY <1>t, <1>x, <2>2 DEF Does
    <2>5. /\ \A u \in Ids(users') : users'[u].tenant \in tenantRows'
          /\ \A g \in Ids(groups') : groups'[g].tenant \in tenantRows'
        BY <1>u, <1>x DEF Ids
    <2> QED
        BY <1>0, <1>x, <2>1, <2>3, <2>4, <2>5 DEF IdentityInv
<1>16. ASSUME NEW g \in GroupIds, NEW u \in UserIds, RemoveMember(g, u) PROVE IdentityInv'
    BY <1>16, <1>x DEF RemoveMember, identityHistory
<1>17. CASE UNCHANGED identityVars
    BY <1>17, <1>x DEF identityVars, tables, identityHistory
<1> QED
    BY <1>1, <1>2, <1>4, <1>5, <1>6, <1>7, <1>8, <1>9, <1>10, <1>11, <1>12, <1>13, <1>14, <1>15,
       <1>16, <1>17 DEF IdentityNext

LEMMA InitIdentity == IdentityInit => IdentityInv
<1> SUFFICES ASSUME IdentityInit PROVE IdentityInv
    OBVIOUS
<1> USE IdentityAssumption
<1>1. \A t \in Tenants : AgentsOf(t) = {} /\ Inserting(t) = {}
    BY DEF IdentityInit, AgentsOf, Inserting, Free
<1>2. \A t \in Tenants : Cardinality(AgentsOf(t)) + Cardinality(Inserting(t))
                            <= mostSeats[t] + Cardinality(Officers) - 1
    BY <1>1, FS_EmptySet, SeatSets DEF IdentityInit
<1> QED
    BY <1>1, <1>2 DEF IdentityInit, IdentityInv, Ids, ErrandOK, Free

(* IdentityInv holds in every reachable state.                               *)
THEOREM IdentityInvariant == ServicesSpec => []IdentityInv
<1>1. ServicesInit => IdentityInv
    BY InitIdentity DEF ServicesInit
<1>2. [ServicesNext]_servicesVars => [IdentityNext]_identityVars
    BY DEF ServicesNext, servicesVars
<1>3. IdentityInv /\ [ServicesNext]_servicesVars => IdentityInv'
    BY <1>2, NextIdentity
<1> QED
    BY <1>1, <1>3, PTL DEF ServicesSpec

-----------------------------------------------------------------------------
(***************************************************************************)
(* Customers. A body's phones are in the table or still to come, or others *)
(* are at the customer too.                                                *)
(***************************************************************************)
LEMMA PhoneListFacts ==
    /\ PhonesOf(<<>>) = {}
    /\ \A l \in PhoneLists :
          /\ PhonesOf(l) \subseteq PhoneInput
          /\ l # <<>> => /\ Head(l) \in PhoneInput /\ Tail(l) \in PhoneLists
                         /\ PhonesOf(l) = {Head(l)} \cup PhonesOf(Tail(l))
<1>1. PhonesOf(<<>>) = {}
    BY DEF PhonesOf
<1>2. ASSUME NEW l \in PhoneLists
      PROVE  /\ PhonesOf(l) \subseteq PhoneInput
             /\ l # <<>> => /\ Head(l) \in PhoneInput /\ Tail(l) \in PhoneLists
                            /\ PhonesOf(l) = {Head(l)} \cup PhonesOf(Tail(l))
    <2>1. PICK n \in 0..MaxPhones : l \in [1..n -> PhoneInput]
        BY DEF PhoneLists
    <2>2. l \in Seq(PhoneInput) /\ Len(l) = n /\ n \in Nat
        BY <2>1, CrmAssumption, SeqDef
    <2>3. PhonesOf(l) \subseteq PhoneInput
        BY <2>1 DEF PhonesOf
    <2>4. ASSUME l # <<>>
          PROVE  /\ Head(l) \in PhoneInput /\ Tail(l) \in PhoneLists
                 /\ PhonesOf(l) = {Head(l)} \cup PhonesOf(Tail(l))
        <3>1. /\ Head(l) \in PhoneInput /\ Tail(l) \in Seq(PhoneInput) /\ Len(Tail(l)) = n - 1
              /\ \A i \in 1..Len(Tail(l)) : Tail(l)[i] = l[i + 1]
            BY <2>2, <2>4, HeadTailProperties
        <3>2. n \in Nat \ {0}
            BY <2>2, <2>4, EmptySeq
        <3>3. Tail(l) \in [1..(n - 1) -> PhoneInput] /\ n - 1 \in 0..MaxPhones
            <4>1. Tail(l) \in [1..Len(Tail(l)) -> PhoneInput]
                BY <3>1, LenProperties
            <4> QED
                BY <2>1, <3>1, <3>2, <4>1, CrmAssumption
        <3>4. Tail(l) \in PhoneLists
            BY <3>3 DEF PhoneLists
        <3>5. Head(l) = l[1] /\ DOMAIN l = 1..n /\ DOMAIN Tail(l) = 1..(n - 1)
            BY <2>1, <2>2, <3>3
        <3>6. \A i \in 1..n : i = 1 \/ (i - 1 \in 1..(n - 1) /\ l[i] = Tail(l)[i - 1])
            BY <3>1, <3>2
        <3>7. PhonesOf(l) \subseteq {Head(l)} \cup PhonesOf(Tail(l))
            BY <3>5, <3>6 DEF PhonesOf
        <3>8. {Head(l)} \cup PhonesOf(Tail(l)) \subseteq PhonesOf(l)
            <4>1. \A i \in 1..(n - 1) : i + 1 \in 1..n /\ Tail(l)[i] = l[i + 1]
                BY <3>1, <3>2
            <4> QED
                BY <3>2, <3>5, <4>1 DEF PhonesOf
        <3> QED
            BY <3>1, <3>4, <3>7, <3>8
    <2> QED
        BY <2>3, <2>4
<1> QED
    BY <1>1, <1>2

OneOf(set) == Cardinality({p \in set : p.primary}) = 1

\* A body that was let through has one primary phone, as a set too.
LEMMA OnePrimaryOfList ==
    ASSUME NEW l \in PhoneLists, validatePhones(l) PROVE OneOf(PhonesOf(l))
<1> DEFINE I == {i \in DOMAIN l : l[i].primary}
<1>1. IsFiniteSet(I) /\ Cardinality(I) = 1
    <2>1. PICK n \in 0..MaxPhones : l \in [1..n -> PhoneInput]
        BY DEF PhoneLists
    <2>2. IsFiniteSet(1..n)
        BY FS_Interval, CrmAssumption
    <2>3. I \subseteq 1..n
        BY <2>1
    <2> QED
        BY <2>2, <2>3, FS_Subset DEF validatePhones
<1>2. PICK i : I = {i}
    BY <1>1, FS_Singleton
<1>3. {p \in PhonesOf(l) : p.primary} = {l[i]}
    BY <1>2 DEF PhonesOf
<1> QED
    BY <1>3, FS_Singleton DEF OneOf

Creates(e, c) == e.at \in {"customer", "phone"} /\ e.id = c
Adds(e, c) == e.at = "phone" /\ e.id = c
Deletes(e, c) == e.at = "delete" /\ e.id = c
IsAt(e, c) == e.at \in {"customer", "phone", "delete", "record"} /\ e.id = c
AllPhones(e, table) == table[e.id] \cup PhonesOf(e.todo) = PhonesOf(e.list)
PastContacts == {<<"customer">>, <<"phones", "customer">>}

TallyOK(n) == n.left + n.good + n.bad \in 1..MaxRecords

TaskOK(e) ==
    /\ e.at \in {"next", "customer", "phone"} => TallyOK(e.tally)
    /\ e.at \in {"customer", "phone"} => e.tally.left > 0 /\ validatePhones(e.list)
    /\ e.at = "customer" => e.id \notin Ids(customers) /\ e.todo = e.list
    /\ e.at = "phone" => e.id \in mixed \/ AllPhones(e, phones)
    /\ e.at = "delete" /\ e.rest \in PastContacts /\ e.id \in contacted => e.id \in mixed

\* A customer nobody deletes or left torn has its phones, or they are coming.
CustomerOK(c) ==
    /\ c \notin Ids(customers) => phones[c] = {}
    /\ c \in Ids(customers) \ torn /\ (\A d \in Brokers : ~Deletes(broker[d], c)) =>
          /\ \A b \in Brokers : Adds(broker[b], c) => AllPhones(broker[b], phones)
          /\ (\A b \in Brokers : ~Adds(broker[b], c)) => OneOf(phones[c])

CrmInv ==
    /\ customers \in [CustomerIds -> [tenant : Tenants] \cup {NoRow}]
    /\ phones \in [CustomerIds -> SUBSET PhoneInput]
    /\ contacted \subseteq Ids(customers)
    /\ broker \in [Brokers -> Tasks \cup {Out}]
    /\ torn \cup mixed \cup refused \cup missold \subseteq CustomerIds
    /\ missold \subseteq mixed /\ refused \subseteq mixed
    /\ \A b \in Brokers : TaskOK(broker[b])
    /\ \A c \in CustomerIds : CustomerOK(c)
    /\ \A c \in CustomerIds : \A b \in Brokers : \A d \in Brokers \ {b} :
          IsAt(broker[b], c) /\ IsAt(broker[d], c) =>
              c \in mixed /\ ~(Creates(broker[b], c) /\ Creates(broker[d], c))

LEMMA TaskKinds ==
    ASSUME NEW e \in Tasks \cup {Out}
    PROVE  /\ e.at \in {"out", "next", "customer", "phone", "delete", "record"}
           /\ e.at \in {"next", "customer", "phone"} => e.tally \in Counters
           /\ e.at \in {"customer", "phone"} =>
                 e.id \in CustomerIds /\ e.tenant \in Tenants /\ e.list \in PhoneLists /\ e.todo \in PhoneLists
           /\ e.at = "delete" => e.id \in CustomerIds /\ e.rest \in DeleteOrder
           /\ e.at = "record" => e.id \in CustomerIds
           /\ e.at = "out" <=> e = Out
BY DEF Tasks, Out

LEMMA Tallying ==
    ASSUME NEW n \in Counters, TallyOK(n), n.left > 0, NEW good \in BOOLEAN
    PROVE  Tallied(n, good) \in Counters /\ TallyOK(Tallied(n, good))
<1> USE CrmAssumption
<1>1. n.left \in 1..MaxRecords /\ n.good \in 0..MaxRecords /\ n.bad \in 0..MaxRecords
      /\ n.left + n.good + n.bad \in 1..MaxRecords
    BY DEF Counters, TallyOK
<1>2. CASE good
    <2>1. Tallied(n, good) = [left |-> n.left - 1, good |-> n.good + 1, bad |-> n.bad]
        BY <1>2 DEF Tallied, Counters
    <2> QED
        BY <1>1, <2>1 DEF Counters, TallyOK
<1>3. CASE ~good
    <2>1. Tallied(n, good) = [left |-> n.left - 1, good |-> n.good, bad |-> n.bad + 1]
        BY <1>3 DEF Tallied, Counters
    <2> QED
        BY <1>1, <2>1 DEF Counters, TallyOK
<1> QED
    BY <1>2, <1>3

LEMMA NextCrm == CrmInv /\ [CrmNext]_crmVars => CrmInv'
<1> SUFFICES ASSUME CrmInv, [CrmNext]_crmVars PROVE CrmInv'
    OBVIOUS
<1> USE CrmAssumption
<1>0. /\ customers \in [CustomerIds -> [tenant : Tenants] \cup {NoRow}]
      /\ phones \in [CustomerIds -> SUBSET PhoneInput]
      /\ contacted \subseteq Ids(customers)
      /\ broker \in [Brokers -> Tasks \cup {Out}]
      /\ torn \cup mixed \cup refused \cup missold \subseteq CustomerIds
      /\ missold \subseteq mixed /\ refused \subseteq mixed
      /\ \A b \in Brokers : TaskOK(broker[b])
      /\ \A c \in CustomerIds : CustomerOK(c)
    BY DEF CrmInv
<1>m. ASSUME NEW c \in CustomerIds, NEW b \in Brokers, NEW d \in Brokers \ {b},
             IsAt(broker[b], c), IsAt(broker[d], c)
      PROVE  c \in mixed /\ ~(Creates(broker[b], c) /\ Creates(broker[d], c))
    BY <1>m DEF CrmInv
<1>k. ASSUME NEW b \in Brokers
      PROVE  LET e == broker[b] IN
           /\ e.at \in {"out", "next", "customer", "phone", "delete", "record"}
           /\ e.at \in {"next", "customer", "phone"} => e.tally \in Counters
           /\ e.at \in {"customer", "phone"} =>
                 e.id \in CustomerIds /\ e.tenant \in Tenants /\ e.list \in PhoneLists /\ e.todo \in PhoneLists
           /\ e.at = "delete" => e.id \in CustomerIds /\ e.rest \in DeleteOrder
           /\ e.at = "record" => e.id \in CustomerIds
    BY <1>0, TaskKinds
<1>o. Out \in Tasks \cup {Out} /\ Out.at = "out"
    BY DEF Out
<1>i. Ids(customers) \subseteq CustomerIds
    BY <1>0 DEF Ids
\* A request that turns to another task, with the tables as they are.
<1>s. ASSUME NEW b \in Brokers, NEW new \in Tasks \cup {Out}, Turn(b, new),
             UNCHANGED <<customers, phones, contacted>>,
             torn \subseteq torn', mixed \subseteq mixed', missold' \subseteq mixed', refused' \subseteq mixed',
             torn' \cup mixed' \subseteq CustomerIds,
             new.at \in {"out", "next", "customer", "delete", "record"},
             new.at \in {"next", "customer"} => TallyOK(new.tally),
             new.at = "customer" => /\ new.tally.left > 0 /\ validatePhones(new.list) /\ new.todo = new.list
                                    /\ new.id \notin Ids(customers)
                                    /\ \A o \in Brokers : ~IsAt(broker[o], new.id),
             new.at = "delete" => new.rest \notin PastContacts,
             new.at \in {"delete", "record"} =>
                 new.id \in mixed' \/ \A o \in Brokers \ {b} : ~IsAt(broker[o], new.id),
             broker[b].at = "delete" => broker[b].id \in torn',
             broker[b].at = "phone" => broker[b].id \in torn' \/ broker[b].todo = <<>>
      PROVE  CrmInv'
    <2>1. broker' \in [Brokers -> Tasks \cup {Out}] /\ broker'[b] = new
          /\ \A o \in Brokers \ {b} : broker'[o] = broker[o]
        BY <1>0, <1>s DEF Turn
    <2>2. ASSUME NEW o \in Brokers PROVE TaskOK(broker[o])'
        <3>1. CASE o = b
            BY <1>s, <2>1, <3>1 DEF TaskOK
        <3>2. CASE o # b
            BY <1>0, <1>s, <2>1, <3>2 DEF TaskOK
        <3> QED
            BY <3>1, <3>2
    <2>3. ASSUME NEW c \in CustomerIds PROVE CustomerOK(c)'
        <3>1. ASSUME c \in Ids(customers)' \ torn', \A d \in Brokers : ~Deletes(broker'[d], c)
              PROVE  /\ \A o \in Brokers : Adds(broker'[o], c) => AllPhones(broker'[o], phones')
                     /\ (\A o \in Brokers : ~Adds(broker'[o], c)) => OneOf(phones'[c])
            <4>1. c \in Ids(customers) \ torn
                BY <1>s, <3>1
            <4>2. \A d \in Brokers : ~Deletes(broker[d], c)
                BY <1>s, <2>1, <3>1 DEF Deletes
            <4>3. /\ \A o \in Brokers : Adds(broker[o], c) => AllPhones(broker[o], phones)
                  /\ (\A o \in Brokers : ~Adds(broker[o], c)) => OneOf(phones[c])
                BY <1>0, <4>1, <4>2 DEF CustomerOK
            <4>4. \A o \in Brokers : Adds(broker'[o], c) => AllPhones(broker'[o], phones')
                BY <1>s, <2>1, <4>3 DEF Adds
            <4>5. ASSUME \A o \in Brokers : ~Adds(broker'[o], c) PROVE OneOf(phones'[c])
                <5>1. CASE Adds(broker[b], c)
                    <6>1. broker[b].todo = <<>> /\ broker[b].list \in PhoneLists
                          /\ validatePhones(broker[b].list) /\ broker[b].id = c
                        BY <1>0, <1>s, <1>k, <3>1, <5>1 DEF Adds, TaskOK
                    <6>2. phones[c] = PhonesOf(broker[b].list)
                        BY <4>3, <5>1, <6>1, PhoneListFacts DEF AllPhones
                    <6> QED
                        BY <1>s, <6>1, <6>2, OnePrimaryOfList
                <5>2. CASE ~Adds(broker[b], c)
                    BY <1>s, <2>1, <4>3, <4>5, <5>2
                <5> QED
                    BY <5>1, <5>2
            <4> QED
                BY <4>4, <4>5
        <3>2. c \notin Ids(customers)' => phones'[c] = {}
            BY <1>0, <1>s DEF CustomerOK
        <3> QED
            BY <3>1, <3>2 DEF CustomerOK
    <2>4. ASSUME NEW c \in CustomerIds, NEW o \in Brokers, NEW d \in Brokers \ {o},
                 IsAt(broker'[o], c), IsAt(broker'[d], c)
          PROVE  c \in mixed' /\ ~(Creates(broker'[o], c) /\ Creates(broker'[d], c))
        <3>1. CASE o # b /\ d # b
            BY <1>m, <1>s, <2>1, <2>4, <3>1
        <3>2. CASE o = b
            BY <1>s, <2>1, <2>4, <3>2 DEF IsAt, Creates
        <3>3. CASE d = b
            BY <1>s, <2>1, <2>4, <3>3 DEF IsAt, Creates
        <3> QED
            BY <3>1, <3>2, <3>3
    <2>5. torn' \cup mixed' \cup refused' \cup missold' \subseteq CustomerIds
        BY <1>s
    <2> QED
        BY <1>0, <1>s, <2>1, <2>2, <2>3, <2>4, <2>5 DEF CrmInv
<1>p. ASSUME NEW b \in Brokers, NEW id \in CustomerIds, NEW new \in Tasks \cup {Out}, PickUp(b, id, new),
             new.at \in {"delete", "record"}, new.id = id, Stands(b, "out"),
             new.at = "delete" => new.rest \notin PastContacts
      PROVE  CrmInv'
    <2>1. /\ Turn(b, new) /\ UNCHANGED <<customers, phones, contacted, torn, refused, missold>>
          /\ mixed' = IF \E o \in Brokers \ {b} : Concerns(o, id) THEN mixed \cup {id} ELSE mixed
        BY <1>p DEF PickUp
    <2>2. mixed \subseteq mixed' /\ mixed' \subseteq CustomerIds
        BY <1>0, <2>1
    <2>3. id \in mixed' \/ \A o \in Brokers \ {b} : ~IsAt(broker[o], id)
        BY <2>1 DEF Concerns, IsAt
    <2>4. torn' \cup mixed' \subseteq CustomerIds /\ torn \subseteq torn'
          /\ missold' \subseteq mixed' /\ refused' \subseteq mixed'
        BY <1>0, <2>1, <2>2
    <2>5. broker[b].at = "out"
        BY <1>p DEF Stands
    <2> QED
        BY <1>p, <1>s, <2>1, <2>2, <2>3, <2>4, <2>5
\* Nothing but the task changes.
<1>h. ASSUME NEW b \in Brokers, NEW new \in Tasks \cup {Out}, Turn(b, new),
             UNCHANGED <<customers, phones, contacted, crmHistory>>,
             new.at \in {"out", "next"}, new.at = "next" => TallyOK(new.tally),
             broker[b].at \in {"out", "next", "customer", "record"}
      PROVE  CrmInv'
    <2>1. UNCHANGED <<customers, phones, contacted, torn, mixed, refused, missold>>
        BY <1>h DEF crmHistory
    <2> QED
        BY <1>0, <1>h, <1>s, <2>1
<1>1. ASSUME NEW b \in Brokers, NEW n \in 1..MaxRecords, Import(b, n) PROVE CrmInv'
    <2> DEFINE new == [at |-> "next", tally |-> [left |-> n, good |-> 0, bad |-> 0]]
    <2>1. new \in Tasks /\ new.at = "next" /\ TallyOK(new.tally)
        BY DEF Tasks, Counters, TallyOK
    <2>2. Turn(b, new) /\ UNCHANGED <<customers, phones, contacted, crmHistory>> /\ broker[b].at = "out"
        BY <1>1 DEF Import, Stands
    <2> HIDE DEF new
    <2> QED
        BY <1>h, <2>1, <2>2
<1>2. ASSUME NEW b \in Brokers, NEW t \in Tenants, NEW id \in CustomerIds, NEW list \in PhoneLists,
             NextRecord(b, t, id, list)
      PROVE  CrmInv'
    <2>0. PICK tally : tally = broker[b].tally
        OBVIOUS
    <2>1. broker[b].at = "next" /\ tally \in Counters /\ TallyOK(tally) /\ tally.left > 0
        BY <1>0, <1>k, <1>2, <2>0 DEF NextRecord, Stands, TaskOK
    <2>2. CASE ~validatePhones(list)
        <3> DEFINE new == [at |-> "next", tally |-> Tallied(tally, FALSE)]
        <3>1. new \in Tasks /\ new.at = "next" /\ TallyOK(new.tally)
            BY <2>1, Tallying DEF Tasks
        <3>2. Turn(b, new) /\ UNCHANGED <<customers, phones, contacted, crmHistory>>
            BY <1>2, <2>0, <2>2 DEF NextRecord
        <3> HIDE DEF new
        <3> QED
            BY <1>h, <2>1, <3>1, <3>2
    <2>3. CASE validatePhones(list)
        <3> DEFINE new == [at |-> "customer", tally |-> tally, id |-> id,
                           tenant |-> t, list |-> list, todo |-> list]
        <3>1. new \in Tasks /\ new.at = "customer" /\ new.tally = tally /\ new.id = id
              /\ new.list = list /\ new.todo = list
            BY <2>1 DEF Tasks
        <3>2. /\ PickUp(b, id, new) /\ id \notin Ids(customers) /\ \A o \in Brokers : ~IsAt(broker[o], id)
            BY <1>2, <2>0, <2>3 DEF NextRecord, Concerns, IsAt
        <3> HIDE DEF new
        <3>3. /\ Turn(b, new) /\ UNCHANGED <<customers, phones, contacted, torn, refused, missold>>
              /\ mixed' \in {mixed, mixed \cup {id}}
            BY <3>2 DEF PickUp
        <3>4. torn' \cup mixed' \subseteq CustomerIds /\ torn \subseteq torn' /\ mixed \subseteq mixed'
              /\ missold' \subseteq mixed' /\ refused' \subseteq mixed'
            BY <1>0, <3>3
        <3> QED
            BY <1>s, <2>1, <2>3, <3>1, <3>2, <3>3, <3>4
    <2> QED
        BY <2>2, <2>3
\* A row more, or a phone: the same request goes on.
<1>3. ASSUME NEW b \in Brokers, InsertCustomer(b) PROVE CrmInv'
    <2>0. PICK e, c : e = broker[b] /\ c = e.id
        OBVIOUS
    <2>1. /\ e.at = "customer" /\ c \in CustomerIds /\ e.tenant \in Tenants /\ TaskOK(e)
          /\ e \in Tasks /\ c \notin Ids(customers) /\ e.todo = e.list
        BY <1>0, <1>k, <1>o, <1>3, <2>0 DEF InsertCustomer, Stands, TaskOK
    <2>2. PICK new : new = [e EXCEPT !.at = "phone"]
        OBVIOUS
    <2>3. /\ new \in Tasks /\ new.at = "phone" /\ new.id = c /\ new.tally = e.tally
          /\ new.list = e.list /\ new.todo = e.todo
        BY <2>0, <2>1, <2>2 DEF Tasks
    <2>4. /\ customers' = [customers EXCEPT ![c] = [tenant |-> e.tenant]]
          /\ broker' = [broker EXCEPT ![b] = new]
          /\ UNCHANGED <<phones, contacted, torn, mixed, refused, missold>>
        BY <1>3, <2>0, <2>2 DEF InsertCustomer, Inserted, crmHistory
    <2>5. /\ broker' \in [Brokers -> Tasks \cup {Out}] /\ broker'[b] = new
          /\ \A o \in Brokers \ {b} : broker'[o] = broker[o]
        BY <1>0, <2>3, <2>4
    <2>6. /\ customers' \in [CustomerIds -> [tenant : Tenants] \cup {NoRow}]
          /\ Ids(customers') = Ids(customers) \cup {c}
        BY <1>0, <2>1, <2>4 DEF Ids
    <2>7. phones[c] = {} /\ AllPhones(new, phones)
        BY <1>0, <2>1, <2>3 DEF CustomerOK, AllPhones
    <2>8. ASSUME NEW o \in Brokers PROVE TaskOK(broker[o])'
        <3>1. CASE o = b
            BY <2>1, <2>3, <2>4, <2>5, <2>7, <3>1 DEF TaskOK
        <3>2. CASE o # b
            <4>1. broker[o].at = "customer" => broker[o].id # c
                BY <1>m, <2>0, <2>1, <3>2 DEF Creates, IsAt
            <4> QED
                BY <1>0, <2>4, <2>5, <2>6, <3>2, <4>1 DEF TaskOK
        <3> QED
            BY <3>1, <3>2
    <2>9. ASSUME NEW k \in CustomerIds PROVE CustomerOK(k)'
        <3>1. CASE k = c
            <4>1. \A o \in Brokers : Adds(broker'[o], k) => o = b
                BY <1>m, <2>0, <2>1, <2>5, <3>1 DEF Adds, Creates, IsAt
            <4>2. Adds(broker'[b], k)
                BY <2>3, <2>5, <3>1 DEF Adds
            <4> QED
                BY <2>4, <2>5, <2>6, <2>7, <3>1, <4>1, <4>2 DEF CustomerOK
        <3>2. CASE k # c
            <4>1. \A o \in Brokers : /\ Adds(broker'[o], k) <=> Adds(broker[o], k)
                                     /\ Deletes(broker'[o], k) <=> Deletes(broker[o], k)
                                     /\ Adds(broker[o], k) => broker'[o] = broker[o]
                BY <2>0, <2>1, <2>3, <2>5, <3>2 DEF Adds, Deletes
            <4>2. phones' = phones /\ torn' = torn /\ (k \in Ids(customers') <=> k \in Ids(customers))
                BY <2>4, <2>6, <3>2
            <4>3. CustomerOK(k)
                BY <1>0
            <4> QED
                BY <4>1, <4>2, <4>3 DEF CustomerOK
        <3> QED
            BY <3>1, <3>2
    <2>10. \A k, o : /\ IsAt(broker'[b], k) <=> IsAt(broker[b], k)
                     /\ Creates(broker'[b], k) <=> Creates(broker[b], k)
        BY <2>0, <2>1, <2>3, <2>5 DEF IsAt, Creates
    <2> QED
        BY <1>0, <1>m, <2>4, <2>5, <2>6, <2>8, <2>9, <2>10 DEF CrmInv
<1>4. ASSUME NEW b \in Brokers, InsertPhone(b) PROVE CrmInv'
    <2>0. PICK e, c : e = broker[b] /\ c = e.id
        OBVIOUS
    <2>1. /\ e.at = "phone" /\ c \in CustomerIds /\ e.list \in PhoneLists /\ e.todo \in PhoneLists
          /\ e.todo # <<>> /\ e \in Tasks /\ TaskOK(e) /\ c \in Ids(customers)
        BY <1>0, <1>k, <1>o, <1>4, <2>0 DEF InsertPhone, Stands
    <2>2. /\ Head(e.todo) \in PhoneInput /\ Tail(e.todo) \in PhoneLists
          /\ PhonesOf(e.todo) = {Head(e.todo)} \cup PhonesOf(Tail(e.todo))
        BY <2>1, PhoneListFacts
    <2>3. PICK new : new = [e EXCEPT !.todo = Tail(e.todo)]
        OBVIOUS
    <2>4. /\ new \in Tasks /\ new.at = "phone" /\ new.id = c /\ new.tally = e.tally
          /\ new.list = e.list /\ new.todo = Tail(e.todo)
        BY <2>0, <2>1, <2>2, <2>3 DEF Tasks
    <2>5. /\ phones' = [phones EXCEPT ![c] = phones[c] \cup {Head(e.todo)}]
          /\ broker' = [broker EXCEPT ![b] = new]
          /\ UNCHANGED <<customers, contacted, torn, mixed, refused, missold>>
        BY <1>4, <2>0, <2>3 DEF InsertPhone, crmHistory
    <2>6. /\ broker' \in [Brokers -> Tasks \cup {Out}] /\ broker'[b] = new
          /\ \A o \in Brokers \ {b} : broker'[o] = broker[o]
          /\ phones' \in [CustomerIds -> SUBSET PhoneInput]
          /\ phones'[c] = phones[c] \cup {Head(e.todo)}
          /\ \A k \in CustomerIds \ {c} : phones'[k] = phones[k]
        BY <1>0, <2>1, <2>2, <2>4, <2>5
    <2>7. AllPhones(e, phones) => AllPhones(new, phones')
        BY <2>0, <2>2, <2>4, <2>6 DEF AllPhones
    <2>a. \A o \in Brokers \ {b} : ~Adds(broker[o], c)
        BY <1>m, <2>0, <2>1 DEF Adds, Creates, IsAt
    <2>8. ASSUME NEW o \in Brokers PROVE TaskOK(broker[o])'
        <3>1. CASE o = b
            BY <2>0, <2>1, <2>4, <2>5, <2>6, <2>7, <3>1 DEF TaskOK
        <3>2. CASE o # b
            <4>1. broker[o].at = "phone" => broker[o].id \in CustomerIds \ {c}
                BY <1>k, <2>a, <3>2 DEF Adds
            <4>2. broker[o].at = "phone" /\ AllPhones(broker[o], phones) => AllPhones(broker[o], phones')
                BY <2>6, <4>1 DEF AllPhones
            <4> QED
                BY <1>0, <2>5, <2>6, <3>2, <4>2 DEF TaskOK
        <3> QED
            BY <3>1, <3>2
    <2>9. ASSUME NEW k \in CustomerIds PROVE CustomerOK(k)'
        <3>1. CASE k = c
            <4>1. \A o \in Brokers : Adds(broker'[o], k) => o = b
                BY <2>6, <2>a, <3>1
            <4>2. Adds(broker'[b], k) /\ Adds(broker[b], k)
                BY <2>0, <2>1, <2>4, <2>6, <3>1 DEF Adds
            <4>3. \A o \in Brokers : Deletes(broker'[o], k) <=> Deletes(broker[o], k)
                BY <2>0, <2>1, <2>4, <2>6 DEF Deletes
            <4> QED
                BY <1>0, <2>0, <2>1, <2>5, <2>6, <2>7, <3>1, <4>1, <4>2, <4>3 DEF CustomerOK
        <3>2. CASE k # c
            <4>1. \A o \in Brokers : /\ Adds(broker'[o], k) <=> Adds(broker[o], k)
                                     /\ Deletes(broker'[o], k) <=> Deletes(broker[o], k)
                                     /\ Adds(broker[o], k) => broker'[o] = broker[o]
                BY <2>0, <2>1, <2>4, <2>6, <3>2 DEF Adds, Deletes
            <4>2. \A o \in Brokers : Adds(broker[o], k) /\ AllPhones(broker[o], phones)
                                        => AllPhones(broker[o], phones')
                BY <2>6, <3>2 DEF Adds, AllPhones
            <4> QED
                BY <1>0, <2>5, <2>6, <3>2, <4>1, <4>2 DEF CustomerOK
        <3> QED
            BY <3>1, <3>2
    <2>10. \A k : /\ IsAt(broker'[b], k) <=> IsAt(broker[b], k)
                  /\ Creates(broker'[b], k) <=> Creates(broker[b], k)
        BY <2>0, <2>1, <2>4, <2>6 DEF IsAt, Creates
    <2> QED
        BY <1>0, <1>m, <2>5, <2>6, <2>8, <2>9, <2>10 DEF CrmInv
<1>5. ASSUME NEW b \in Brokers, RecordDone(b) PROVE CrmInv'
    <2>0. PICK e, c : e = broker[b] /\ c = e.id
        OBVIOUS
    <2>1. /\ e.at = "phone" /\ c \in CustomerIds /\ e.todo = <<>> /\ e.tally \in Counters
          /\ TallyOK(e.tally) /\ e.tally.left > 0 /\ TaskOK(e)
        BY <1>0, <1>k, <1>5, <2>0 DEF RecordDone, Stands, TaskOK
    <2> DEFINE new == [at |-> "next", tally |-> Tallied(e.tally, TRUE)]
    <2>2. new \in Tasks /\ new.at = "next" /\ TallyOK(new.tally)
        BY <2>1, Tallying DEF Tasks
    <2>3. /\ missold' = IF phones[c] # PhonesOf(e.list) THEN missold \cup {c} ELSE missold
          /\ Turn(b, new) /\ UNCHANGED <<customers, phones, contacted, torn, mixed, refused>>
        BY <1>5, <2>0 DEF RecordDone
    <2> HIDE DEF new
    <2>4. phones[c] # PhonesOf(e.list) => c \in mixed
        BY <2>0, <2>1, PhoneListFacts DEF TaskOK, AllPhones
    <2>5. missold' \subseteq mixed' /\ refused' \subseteq mixed' /\ torn' \cup mixed' \subseteq CustomerIds
        BY <1>0, <2>3, <2>4
    <2> QED
        BY <1>s, <2>0, <2>1, <2>2, <2>3, <2>5
<1>6. ASSUME NEW b \in Brokers, ImportFails(b) PROVE CrmInv'
    <2>0. PICK e, c : e = broker[b] /\ c = e.id
        OBVIOUS
    <2>1. /\ e.at \in {"customer", "phone"} /\ c \in CustomerIds /\ e.tally \in Counters
          /\ TallyOK(e.tally) /\ e.tally.left > 0
        BY <1>0, <1>k, <1>6, <2>0 DEF ImportFails, Stands, TaskOK
    <2> DEFINE new == [at |-> "next", tally |-> Tallied(e.tally, FALSE)]
    <2>2. new \in Tasks /\ new.at = "next" /\ TallyOK(new.tally)
        BY <2>1, Tallying DEF Tasks
    <2>3. /\ torn' = IF e.at = "phone" THEN torn \cup {c} ELSE torn
          /\ Turn(b, new) /\ UNCHANGED <<customers, phones, contacted, mixed, refused, missold>>
        BY <1>6, <2>0 DEF ImportFails, Stands
    <2> HIDE DEF new
    <2>4. torn \subseteq torn' /\ torn' \cup mixed' \subseteq CustomerIds
        BY <1>0, <2>1, <2>3
    <2> QED
        BY <1>0, <1>s, <2>0, <2>1, <2>2, <2>3, <2>4
<1>7. ASSUME NEW b \in Brokers, ImportDone(b) PROVE CrmInv'
    BY <1>7, <1>h, <1>o DEF ImportDone, Stands
<1>8. ASSUME NEW b \in Brokers, NEW id \in CustomerIds, Stands(b, "out"),
             NEW new \in Tasks, PickUp(b, id, new), new.id = id,
             \/ new.at = "record"
             \/ new.at = "delete" /\ new.rest \notin PastContacts
      PROVE  CrmInv'
    BY <1>p, <1>8
<1>8a. ASSUME NEW b \in Brokers, NEW id \in CustomerIds, Stands(b, "out"),
              NEW order \in DeleteOrder \ PastContacts,
              PickUp(b, id, [at |-> "delete", id |-> id, rest |-> order])
       PROVE  CrmInv'
    <2>1. PICK new : new = [at |-> "delete", id |-> id, rest |-> order]
        OBVIOUS
    <2>2. new \in Tasks /\ new.at = "delete" /\ new.id = id /\ new.rest \notin PastContacts
        BY <2>1 DEF Tasks
    <2> QED
        BY <1>8, <1>8a, <2>1, <2>2
<1>8b. ASSUME NEW b \in Brokers, NEW id \in CustomerIds, Delete(b, id) PROVE CrmInv'
    <2>1. <<"phones", "contacts", "customer">> \in DeleteOrder \ PastContacts
        BY DEF DeleteOrder, PastContacts
    <2> QED
        BY <1>8a, <1>8b, <2>1 DEF Delete
<1>8c. ASSUME NEW b \in Brokers, NEW id \in CustomerIds, NEW t \in Tenants, EraseCustomer(b, t, id)
       PROVE  CrmInv'
    <2>1. <<"contacts", "phones", "customer">> \in DeleteOrder \ PastContacts
        BY DEF DeleteOrder, PastContacts
    <2> QED
        BY <1>8a, <1>8c, <2>1 DEF EraseCustomer
<1>8d. ASSUME NEW b \in Brokers, NEW id \in CustomerIds, NEW t \in Tenants, NEW n \in Numbers,
              FindByPhone(b, t, id, n)
       PROVE  CrmInv'
    <2>1. PICK new : new = [at |-> "record", id |-> id]
        OBVIOUS
    <2>2. new \in Tasks /\ new.at = "record" /\ new.id = id
        BY <2>1 DEF Tasks
    <2> QED
        BY <1>8, <1>8d, <2>1, <2>2 DEF FindByPhone
\* The statements of a deletion. What they empty, a deletion is at.
<1>9. ASSUME NEW b \in Brokers, Stands(b, "delete"), NEW gap, gap \in {"phones", "contacts"},
             Head(broker[b].rest) = gap,
             phones' = IF gap = "phones" THEN [phones EXCEPT ![broker[b].id] = {}] ELSE phones,
             contacted' = IF gap = "contacts" THEN contacted \ {broker[b].id} ELSE contacted,
             broker' = [broker EXCEPT ![b].rest = Tail(@)],
             UNCHANGED <<customers, torn, mixed, refused, missold>>
      PROVE  CrmInv'
    <2>0. PICK e, c : e = broker[b] /\ c = e.id
        OBVIOUS
    <2>1. e.at = "delete" /\ c \in CustomerIds /\ e.rest \in DeleteOrder /\ e \in Tasks /\ TaskOK(e)
        BY <1>0, <1>k, <1>o, <1>9, <2>0 DEF Stands
    <2>2. PICK new : new = [e EXCEPT !.rest = Tail(e.rest)]
        OBVIOUS
    <2>a. /\ Tail(e.rest) \in DeleteOrder
          /\ Tail(e.rest) \in PastContacts => e.rest \in PastContacts \/ gap = "contacts"
        <3>1. Head(e.rest) \in {"phones", "contacts"}
            BY <1>9, <2>0
        <3>2. /\ Tail(<<"phones", "contacts", "customer">>) = <<"contacts", "customer">>
              /\ Tail(<<"contacts", "customer">>) = <<"customer">>
              /\ Tail(<<"contacts", "phones", "customer">>) = <<"phones", "customer">>
              /\ Tail(<<"phones", "customer">>) = <<"customer">>
            OBVIOUS
        <3>3. /\ Head(<<"phones", "contacts", "customer">>) = "phones"
              /\ Head(<<"contacts", "customer">>) = "contacts"
              /\ Head(<<"contacts", "phones", "customer">>) = "contacts"
              /\ Head(<<"phones", "customer">>) = "phones"
              /\ Head(<<"customer">>) = "customer"
            OBVIOUS
        <3>4. <<"contacts", "customer">> \notin PastContacts
            BY DEF PastContacts
        <3>5. CASE e.rest = <<"phones", "contacts", "customer">>
            BY <3>2, <3>4, <3>5 DEF DeleteOrder
        <3>6. CASE e.rest \in {<<"contacts", "customer">>, <<"contacts", "phones", "customer">>}
            <4>1. gap = "contacts"
                BY <1>9, <2>0, <3>3, <3>6
            <4> QED
                BY <3>2, <3>6, <4>1 DEF DeleteOrder
        <3>7. CASE e.rest = <<"phones", "customer">>
            BY <3>2, <3>7 DEF DeleteOrder, PastContacts
        <3>8. e.rest # <<"customer">>
            BY <3>1, <3>3
        <3> QED
            BY <2>1, <3>5, <3>6, <3>7, <3>8 DEF DeleteOrder
    <2>3. new \in Tasks /\ new.at = "delete" /\ new.id = c /\ new.rest = Tail(e.rest)
        BY <2>0, <2>1, <2>2, <2>a DEF Tasks
    <2>4. broker' = [broker EXCEPT ![b] = new]
        BY <1>9, <2>0, <2>2
    <2>5. /\ broker' \in [Brokers -> Tasks \cup {Out}] /\ broker'[b] = new
          /\ \A o \in Brokers \ {b} : broker'[o] = broker[o]
          /\ phones' \in [CustomerIds -> SUBSET PhoneInput] /\ phones'[c] \subseteq phones[c]
          /\ \A k \in CustomerIds \ {c} : phones'[k] = phones[k]
          /\ contacted' \subseteq contacted /\ (gap = "contacts" => c \notin contacted')
        BY <1>0, <1>9, <2>0, <2>1, <2>3, <2>4
    <2>6. ASSUME NEW o \in Brokers PROVE TaskOK(broker[o])'
        <3>1. CASE o = b
            BY <1>9, <2>0, <2>1, <2>3, <2>5, <2>a, <3>1 DEF TaskOK
        <3>2. CASE o # b
            <4>1. broker[o].at = "phone" =>
                     broker[o].id \in mixed \/ AllPhones(broker[o], phones')
                <5>1. CASE broker[o].id = c /\ broker[o].at = "phone"
                    BY <1>m, <2>0, <2>1, <3>2, <5>1 DEF IsAt
                <5>2. CASE broker[o].id # c /\ broker[o].at = "phone"
                    BY <1>0, <1>k, <2>5, <3>2, <5>2 DEF TaskOK, AllPhones
                <5> QED
                    BY <5>1, <5>2
            <4> QED
                BY <1>0, <1>9, <2>5, <3>2, <4>1 DEF TaskOK
        <3> QED
            BY <3>1, <3>2
    <2>7. ASSUME NEW k \in CustomerIds PROVE CustomerOK(k)'
        <3>1. CASE k = c
            <4>1. Deletes(broker'[b], k)
                BY <2>3, <2>5, <3>1 DEF Deletes
            <4> QED
                BY <1>0, <1>9, <2>5, <3>1, <4>1 DEF CustomerOK
        <3>2. CASE k # c
            <4>1. \A o \in Brokers : /\ Adds(broker'[o], k) <=> Adds(broker[o], k)
                                     /\ Deletes(broker'[o], k) <=> Deletes(broker[o], k)
                                     /\ Adds(broker[o], k) => broker'[o] = broker[o]
                BY <2>0, <2>1, <2>3, <2>5, <3>2 DEF Adds, Deletes
            <4>2. \A o \in Brokers : Adds(broker[o], k) /\ AllPhones(broker[o], phones)
                                        => AllPhones(broker[o], phones')
                BY <2>5, <3>2 DEF Adds, AllPhones
            <4> QED
                BY <1>0, <1>9, <2>5, <3>2, <4>1, <4>2 DEF CustomerOK
        <3> QED
            BY <3>1, <3>2
    <2>8. \A k : /\ IsAt(broker'[b], k) <=> IsAt(broker[b], k)
                 /\ Creates(broker'[b], k) <=> Creates(broker[b], k)
        BY <2>0, <2>1, <2>3, <2>5 DEF IsAt, Creates
    <2> QED
        BY <1>0, <1>m, <1>9, <2>5, <2>6, <2>7, <2>8 DEF CrmInv
<1>10. ASSUME NEW b \in Brokers, DeletePhones(b) \/ DeleteContacts(b) PROVE CrmInv'
    BY <1>9, <1>10 DEF DeletePhones, DeleteContacts, crmHistory
<1>11. ASSUME NEW b \in Brokers, DeleteCustomer(b) PROVE CrmInv'
    <2>0. PICK e, c : e = broker[b] /\ c = e.id
        OBVIOUS
    <2>1. e.at = "delete" /\ c \in CustomerIds /\ e.rest \in PastContacts /\ TaskOK(e)
        BY <1>0, <1>k, <1>11, <2>0 DEF DeleteCustomer, Stands, DeleteOrder, PastContacts
    <2>2. Turn(b, Out) /\ UNCHANGED <<contacted, mixed, missold>>
        BY <1>11 DEF DeleteCustomer
    <2>3. CASE c \in contacted
        <3>1. refused' = refused \cup {c} /\ torn' = torn \cup {c} /\ UNCHANGED <<customers, phones>>
            BY <1>11, <2>0, <2>3 DEF DeleteCustomer
        <3>2. c \in mixed
            BY <2>0, <2>1, <2>3 DEF TaskOK
        <3>3. torn \subseteq torn' /\ torn' \cup mixed' \subseteq CustomerIds
              /\ refused' \subseteq mixed' /\ missold' \subseteq mixed'
            BY <1>0, <2>1, <2>2, <3>1, <3>2
        <3> QED
            BY <1>o, <1>s, <2>0, <2>1, <2>2, <3>1, <3>3
    <2>4. CASE c \notin contacted
        <3>1. /\ customers' = [customers EXCEPT ![c] = NoRow] /\ phones' = [phones EXCEPT ![c] = {}]
              /\ UNCHANGED <<torn, refused>>
            BY <1>11, <2>0, <2>4 DEF DeleteCustomer, Deleted
        <3>2. /\ customers' \in [CustomerIds -> [tenant : Tenants] \cup {NoRow}]
              /\ Ids(customers') = Ids(customers) \ {c}
              /\ phones' \in [CustomerIds -> SUBSET PhoneInput] /\ phones'[c] = {}
              /\ \A k \in CustomerIds \ {c} : phones'[k] = phones[k]
            BY <1>0, <2>1, <3>1 DEF Ids
        <3>3. /\ broker' \in [Brokers -> Tasks \cup {Out}] /\ broker'[b] = Out
              /\ \A o \in Brokers \ {b} : broker'[o] = broker[o]
            BY <1>0, <1>o, <2>2 DEF Turn
        <3>4. ASSUME NEW o \in Brokers PROVE TaskOK(broker[o])'
            <4>1. CASE o = b
                BY <1>o, <3>3, <4>1 DEF TaskOK
            <4>2. CASE o # b
                <5>1. broker[o].at = "phone" =>
                         broker[o].id \in mixed \/ AllPhones(broker[o], phones')
                    <6>1. CASE broker[o].id = c /\ broker[o].at = "phone"
                        BY <1>m, <2>0, <2>1, <4>2, <6>1 DEF IsAt
                    <6>2. CASE broker[o].id # c /\ broker[o].at = "phone"
                        BY <1>0, <1>k, <3>2, <4>2, <6>2 DEF TaskOK, AllPhones
                    <6> QED
                        BY <6>1, <6>2
                <5> QED
                    BY <1>0, <2>2, <3>2, <3>3, <4>2, <5>1 DEF TaskOK
            <4> QED
                BY <4>1, <4>2
        <3>5. ASSUME NEW k \in CustomerIds PROVE CustomerOK(k)'
            <4>1. CASE k = c
                BY <3>2, <4>1 DEF CustomerOK
            <4>2. CASE k # c
                <5>1. \A o \in Brokers : /\ Adds(broker'[o], k) <=> Adds(broker[o], k)
                                         /\ Deletes(broker'[o], k) <=> Deletes(broker[o], k)
                                         /\ Adds(broker[o], k) => broker'[o] = broker[o]
                    BY <1>o, <2>0, <2>1, <3>3, <4>2 DEF Adds, Deletes
                <5>2. \A o \in Brokers : Adds(broker[o], k) /\ AllPhones(broker[o], phones)
                                            => AllPhones(broker[o], phones')
                    BY <3>2, <4>2 DEF Adds, AllPhones
                <5> QED
                    BY <1>0, <3>1, <3>2, <4>2, <5>1, <5>2 DEF CustomerOK
            <4> QED
                BY <4>1, <4>2
        <3>6. contacted' \subseteq Ids(customers')
            BY <1>0, <2>2, <2>4, <3>2
        <3>7. \A k : ~IsAt(broker'[b], k)
            BY <1>o, <3>3 DEF IsAt
        <3> QED
            BY <1>0, <1>m, <2>2, <3>1, <3>2, <3>3, <3>4, <3>5, <3>6, <3>7 DEF CrmInv
    <2> QED
        BY <2>3, <2>4
<1>12. ASSUME NEW b \in Brokers, DeleteFails(b) PROVE CrmInv'
    <2>1. broker[b].at = "delete" /\ broker[b].id \in CustomerIds
        BY <1>k, <1>12 DEF DeleteFails, Stands
    <2>2. /\ torn' = torn \cup {broker[b].id} /\ Turn(b, Out)
          /\ UNCHANGED <<customers, phones, contacted, mixed, refused, missold>>
        BY <1>12 DEF DeleteFails
    <2>3. torn \subseteq torn' /\ torn' \cup mixed' \subseteq CustomerIds
        BY <1>0, <2>1, <2>2
    <2> QED
        BY <1>0, <1>o, <1>s, <2>1, <2>2, <2>3
<1>13. ASSUME NEW b \in Brokers, RecordInteraction(b) PROVE CrmInv'
    <2>0. PICK e, c : e = broker[b] /\ c = e.id
        OBVIOUS
    <2>1. e.at = "record" /\ c \in CustomerIds
        BY <1>k, <1>13, <2>0 DEF RecordInteraction, Stands
    <2>2. /\ contacted' = IF c \in Ids(customers) THEN contacted \cup {c} ELSE contacted
          /\ Turn(b, Out) /\ UNCHANGED <<customers, phones, torn, mixed, refused, missold>>
        BY <1>13, <2>0 DEF RecordInteraction, crmHistory
    <2>3. /\ broker' \in [Brokers -> Tasks \cup {Out}] /\ broker'[b] = Out
          /\ \A o \in Brokers \ {b} : broker'[o] = broker[o]
        BY <1>0, <1>o, <2>2 DEF Turn
    <2>4. ASSUME NEW o \in Brokers PROVE TaskOK(broker[o])'
        <3>1. CASE o = b
            BY <1>o, <2>3, <3>1 DEF TaskOK
        <3>2. CASE o # b
            <4>1. broker[o].at = "delete" /\ broker[o].id = c => c \in mixed
                BY <1>m, <2>0, <2>1, <3>2 DEF IsAt
            <4> QED
                BY <1>0, <2>2, <2>3, <3>2, <4>1 DEF TaskOK
        <3> QED
            BY <3>1, <3>2
    <2>5. ASSUME NEW k \in CustomerIds PROVE CustomerOK(k)'
        <3>1. \A o \in Brokers : /\ Adds(broker'[o], k) <=> Adds(broker[o], k)
                                 /\ Deletes(broker'[o], k) <=> Deletes(broker[o], k)
                                 /\ Adds(broker[o], k) => broker'[o] = broker[o]
            BY <1>o, <2>0, <2>1, <2>3 DEF Adds, Deletes
        <3> QED
            BY <1>0, <2>2, <3>1 DEF CustomerOK
    <2>6. contacted' \subseteq Ids(customers')
        BY <1>0, <2>2
    <2>7. \A k : ~IsAt(broker'[b], k)
        BY <1>o, <2>3 DEF IsAt
    <2> QED
        BY <1>0, <1>m, <2>2, <2>3, <2>4, <2>5, <2>6, <2>7 DEF CrmInv
<1>14. ASSUME NEW b \in Brokers, Stop(b) PROVE CrmInv'
    <2>1. /\ torn' = IF broker[b].at \in {"phone", "delete"} THEN torn \cup {broker[b].id} ELSE torn
          /\ Turn(b, Out) /\ UNCHANGED <<customers, phones, contacted, mixed, refused, missold>>
        BY <1>14 DEF Stop
    <2>2. torn \subseteq torn' /\ torn' \cup mixed' \subseteq CustomerIds
        BY <1>0, <1>k, <2>1
    <2> QED
        BY <1>0, <1>o, <1>s, <2>1, <2>2
<1>15. CASE UNCHANGED crmVars
    <2>1. UNCHANGED <<customers, phones, contacted, broker, torn, mixed, refused, missold>>
        BY <1>15 DEF crmVars, crmHistory
    <2>2. /\ \A b \in Brokers : TaskOK(broker[b])'
          /\ \A c \in CustomerIds : CustomerOK(c)'
        BY <1>0, <2>1 DEF TaskOK, CustomerOK
    <2> QED
        BY <1>0, <1>m, <2>1, <2>2 DEF CrmInv
<1> QED
    BY <1>1, <1>2, <1>3, <1>4, <1>5, <1>6, <1>7, <1>8b, <1>8c, <1>8d, <1>10, <1>11, <1>12, <1>13, <1>14, <1>15
    DEF CrmNext

LEMMA InitCrm == CrmInit => CrmInv
<1> SUFFICES ASSUME CrmInit PROVE CrmInv
    OBVIOUS
<1>1. Out.at = "out"
    BY DEF Out
<1> QED
    BY <1>1 DEF CrmInit, CrmInv, TaskOK, CustomerOK, Ids, IsAt

(* CrmInv holds in every reachable state.                                    *)
THEOREM CrmInvariant == ServicesSpec => []CrmInv
<1>1. ServicesInit => CrmInv
    BY InitCrm DEF ServicesInit
<1>2. [ServicesNext]_servicesVars => [CrmNext]_crmVars
    BY DEF ServicesNext, servicesVars
<1>3. CrmInv /\ [ServicesNext]_servicesVars => CrmInv'
    BY <1>2, NextCrm
<1> QED
    BY <1>1, <1>3, PTL DEF ServicesSpec

-----------------------------------------------------------------------------
(* For every table kept by REST and any number of requests that cross on it, *)
(* of requests that make users and count seats, and of requests that make,   *)
(* import and delete customers, with failures and restarts between any two   *)
(* statements: a deleted row stays deleted, a request undoes another's write *)
(* only where the two met, an answer tells what was stored (but for the      *)
(* settings of a tenant that Upsert leaves out), a checked row is the        *)
(* caller's; seats are overdrawn by no more than the requests of the         *)
(* moment, and a tenant without settings has no agents; a customer has one   *)
(* primary phone unless a request is at it or left it torn.                  *)
THEOREM RecordsAreSafe == ServicesSpec => []RecordsSafe
<1>1. AdminInv => /\ AdminTypeOK /\ DeletedStaysDeleted /\ UndoneOnlyWhereContested
                  /\ AnswersAreStored /\ CheckedRowsAreOwn
    <2> SUFFICES ASSUME AdminInv
                 PROVE  /\ AdminTypeOK /\ DeletedStaysDeleted /\ UndoneOnlyWhereContested
                        /\ AnswersAreStored /\ CheckedRowsAreOwn
        OBVIOUS
    <2>1. AdminTypeOK
        BY DEF AdminInv, AdminTypeOK, EditOK, Edit
    <2> QED
        BY <2>1 DEF AdminInv, DeletedStaysDeleted, UndoneOnlyWhereContested, AnswersAreStored,
                    CheckedRowsAreOwn
<1>2. CrmInv => CrmTypeOK /\ OnePrimary /\ CreatedAsTold /\ RefusedOnlyWhereMixed
    <2> SUFFICES ASSUME CrmInv
                 PROVE  CrmTypeOK /\ OnePrimary /\ CreatedAsTold /\ RefusedOnlyWhereMixed
        OBVIOUS
    <2>1. CrmTypeOK
        BY DEF CrmInv, CrmTypeOK, TaskOK, TallyOK
    <2>2. OnePrimary
        <3> SUFFICES ASSUME NEW c \in Ids(customers), c \notin torn, \A b \in Brokers : ~Concerns(b, c)
                     PROVE  OneOf(phones[c])
            BY DEF OnePrimary, OneOf
        <3>1. c \in CustomerIds /\ CustomerOK(c)
            BY DEF CrmInv, Ids
        <3>2. \A b \in Brokers : ~Deletes(broker[b], c) /\ ~Adds(broker[b], c)
            BY DEF Concerns, Deletes, Adds
        <3> QED
            BY <3>1, <3>2 DEF CustomerOK
    <2> QED
        BY <2>1, <2>2 DEF CrmInv, CreatedAsTold, RefusedOnlyWhereMixed
<1>3. IdentityInv => IdentityTypeOK /\ SeatsBounded /\ TenantsComplete
    <2> SUFFICES ASSUME IdentityInv PROVE IdentityTypeOK /\ SeatsBounded /\ TenantsComplete
        OBVIOUS
    <2>1. IdentityTypeOK
        <3>1. \A t \in Tenants : seats[t] \in 0..mostSeats[t] \cup {NoRow} /\ mostSeats[t] \in 0..MaxSeats
            BY IdentityAssumption DEF IdentityInv
        <3>2. \A u \in UserIds : users[u] = NoRow \/ users[u] \in [tenant : tenantRows, name : UserNames]
            BY DEF IdentityInv, UserRow, Ids
        <3>3. \A g \in GroupIds : groups[g] = NoRow \/ groups[g] \in [tenant : tenantRows, code : GroupCodes]
            BY DEF IdentityInv, GroupRow, Ids
        <3> QED
            BY <3>1, <3>2, <3>3 DEF IdentityTypeOK, IdentityInv
    <2>2. SeatsBounded
        <3> SUFFICES ASSUME NEW t \in Tenants
                     PROVE  Cardinality(AgentsOf(t)) <= mostSeats[t] + Cardinality(Officers) - 1
            BY DEF SeatsBounded
        <3>1. /\ Cardinality(AgentsOf(t)) \in Nat /\ Cardinality(Inserting(t)) \in Nat
              /\ Cardinality(Officers) \in Nat
            BY SeatSets
        <3>2. /\ mostSeats[t] \in Nat
              /\ Cardinality(AgentsOf(t)) + Cardinality(Inserting(t))
                    <= mostSeats[t] + Cardinality(Officers) - 1
            BY IdentityAssumption DEF IdentityInv
        <3> QED
            BY <3>1, <3>2
    <2>3. TenantsComplete
        BY DEF IdentityInv, TenantsComplete
    <2> QED
        BY <2>1, <2>2, <2>3
<1>4. AdminInv /\ CrmInv /\ IdentityInv => RecordsSafe
    BY <1>1, <1>2, <1>3 DEF RecordsSafe
<1> QED
    BY <1>4, AdminInvariant, CrmInvariant, IdentityInvariant, PTL

-----------------------------------------------------------------------------
(***************************************************************************)
(* IVR flows. First the validator: the rounds of the search exist, stay    *)
(* among the nodes, and stay in every closed set that has the start; so a  *)
(* graph all of whose nodes are reached is well formed.                    *)
(***************************************************************************)
(* Every set of numbers has a least one. *)
LEMMA LeastOf == \A T \in SUBSET Nat : T # {} => \E m \in T : \A k \in T : m <= k
<1> SUFFICES ASSUME NEW T \in SUBSET Nat, T # {} PROVE \E m \in T : \A k \in T : m <= k
    OBVIOUS
<1>1. PICK m \in T : \A k \in T : ~(<<k, m>> \in OpToRel(<, Nat))
    BY NatLessThanWellFounded, WFMin
<1>2. ASSUME NEW k \in T PROVE m <= k
    <2>1. <<k, m>> \in Nat \X Nat
        OBVIOUS
    <2>2. ~(k < m)
        BY <1>1, <2>1 DEF OpToRel
    <2> QED
        BY <2>2
<1> QED
    BY <1>2

IsSeq(g) == Len(g) \in Nat /\ DOMAIN g = 1..Len(g)

\* What the next round adds to the ids of one.
Added(g, ids) == UNION {Targets(FirstWith(g, id)) : id \in ids}

\* The rounds of which Reached is the last.
Rounds(r, g, start) ==
    /\ r[0] = {start} /\ r[Len(g)] = Reached(g, start)
    /\ \A k \in 1..Len(g) : r[k] = r[k - 1] \cup Added(g, r[k - 1])

LEMMA RoundsExist ==
    ASSUME NEW g, IsSeq(g), NEW start
    PROVE  \E r : Rounds(r, g, start)
<1> DEFINE Search(r, m) == [k \in 0..m |-> IF k = 0 THEN {start} ELSE r[k - 1] \cup Added(g, r[k - 1])]
           Undefined == {m \in 0..Len(g) : ~ \E r : r = Search(r, m)}
<1>0. Len(g) \in Nat
    BY DEF IsSeq
<1>1. Undefined = {}
    <2> SUFFICES ASSUME Undefined # {} PROVE FALSE
        OBVIOUS
    <2>0. Undefined \in SUBSET Nat
        BY <1>0
    <2>1. PICK m \in Undefined : \A k \in Undefined : m <= k
        BY <2>0, LeastOf
    <2>2. CASE m = 0
        <3>1. [k \in 0..0 |-> {start}] = Search([k \in 0..0 |-> {start}], 0)
            OBVIOUS
        <3> QED
            BY <2>1, <2>2, <3>1
    <2>3. CASE m # 0
        <3>0. m \in 0..Len(g) /\ m - 1 \in 0..Len(g) /\ ~(m <= m - 1)
            BY <1>0, <2>1, <2>3
        <3>1. m - 1 \in 0..Len(g) /\ m - 1 \notin Undefined
            <4> HIDE DEF Undefined
            <4> QED
                BY <2>1, <3>0
        <3>2. PICK r : r = Search(r, m - 1)
            BY <3>1
        <3>3. PICK h : h = [k \in 0..m |-> IF k = m THEN r[m - 1] \cup Added(g, r[m - 1]) ELSE r[k]]
            OBVIOUS
        <3>4. ASSUME NEW k \in 0..m PROVE h[k] = IF k = 0 THEN {start} ELSE h[k - 1] \cup Added(g, h[k - 1])
            <4>1. CASE k = m
                BY <1>0, <3>0, <3>3, <4>1, <2>3
            <4>2. CASE k # m
                <5>1. k \in 0..(m - 1) /\ (k # 0 => k - 1 \in 0..m /\ k - 1 # m)
                    BY <1>0, <3>0, <4>2
                <5>2. h[k] = r[k] /\ (k # 0 => h[k - 1] = r[k - 1])
                    BY <3>3, <4>2, <5>1
                <5>3. r[k] = IF k = 0 THEN {start} ELSE r[k - 1] \cup Added(g, r[k - 1])
                    BY <3>2, <5>1
                <5> QED
                    BY <5>2, <5>3
            <4> QED
                BY <4>1, <4>2
        <3>5. h = Search(h, m)
            BY <3>3, <3>4
        <3> QED
            BY <2>1, <3>5
    <2> QED
        BY <2>2, <2>3
<1>2. PICK r : r = Search(r, Len(g)) /\ r[Len(g)] = Reached(g, start)
    <2>1. \E r : r = Search(r, Len(g))
        <3>1. Len(g) \in 0..Len(g) /\ Len(g) \notin Undefined
            <4> HIDE DEF Undefined
            <4> QED
                BY <1>0, <1>1
        <3> QED
            BY <3>1
    <2> QED
        BY <2>1 DEF Reached, Added
<1>3. r[0] = {start} /\ \A k \in 1..Len(g) : r[k] = r[k - 1] \cup Added(g, r[k - 1])
    <2>1. 0 \in 0..Len(g) /\ \A k \in 1..Len(g) : k \in 0..Len(g) /\ k # 0
        BY <1>0
    <2> QED
        BY <1>2, <2>1
<1> QED
    BY <1>2, <1>3 DEF Rounds

\* A set that has the start and what the nodes of its ids lead to has every id reached.
LEMMA ReachedStays ==
    ASSUME NEW g, IsSeq(g), NEW start, NEW ids, start \in ids,
           \A id \in ids : Targets(FirstWith(g, id)) \subseteq ids
    PROVE  Reached(g, start) \subseteq ids
<1>1. PICK r : Rounds(r, g, start)
    BY RoundsExist
<1> DEFINE Wrong == {k \in 0..Len(g) : ~(r[k] \subseteq ids)}
<1>0. Len(g) \in Nat /\ Wrong \in SUBSET Nat
    BY DEF IsSeq
<1>2. Wrong = {}
    <2> SUFFICES ASSUME Wrong # {} PROVE FALSE
        OBVIOUS
    <2>1. PICK m \in Wrong : \A k \in Wrong : m <= k
        BY <1>0, LeastOf
    <2>2. m # 0
        BY <1>1, <2>1 DEF Rounds
    <2>3. m \in 1..Len(g) /\ m - 1 \in 0..Len(g) /\ ~(m <= m - 1)
        BY <1>0, <2>1, <2>2
    <2>4. r[m - 1] \subseteq ids
        BY <2>1, <2>3
    <2>5. r[m] = r[m - 1] \cup Added(g, r[m - 1])
        BY <1>1, <2>3 DEF Rounds
    <2>6. Added(g, r[m - 1]) \subseteq ids
        BY <2>4 DEF Added
    <2> QED
        BY <2>1, <2>4, <2>5, <2>6
<1>3. Len(g) \in 0..Len(g)
    BY <1>0
<1> QED
    BY <1>1, <1>2, <1>3 DEF Rounds

\* The first node of an id, and the last one, is one of the nodes that have it.
LEMMA NodesById ==
    ASSUME NEW g, IsSeq(g), NEW id \in NodesOf(g)
    PROVE  /\ \E i \in DOMAIN g : FirstWith(g, id) = g[i] /\ g[i].id = id
           /\ \E i \in DOMAIN g : NodeAt(g, id) = g[i] /\ g[i].id = id
<1> DEFINE T == {i \in DOMAIN g : g[i].id = id}
           B == {Len(g) - i : i \in T}
<1>0. Len(g) \in Nat /\ DOMAIN g = 1..Len(g) /\ T # {} /\ T \in SUBSET Nat /\ T \subseteq 1..Len(g)
    BY DEF IsSeq, NodesOf
<1>1. PICK i \in T : \A k \in T : i <= k
    BY <1>0, LeastOf
<1>2. i \in DOMAIN g /\ g[i].id = id /\ \A j \in 1..(i - 1) : g[j].id # id
    <2>1. ASSUME NEW j \in 1..(i - 1) PROVE g[j].id # id
        <3>1. j \in DOMAIN g /\ ~(i <= j)
            BY <1>0, <1>1
        <3> QED
            BY <1>1, <3>1
    <2> QED
        BY <1>1, <2>1
<1>3. B \in SUBSET Nat /\ B # {}
    BY <1>0
<1>4. PICK b \in B : \A k \in B : b <= k
    BY <1>3, LeastOf
<1>5. PICK l \in T : b = Len(g) - l
    BY <1>4
<1>6. l \in DOMAIN g /\ g[l].id = id /\ \A j \in (l + 1)..Len(g) : g[j].id # id
    <2>1. ASSUME NEW j \in (l + 1)..Len(g), g[j].id = id PROVE FALSE
        <3>1. j \in T /\ Len(g) - j \in B /\ ~(b <= Len(g) - j)
            BY <1>0, <1>5, <2>1
        <3> QED
            BY <1>4, <3>1
    <2> QED
        BY <1>5, <2>1
<1> QED
    BY <1>2, <1>6 DEF FirstWith, NodeAt

LEMMA IndicesCounted == \A n \in Nat : IsFiniteSet(1..n) /\ Cardinality(1..n) = n
<1> SUFFICES ASSUME NEW n \in Nat PROVE IsFiniteSet(1..n) /\ Cardinality(1..n) = n
    OBVIOUS
<1>1. 1 \in Int /\ n \in Int /\ (IF 1 > n THEN 0 ELSE n - 1 + 1) = n
    OBVIOUS
<1> QED
    BY <1>1, FS_Interval

LEMMA OneIsNotNone == \A T : Cardinality(T) = 1 => T # {}
BY FS_EmptySet

(* What passes the validation can be run: the part of ValidatorExact that    *)
(* the rest relies on, for graphs of any size.                               *)
LEMMA ValidatedIsWellFormed ==
    ASSUME NEW g, IsSeq(g), ValidateGraph(g)
    PROVE  WellFormed(g)
<1> DEFINE N == DOMAIN g
           f == [i \in N |-> g[i].id]
<1>0. Len(g) \in Nat /\ N = 1..Len(g) /\ IsFiniteSet(N) /\ Cardinality(N) = Len(g)
    BY IndicesCounted DEF IsSeq
<1>1. OfType(g, "start") # {}
    BY OneIsNotNone DEF ValidateGraph
<1>2. PICK s \in OfType(g, "start") : Cardinality(Reached(g, g[s].id)) = Len(g)
    BY <1>1 DEF ValidateGraph
<1>3. s \in N /\ g[s].type = "start" /\ g[s].id \in NodesOf(g)
    BY DEF OfType, NodesOf
<1>4. \A i \in N : Targets(g[i]) \subseteq NodesOf(g)
    BY DEF ValidateGraph
<1>5. \A id \in NodesOf(g) : Targets(FirstWith(g, id)) \subseteq NodesOf(g)
    BY <1>4, NodesById
<1>6. Reached(g, g[s].id) \subseteq NodesOf(g)
    BY <1>3, <1>5, ReachedStays
<1>7. f \in Surjection(N, NodesOf(g))
    BY DEF Surjection, NodesOf
<1>8. /\ IsFiniteSet(NodesOf(g)) /\ Cardinality(NodesOf(g)) <= Len(g)
      /\ Cardinality(NodesOf(g)) = Cardinality(N) => f \in Injection(N, NodesOf(g))
    <2> HIDE DEF f
    <2> QED
        BY <1>0, <1>7, FS_Surjection
<1>9. Reached(g, g[s].id) = NodesOf(g) /\ Cardinality(NodesOf(g)) = Len(g)
    <2>1. PICK R : R = Reached(g, g[s].id)
        OBVIOUS
    <2>2. R \in SUBSET NodesOf(g) /\ Cardinality(R) = Len(g)
        BY <1>2, <1>6, <2>1
    <2>3. Cardinality(R) <= Cardinality(NodesOf(g)) /\ (Cardinality(NodesOf(g)) = Cardinality(R) => NodesOf(g) = R)
        BY <1>8, <2>2, FS_Subset
    <2>4. Cardinality(NodesOf(g)) \in Nat
        BY <1>8, FS_CardinalityType
    <2> QED
        BY <1>0, <1>8, <2>1, <2>2, <2>3, <2>4
<1>10. ASSUME NEW i \in N, NEW j \in N, g[i].id = g[j].id PROVE i = j
    <2>1. f \in Injection(N, NodesOf(g))
        <3> HIDE DEF f
        <3> QED
            BY <1>0, <1>8, <1>9
    <2>2. f[i] = f[j]
        BY <1>10
    <2> QED
        BY <2>1, <2>2 DEF Injection, IsInjective
<1>11. ASSUME NEW set \in SUBSET N, OfType(g, "start") \subseteq set,
              \A i \in set, j \in N : g[j].id \in Targets(g[i]) => j \in set
       PROVE  set = N
    <2> DEFINE ids == {g[i].id : i \in set}
    <2>1. g[s].id \in ids
        BY <1>11
    <2>2. ASSUME NEW id \in ids PROVE Targets(FirstWith(g, id)) \subseteq ids
        <3>1. PICK i \in set : g[i].id = id
            OBVIOUS
        <3>2. id \in NodesOf(g)
            BY <3>1 DEF NodesOf
        <3>3. PICK k \in N : FirstWith(g, id) = g[k] /\ g[k].id = id
            BY <3>2, NodesById
        <3>4. FirstWith(g, id) = g[i]
            BY <1>10, <3>1, <3>3
        <3>5. ASSUME NEW t \in Targets(g[i]) PROVE t \in ids
            <4>1. t \in NodesOf(g)
                BY <1>4, <3>1
            <4>2. PICK j \in N : t = g[j].id
                BY <4>1 DEF NodesOf
            <4> QED
                BY <1>11, <4>2
        <3> QED
            BY <3>4, <3>5
    <2>3. Reached(g, g[s].id) \subseteq ids
        <3> HIDE DEF ids
        <3> QED
            BY <2>1, <2>2, ReachedStays
    <2>4. ASSUME NEW i \in N PROVE i \in set
        <3>1. g[i].id \in ids
            BY <1>9, <2>3 DEF NodesOf
        <3> QED
            BY <1>10, <3>1
    <2> QED
        BY <2>4
<1> QED
    BY <1>10, <1>11 DEF WellFormed, ValidateGraph

\* After as many rounds as there are nodes nothing is left to add: a round that
\* adds nothing is the last that could, and each round before it adds an id.
LEMMA SearchEnds ==
    ASSUME NEW g, IsSeq(g), NEW start \in NodesOf(g),
           IsFiniteSet(NodesOf(g)), Cardinality(NodesOf(g)) <= Len(g),
           \A id \in NodesOf(g) : Targets(FirstWith(g, id)) \subseteq NodesOf(g)
    PROVE  Added(g, Reached(g, start)) \subseteq Reached(g, start) /\ start \in Reached(g, start)
<1>1. PICK r : Rounds(r, g, start)
    BY RoundsExist
<1> DEFINE OK(k) == /\ r[k] \subseteq NodesOf(g) /\ start \in r[k]
                    /\ Added(g, r[k]) \subseteq r[k] \/ Cardinality(r[k]) >= k + 1
           Wrong == {k \in 0..Len(g) : ~OK(k)}
<1>0. Len(g) \in Nat /\ Wrong \in SUBSET Nat
    BY DEF IsSeq
<1>2. Wrong = {}
    <2> SUFFICES ASSUME Wrong # {} PROVE FALSE
        OBVIOUS
    <2>1. PICK m \in Wrong : \A k \in Wrong : m <= k
        BY <1>0, LeastOf
    <2>2. CASE m = 0
        <3>1. r[0] = {start}
            BY <1>1 DEF Rounds
        <3>2. Cardinality({start}) = 1
            BY FS_Singleton
        <3> QED
            <4>1. Cardinality(r[0]) >= 0 + 1
                BY <3>1, <3>2
            <4>2. r[0] \subseteq NodesOf(g) /\ start \in r[0]
                BY <3>1
            <4> QED
                BY <2>1, <2>2, <4>1, <4>2
    <2>3. CASE m # 0
        <3>1. m \in 1..Len(g) /\ m - 1 \in 0..Len(g) /\ ~(m <= m - 1)
            BY <1>0, <2>1, <2>3
        <3>2. OK(m - 1)
            BY <2>1, <3>1
        <3>3. PICK S : S = r[m - 1]
            OBVIOUS
        <3>4. PICK U : U = r[m]
            OBVIOUS
        <3>5. U = S \cup Added(g, S) /\ S \subseteq NodesOf(g) /\ start \in S
            BY <1>1, <3>1, <3>2, <3>3, <3>4 DEF Rounds
        <3>6. Added(g, S) \subseteq NodesOf(g)
            BY <3>5 DEF Added
        <3>7. CASE Added(g, S) \subseteq S
            <4>1. U = S
                BY <3>5, <3>7
            <4> QED
                BY <2>1, <3>3, <3>4, <3>5, <3>7, <4>1
        <3>8. CASE ~(Added(g, S) \subseteq S)
            <4>1. Cardinality(S) >= m
                BY <1>0, <3>1, <3>2, <3>3, <3>8
            <4>2. U \in SUBSET NodesOf(g) /\ S \in SUBSET U /\ S # U
                BY <3>5, <3>6, <3>8
            <4>3. IsFiniteSet(U) /\ IsFiniteSet(S)
                BY <4>2, FS_Subset
            <4>4. Cardinality(S) <= Cardinality(U) /\ Cardinality(U) # Cardinality(S)
                BY <4>2, <4>3, FS_Subset
            <4>5. Cardinality(S) \in Nat /\ Cardinality(U) \in Nat
                BY <4>3, FS_CardinalityType
            <4>6. Cardinality(U) >= m + 1
                BY <3>1, <4>1, <4>4, <4>5
            <4> QED
                BY <2>1, <3>4, <3>5, <4>2, <4>6
        <3> QED
            BY <3>7, <3>8
    <2> QED
        BY <2>2, <2>3
<1>3. Len(g) \in 0..Len(g) /\ OK(Len(g))
    BY <1>0, <1>2
<1>4. PICK R : R = Reached(g, start)
    OBVIOUS
<1>5. R = r[Len(g)]
    BY <1>1, <1>4 DEF Rounds
<1>6. R \in SUBSET NodesOf(g) /\ start \in R
    BY <1>3, <1>5
<1>7. Cardinality(R) <= Cardinality(NodesOf(g)) /\ Cardinality(R) \in Nat /\ Cardinality(NodesOf(g)) \in Nat
    BY <1>6, FS_Subset, FS_CardinalityType
<1>8. ~(Cardinality(R) >= Len(g) + 1)
    BY <1>0, <1>7
<1> QED
    BY <1>3, <1>4, <1>5, <1>6, <1>8

(* And nothing else passes: together, the validator is exact.                *)
LEMMA WellFormedIsValidated ==
    ASSUME NEW g, IsSeq(g), WellFormed(g)
    PROVE  ValidateGraph(g)
<1> DEFINE N == DOMAIN g
           f == [i \in N |-> g[i].id]
<1>0. Len(g) \in Nat /\ N = 1..Len(g) /\ IsFiniteSet(N) /\ Cardinality(N) = Len(g)
    BY IndicesCounted DEF IsSeq
<1>1. /\ \A i, j \in N : g[i].id = g[j].id => i = j
      /\ \A i \in N : g[i].type \in NodeTypes /\ Targets(g[i]) \subseteq NodesOf(g)
      /\ Cardinality(OfType(g, "start")) = 1 /\ OfType(g, "end") # {}
    BY DEF WellFormed
<1>2. PICK s : s = CHOOSE i \in OfType(g, "start") : TRUE
    OBVIOUS
<1>3. OfType(g, "start") # {}
    BY <1>1, OneIsNotNone
<1>4. s \in OfType(g, "start") /\ s \in N /\ g[s].id \in NodesOf(g)
    BY <1>2, <1>3 DEF OfType, NodesOf
<1>5. f \in Bijection(N, NodesOf(g))
    BY <1>1 DEF Bijection, Injection, IsInjective, Surjection, NodesOf
<1>6. IsFiniteSet(NodesOf(g)) /\ Cardinality(NodesOf(g)) = Len(g)
    <2> HIDE DEF f
    <2> QED
        BY <1>0, <1>5, FS_Bijection DEF ExistsBijection
<1>7. \A id \in NodesOf(g) : Targets(FirstWith(g, id)) \subseteq NodesOf(g)
    BY <1>1, NodesById
<1>8. PICK R : R = Reached(g, g[s].id)
    OBVIOUS
<1>9. Added(g, R) \subseteq R /\ g[s].id \in R /\ R \subseteq NodesOf(g)
    <2>1. Cardinality(NodesOf(g)) <= Len(g)
        BY <1>0, <1>6
    <2>2. Added(g, R) \subseteq R /\ g[s].id \in R
        BY <1>4, <1>6, <1>7, <1>8, <2>1, SearchEnds
    <2>3. R \subseteq NodesOf(g)
        BY <1>4, <1>7, <1>8, ReachedStays
    <2> QED
        BY <2>2, <2>3
<1>10. PICK set : set = {i \in N : g[i].id \in R}
    OBVIOUS
<1>11. OfType(g, "start") \subseteq set
    <2>1. \A i \in OfType(g, "start") : i = s
        <3>1. PICK T : T = OfType(g, "start")
            OBVIOUS
        <3>2. T \in SUBSET N
            BY <3>1 DEF OfType
        <3>3. IsFiniteSet(T) /\ Cardinality(T) = 1
            BY <1>0, <1>1, <3>1, <3>2, FS_Subset
        <3>4. \E x : T = {x}
            BY <3>3, FS_Singleton
        <3> QED
            BY <1>4, <3>1, <3>4
    <2> QED
        BY <1>4, <1>9, <1>10, <2>1
<1>12. ASSUME NEW i \in set, NEW j \in N, g[j].id \in Targets(g[i]) PROVE j \in set
    <2>1. i \in N /\ g[i].id \in R /\ g[i].id \in NodesOf(g)
        BY <1>10 DEF NodesOf
    <2>2. FirstWith(g, g[i].id) = g[i]
        BY <1>1, <2>1, NodesById
    <2>3. g[j].id \in Added(g, R)
        BY <1>12, <2>1, <2>2 DEF Added
    <2> QED
        BY <1>9, <1>10, <2>3
<1>13. set = N
    <2>1. set \in SUBSET N
        BY <1>10
    <2> QED
        BY <1>11, <1>12, <2>1 DEF WellFormed
<1>14. R = NodesOf(g)
    BY <1>9, <1>10, <1>13 DEF NodesOf
<1> QED
    BY <1>1, <1>2, <1>6, <1>8, <1>14 DEF ValidateGraph

-----------------------------------------------------------------------------
(* The editor's requests. A graph is good if it was offered and passed the   *)
(* validation; every graph that a row, a copy or a version carries is.       *)
GoodRow(r) == r \in FlowRow /\ ValidateGraph(r.graph)

FlowRequest == [at : {"idle", "insert", "write", "record"},
                op : {"none", "lock", "unlock", "publish", "rollback"}, id : Flows \cup {NoRow},
                copy : FlowRow \cup {NoRow}, graph : Graphs \cup {<<>>}]

Version(f, r) == [flow |-> f, version |-> r.version, graph |-> r.graph]
InHistory(v) == \/ v \in flowVersions \cup unrecorded
               \/ \E u \in Editors : flowReqs[u].at = "record" /\ VersionOf(u) = v

RequestOK(q) ==
    /\ q.at # "idle" => GoodRow(q.copy) /\ q.copy.version <= flowEdits + 1
    /\ q.at = "insert" => q.copy.status = "draft"
    /\ q.at \in {"write", "record"} => q.id \in Flows
    /\ q.at = "write" =>
          /\ q.op # "none"
          /\ q.op = "publish" => q.copy.version <= flowEdits
          /\ q.op = "rollback" => q.graph \in Graphs /\ ValidateGraph(q.graph)
          /\ q.copy.status = "published" => InHistory(Version(q.id, q.copy))

RowOK(f) ==
    /\ GoodRow(flows[f]) /\ flows[f].version <= flowEdits + 1
    /\ flows[f].status = "published" => InHistory(Version(f, flows[f]))

FlowInv ==
    /\ flows \in [Flows -> FlowRow \cup {NoRow}]
    /\ flowReqs \in [Editors -> FlowRequest]
    /\ flowEdits \in 0..MaxFlowEdits
    /\ \A v \in flowVersions \cup unrecorded :
          v.flow \in Flows /\ v.graph \in Graphs /\ ValidateGraph(v.graph)
    /\ \A f \in Ids(flows) : RowOK(f)
    /\ \A u \in Editors : RequestOK(flowReqs[u])

LEMMA FlowFacts ==
    ASSUME FlowInv
    PROVE  /\ flows \in [Flows -> FlowRow \cup {NoRow}] /\ flowReqs \in [Editors -> FlowRequest]
           /\ flowEdits \in 0..MaxFlowEdits /\ flowEdits \in Nat /\ MaxFlowEdits \in Nat
           /\ \A u \in Editors : flowReqs[u] \in FlowRequest /\ RequestOK(flowReqs[u])
           /\ \A f \in Ids(flows) : f \in Flows /\ flows[f] # NoRow /\ RowOK(f)
BY FlowAssumption DEF FlowInv, Ids

\* What is recorded stays so, if no request that was about to record is lost.
LEMMA HistoryStays ==
    ASSUME flowVersions \cup unrecorded \subseteq (flowVersions \cup unrecorded)',
           \A u \in Editors : flowReqs[u].at = "record" =>
               flowReqs'[u] = flowReqs[u] \/ VersionOf(u) \in (flowVersions \cup unrecorded)'
    PROVE  \A v : InHistory(v) => InHistory(v)'
BY DEF InHistory, VersionOf

\* A step of a request that has been given a row to work on, or is done.
LEMMA RequestStep ==
    ASSUME FlowInv, NEW u \in Editors, NEW q, flowReqs' = [flowReqs EXCEPT ![u] = q],
           q \in FlowRequest, RequestOK(q)', flowEdits <= flowEdits', flowEdits' \in 0..MaxFlowEdits,
           \A v : InHistory(v) => InHistory(v)'
    PROVE  /\ flowReqs' \in [Editors -> FlowRequest] /\ \A w \in Editors : RequestOK(flowReqs[w])'
           /\ \A f \in Ids(flows) : flows'[f] = flows[f] => RowOK(f)'
<1> USE FlowFacts
<1>1. flowReqs' \in [Editors -> FlowRequest]
    OBVIOUS
<1>2. ASSUME NEW w \in Editors PROVE RequestOK(flowReqs[w])'
    <2>1. CASE w = u
        <3>1. flowReqs'[w] = q
            BY <2>1
        <3> QED
            BY <3>1 DEF RequestOK
    <2>2. CASE w # u
        <3>1. PICK p \in FlowRequest : p = flowReqs[w] /\ flowReqs'[w] = p /\ RequestOK(p)
            BY <2>2
        <3>2. ASSUME p.at # "idle" PROVE p.copy.version \in Nat
            BY <3>1, <3>2 DEF RequestOK, GoodRow, FlowRow
        <3>3. flowEdits \in Nat /\ flowEdits' \in Nat
            BY FlowAssumption
        <3>4. p.at # "idle" => p.copy.version <= flowEdits' + 1
            BY <3>1, <3>2, <3>3 DEF RequestOK
        <3>5. p.at = "write" /\ p.op = "publish" => p.copy.version <= flowEdits'
            BY <3>1, <3>2, <3>3 DEF RequestOK
        <3> QED
            BY <3>1, <3>4, <3>5 DEF RequestOK, GoodRow
    <2> QED
        BY <2>1, <2>2
<1>3. ASSUME NEW f \in Ids(flows), flows'[f] = flows[f] PROVE RowOK(f)'
    <2>1. PICK r : r = flows[f] /\ flows'[f] = r
        BY <1>3
    <2>2. GoodRow(r) /\ r.version <= flowEdits + 1 /\ r.version \in Nat
        BY <2>1 DEF RowOK, GoodRow, FlowRow
    <2>3. r.status = "published" => InHistory(Version(f, r))
        BY <2>1 DEF RowOK
    <2>4. r.version <= flowEdits' + 1
        BY <2>2, FlowAssumption
    <2>5. r.status = "published" => InHistory(Version(f, r))'
        BY <2>3
    <2> QED
        BY <2>1, <2>2, <2>4, <2>5 DEF RowOK, GoodRow
<1> QED
    BY <1>1, <1>2, <1>3

LEMMA InitFlow == FlowInit => FlowInv
<1> SUFFICES ASSUME FlowInit PROVE FlowInv
    OBVIOUS
<1>1. Ids(flows) = {}
    BY DEF FlowInit, Ids
<1>2. NoFlowReq \in FlowRequest /\ NoFlowReq.at = "idle" /\ NoFlowReq.op = "none"
    BY DEF NoFlowReq, FlowRequest
<1>3. \A u \in Editors : flowReqs[u] = NoFlowReq
    BY DEF FlowInit
<1>4. \A u \in Editors : RequestOK(flowReqs[u])
    BY <1>2, <1>3 DEF RequestOK
<1>5. flowReqs \in [Editors -> FlowRequest]
    BY <1>2 DEF FlowInit
<1>6. flowEdits \in 0..MaxFlowEdits
    BY FlowAssumption DEF FlowInit
<1>7. flows \in [Flows -> FlowRow \cup {NoRow}] /\ flowVersions = {} /\ unrecorded = {}
    BY DEF FlowInit
<1> HIDE DEF FlowInit
<1> QED
    BY <1>1, <1>4, <1>5, <1>6, <1>7 DEF FlowInv

\* The record of a request that is over, and of one that has read a row.
LEMMA RequestOver == NoFlowReq \in FlowRequest /\ NoFlowReq.at = "idle"
BY DEF NoFlowReq, FlowRequest

LEMMA RequestToInsert ==
    ASSUME NEW r \in FlowRow, NEW q, q = [NoFlowReq EXCEPT !.at = "insert", !.copy = r]
    PROVE  q \in FlowRequest /\ q.at = "insert" /\ q.copy = r
BY DEF NoFlowReq, FlowRequest

\* What an operation makes of a copy.
LEMMA ChangedRow ==
    ASSUME FlowInv, NEW u \in Editors, flowReqs[u].at = "write",
           NEW q, q = flowReqs[u], NEW r, r = Changed(u)
    PROVE  /\ GoodRow(r) /\ r.version <= flowEdits + 1
           /\ r.status = "published" =>
                 IF q.op = "publish" THEN TRUE ELSE InHistory(Version(q.id, r))
<1> USE FlowFacts
<1>0. q \in FlowRequest /\ RequestOK(q) /\ q.at = "write" /\ q.id \in Flows /\ flowEdits \in Nat
    BY DEF RequestOK
<1>1. GoodRow(q.copy) /\ q.copy.version <= flowEdits + 1 /\ q.copy.version \in 1..(MaxFlowEdits + 1)
    BY <1>0 DEF RequestOK, GoodRow, FlowRow
<1>2. /\ q.op \in {"lock", "unlock", "publish", "rollback"}
      /\ q.copy.status = "published" => InHistory(Version(q.id, q.copy))
    BY <1>0 DEF RequestOK, FlowRequest
<1>3. PICK c \in FlowRow : c = q.copy
    BY <1>1 DEF GoodRow
<1>4. CASE q.op = "lock"
    <2>1. r = [c EXCEPT !.lockedBy = u]
        BY <1>3, <1>4 DEF Changed
    <2>2. r \in FlowRow /\ r.graph = c.graph /\ r.version = c.version /\ r.status = c.status
        BY <2>1 DEF FlowRow
    <2> QED
        BY <1>1, <1>2, <1>3, <2>2 DEF GoodRow, Version
<1>5. CASE q.op = "unlock"
    <2>1. r = [c EXCEPT !.lockedBy = NoUser]
        BY <1>3, <1>5 DEF Changed
    <2>2. r \in FlowRow /\ r.graph = c.graph /\ r.version = c.version /\ r.status = c.status
        BY <2>1 DEF FlowRow
    <2> QED
        BY <1>1, <1>2, <1>3, <2>2 DEF GoodRow, Version
<1>6. CASE q.op = "publish"
    <2>1. r = [c EXCEPT !.status = "published", !.version = c.version + 1]
        BY <1>3, <1>6 DEF Changed
    <2>2. c.version <= flowEdits
        BY <1>0, <1>3, <1>6 DEF RequestOK
    <2>3. PICK v : v = c.version + 1
        OBVIOUS
    <2>4. v \in 1..(MaxFlowEdits + 1) /\ v <= flowEdits + 1
        BY <1>1, <1>3, <2>2, <2>3
    <2>5. r = [c EXCEPT !.status = "published", !.version = v]
        BY <2>1, <2>3
    <2>6. r \in FlowRow /\ r.graph = c.graph /\ r.version = v
        BY <2>4, <2>5 DEF FlowRow
    <2> QED
        BY <1>1, <1>3, <1>6, <2>4, <2>6 DEF GoodRow
<1>7. CASE q.op = "rollback"
    <2>1. r = [c EXCEPT !.status = "draft", !.graph = q.graph]
        BY <1>3, <1>7 DEF Changed
    <2>2. q.graph \in Graphs /\ ValidateGraph(q.graph)
        BY <1>0, <1>7 DEF RequestOK
    <2>3. r \in FlowRow /\ r.graph = q.graph /\ r.version = c.version /\ r.status = "draft"
        BY <2>1, <2>2 DEF FlowRow
    <2> QED
        BY <1>1, <1>3, <2>2, <2>3 DEF GoodRow
<1> QED
    BY <1>2, <1>4, <1>5, <1>6, <1>7

LEMMA NextFlow == FlowInv /\ [FlowNext]_flowVars => FlowInv'
<1> SUFFICES ASSUME FlowInv, [FlowNext]_flowVars PROVE FlowInv'
    OBVIOUS
<1> USE FlowFacts
\* A request that reads: only it and the count of requests change.
<1>1. ASSUME NEW u \in Editors, NEW q \in FlowRequest, FlowEdit(u), flowReqs' = [flowReqs EXCEPT ![u] = q],
             q.at \in {"insert", "write"}, GoodRow(q.copy), q.copy.version <= flowEdits + 1,
             q.at = "insert" => q.copy.status = "draft",
             q.at = "write" => /\ q.op # "none" /\ q.id \in Flows
                               /\ q.op = "rollback" => q.graph \in Graphs /\ ValidateGraph(q.graph)
                               /\ q.copy.status = "published" => InHistory(Version(q.id, q.copy)),
             UNCHANGED <<flows, flowVersions, unrecorded>>
      PROVE  FlowInv'
    <2>1. flowReqs[u].at = "idle" /\ flowEdits' = flowEdits + 1 /\ flowEdits' \in 0..MaxFlowEdits
        BY <1>1, FlowAssumption DEF FlowEdit
    <2>2. \A v : InHistory(v) => InHistory(v)'
        <3>1. \A w \in Editors : flowReqs[w].at = "record" => flowReqs'[w] = flowReqs[w]
            BY <1>1, <2>1
        <3> QED
            BY <1>1, <3>1, HistoryStays
    <2>3. q.copy.version \in Nat /\ q.copy.version <= flowEdits' /\ q.copy.version <= flowEdits' + 1
        BY <1>1, <2>1 DEF GoodRow, FlowRow
    <2>4. RequestOK(q)'
        BY <1>1, <2>2, <2>3 DEF RequestOK, GoodRow
    <2>5. flowEdits <= flowEdits'
        BY <2>1
    <2>6. /\ flowReqs' \in [Editors -> FlowRequest] /\ \A w \in Editors : RequestOK(flowReqs[w])'
          /\ \A f \in Ids(flows) : flows'[f] = flows[f] => RowOK(f)'
        BY <1>1, <2>1, <2>2, <2>4, <2>5, RequestStep
    <2> QED
        BY <1>1, <2>1, <2>6 DEF FlowInv, Ids
\* A request that is over, or goes on to record its version, having changed at most one row.
<1>2. ASSUME NEW u \in Editors, NEW q \in FlowRequest, flowReqs' = [flowReqs EXCEPT ![u] = q], RequestOK(q)',
             flowReqs[u].at # "record", flows' \in [Flows -> FlowRow \cup {NoRow}],
             \A f \in Flows : flows'[f] # NoRow => flows'[f] = flows[f] \/ RowOK(f)',
             UNCHANGED <<flowVersions, unrecorded, flowEdits>>
      PROVE  FlowInv'
    <2>2. \A v : InHistory(v) => InHistory(v)'
        <3>1. \A w \in Editors : flowReqs[w].at = "record" => flowReqs'[w] = flowReqs[w]
            BY <1>2
        <3> QED
            BY <1>2, <3>1, HistoryStays
    <2>5. flowEdits <= flowEdits' /\ flowEdits' \in 0..MaxFlowEdits
        BY <1>2
    <2>6. /\ flowReqs' \in [Editors -> FlowRequest] /\ \A w \in Editors : RequestOK(flowReqs[w])'
          /\ \A f \in Ids(flows) : flows'[f] = flows[f] => RowOK(f)'
        BY <1>2, <2>2, <2>5, RequestStep
    <2>7. \A f \in Ids(flows)' : RowOK(f)'
        BY <1>2, <2>6 DEF Ids
    <2> QED
        BY <1>2, <2>5, <2>6, <2>7 DEF FlowInv
<1>3. NoFlowReq \in FlowRequest /\ RequestOK(NoFlowReq) /\ RequestOK(NoFlowReq)'
    BY RequestOver DEF RequestOK
<1>4. ASSUME NEW u \in Editors, NEW t \in Tenants, NEW c \in Codes, NEW g \in Graphs, CreateFlow(u, t, c, g)
      PROVE  FlowInv'
    <2>1. PICK r : r = NewFlow(t, c, g)
        OBVIOUS
    <2>2. r \in FlowRow /\ GoodRow(r) /\ r.version = 1 /\ r.status = "draft"
        BY <1>4, <2>1, FlowAssumption DEF NewFlow, FlowRow, GoodRow, CreateFlow
    <2>3. PICK q : q = [NoFlowReq EXCEPT !.at = "insert", !.copy = r]
        OBVIOUS
    <2>4. q \in FlowRequest /\ q.at = "insert" /\ q.copy = r
        BY <2>2, <2>3, RequestToInsert
    <2>5. FlowEdit(u) /\ flowReqs' = [flowReqs EXCEPT ![u] = q] /\ UNCHANGED <<flows, flowVersions, unrecorded>>
        BY <1>4, <2>1, <2>3 DEF CreateFlow, FlowReq, editVars
    <2>6. q.copy.version <= flowEdits + 1
        BY <2>2, <2>4
    <2> QED
        BY <1>1, <2>2, <2>4, <2>5, <2>6
<1>5. ASSUME NEW u \in Editors, NEW f \in Flows, NEW c \in Codes, CloneFlow(u, f, c)
      PROVE  FlowInv'
    <2>1. PICK r : r = NewFlow(flows[f].tenant, c, flows[f].graph)
        OBVIOUS
    <2>0. f \in Ids(flows) /\ GoodRow(flows[f])
        BY <1>5 DEF CloneFlow, RowOK
    <2>2. r \in FlowRow /\ GoodRow(r) /\ r.version = 1 /\ r.status = "draft"
        BY <2>0, <2>1, FlowAssumption DEF NewFlow, FlowRow, GoodRow
    <2>3. PICK q : q = [NoFlowReq EXCEPT !.at = "insert", !.copy = r]
        OBVIOUS
    <2>4. q \in FlowRequest /\ q.at = "insert" /\ q.copy = r
        BY <2>2, <2>3, RequestToInsert
    <2>5. FlowEdit(u) /\ flowReqs' = [flowReqs EXCEPT ![u] = q] /\ UNCHANGED <<flows, flowVersions, unrecorded>>
        BY <1>5, <2>1, <2>3 DEF CloneFlow, FlowReq, editVars
    <2>6. q.copy.version <= flowEdits + 1
        BY <2>2, <2>4
    <2> QED
        BY <1>1, <2>2, <2>4, <2>5, <2>6
<1>6. ASSUME NEW u \in Editors, NEW f \in Flows, NEW o \in {"lock", "unlock", "publish"}, ReadFlow(u, f, o),
             UNCHANGED <<flows, flowVersions, unrecorded>>
      PROVE  FlowInv'
    <2>1. PICK r : r = flows[f]
        OBVIOUS
    <2>2. r \in FlowRow /\ GoodRow(r) /\ r.version <= flowEdits + 1
          /\ (r.status = "published" => InHistory(Version(f, r)))
        BY <1>6, <2>1 DEF ReadFlow, RowOK, GoodRow
    <2>3. PICK q : q = [NoFlowReq EXCEPT !.at = "write", !.op = o, !.id = f, !.copy = r]
        OBVIOUS
    <2>4. q \in FlowRequest /\ q.at = "write" /\ q.op = o /\ q.id = f /\ q.copy = r
        <3>1. r \in FlowRow
            BY <2>2
        <3> QED
            BY <2>3, <3>1 DEF NoFlowReq, FlowRequest
    <2>5. FlowEdit(u) /\ flowReqs' = [flowReqs EXCEPT ![u] = q]
        BY <1>6, <2>1, <2>3 DEF ReadFlow, FlowReq
    <2> QED
        BY <1>1, <1>6, <2>2, <2>4, <2>5
<1>7. ASSUME NEW u \in Editors, NEW f \in Flows, NEW v \in flowVersions, Rollback(u, f, v)
      PROVE  FlowInv'
    <2>1. PICK r : r = flows[f]
        OBVIOUS
    <2>2. r \in FlowRow /\ GoodRow(r) /\ r.version <= flowEdits + 1
          /\ (r.status = "published" => InHistory(Version(f, r)))
        BY <1>7, <2>1 DEF Rollback, RowOK, GoodRow
    <2>0. PICK g : g = v.graph
        OBVIOUS
    <2>9. g \in Graphs /\ ValidateGraph(g)
        BY <2>0 DEF FlowInv
    <2>3. PICK q : q = [NoFlowReq EXCEPT !.at = "write", !.op = "rollback", !.id = f, !.copy = r, !.graph = g]
        OBVIOUS
    <2>4. q \in FlowRequest /\ q.at = "write" /\ q.op = "rollback" /\ q.id = f /\ q.copy = r /\ q.graph = g
        <3>1. r \in FlowRow /\ g \in Graphs
            BY <2>2, <2>9
        <3> QED
            BY <2>3, <3>1 DEF NoFlowReq, FlowRequest
    <2>5. FlowEdit(u) /\ flowReqs' = [flowReqs EXCEPT ![u] = q] /\ UNCHANGED <<flows, flowVersions, unrecorded>>
        BY <1>7, <2>0, <2>1, <2>3 DEF Rollback, FlowReq, editVars
    <2> QED
        BY <1>1, <2>2, <2>4, <2>5, <2>9
<1>8. ASSUME NEW u \in Editors, NEW f \in Flows, InsertFlow(u, f)
      PROVE  FlowInv'
    <2>1. PICK row : row = flowReqs[u].copy
        OBVIOUS
    <2>2. GoodRow(row) /\ row.version <= flowEdits + 1 /\ row.status = "draft" /\ flowReqs[u].at = "insert"
        BY <1>8, <2>1 DEF InsertFlow, RequestOK
    <2>3. flows' = flows \/ flows' = [flows EXCEPT ![f] = row]
        BY <1>8, <2>1 DEF InsertFlow, Inserted
    <2>4. flowReqs' = [flowReqs EXCEPT ![u] = NoFlowReq] /\ UNCHANGED <<flowVersions, unrecorded, flowEdits>>
        BY <1>8 DEF InsertFlow, FlowReq, editVars
    <2>5. flows' \in [Flows -> FlowRow \cup {NoRow}]
        BY <2>2, <2>3 DEF GoodRow
    <2>6. ASSUME NEW h \in Flows, flows'[h] # flows[h] PROVE RowOK(h)'
        <3>1. flows'[h] = row
            BY <2>3, <2>6
        <3> QED
            BY <2>2, <2>4, <3>1 DEF RowOK, GoodRow
    <2> QED
        BY <1>2, <1>3, <2>2, <2>4, <2>5, <2>6
<1>9. ASSUME NEW u \in Editors, UpdateFlow(u)
      PROVE  FlowInv'
    <2>1. PICK q : q = flowReqs[u]
        OBVIOUS
    <2>2. PICK row : row = Changed(u)
        OBVIOUS
    <2>3. /\ GoodRow(row) /\ row.version <= flowEdits + 1
          /\ row.status = "published" => IF q.op = "publish" THEN TRUE ELSE InHistory(Version(q.id, row))
        BY <1>9, <2>1, <2>2, ChangedRow DEF UpdateFlow
    <2>4. q.at = "write" /\ q \in FlowRequest /\ q.id \in Flows /\ flowReqs[u].at = "write"
        BY <1>9, <2>1 DEF UpdateFlow, RequestOK
    <2>5. UNCHANGED <<flowVersions, unrecorded, flowEdits>>
        BY <1>9 DEF UpdateFlow
    <2>6. \/ flows' = flows /\ flowReqs' = [flowReqs EXCEPT ![u] = NoFlowReq]
          \/ /\ flows' = Updated(flows, q.id, row)
             /\ IF q.op = "publish" THEN flowReqs' = [flowReqs EXCEPT ![u] = [q EXCEPT !.at = "record", !.copy = row]]
                ELSE flowReqs' = [flowReqs EXCEPT ![u] = NoFlowReq]
        BY <1>9, <2>1, <2>2 DEF UpdateFlow, FlowReq
    <2>7. CASE flows' = flows /\ flowReqs' = [flowReqs EXCEPT ![u] = NoFlowReq]
        BY <1>2, <1>3, <2>4, <2>5, <2>7
    <2>8. CASE /\ flows' = Updated(flows, q.id, row)
               /\ IF q.op = "publish" THEN flowReqs' = [flowReqs EXCEPT ![u] = [q EXCEPT !.at = "record", !.copy = row]]
                  ELSE flowReqs' = [flowReqs EXCEPT ![u] = NoFlowReq]
        <3>0. PICK p : p = IF q.op = "publish" THEN [q EXCEPT !.at = "record", !.copy = row] ELSE NoFlowReq
            OBVIOUS
        <3>1. /\ p \in FlowRequest /\ (q.op # "publish" => p = NoFlowReq)
              /\ q.op = "publish" => p.at = "record" /\ p.copy = row /\ p.id = q.id
            BY <1>3, <2>3, <2>4, <3>0 DEF FlowRequest, GoodRow
        <3>2. flowReqs' = [flowReqs EXCEPT ![u] = p]
            BY <2>8, <3>0
        <3>3. RequestOK(p)'
            BY <1>3, <2>3, <2>4, <2>5, <3>1 DEF RequestOK, GoodRow
        <3>4. flows' \in [Flows -> FlowRow \cup {NoRow}]
            BY <2>3, <2>8 DEF Updated, GoodRow
        <3>5. \A v : InHistory(v) => InHistory(v)'
            <4>1. \A w \in Editors : flowReqs[w].at = "record" => flowReqs'[w] = flowReqs[w]
                BY <2>4, <3>2
            <4> QED
                BY <2>5, <4>1, HistoryStays
        <3>6. q.op = "publish" => InHistory(Version(q.id, row))'
            <4>1. ASSUME q.op = "publish" PROVE flowReqs'[u].at = "record" /\ flowReqs'[u].copy = row /\ flowReqs'[u].id = q.id
                BY <3>1, <3>2, <4>1
            <4> QED
                BY <4>1 DEF InHistory, VersionOf, Version
        <3>7. ASSUME NEW h \in Flows, flows'[h] # flows[h] PROVE RowOK(h)'
            <4>1. h = q.id /\ flows'[h] = row
                BY <2>8, <3>7 DEF Updated
            <4>2. row.status = "published" => InHistory(Version(h, row))'
                BY <2>3, <3>5, <3>6, <4>1
            <4> QED
                BY <2>3, <2>5, <4>1, <4>2 DEF RowOK, GoodRow
        <3> QED
            BY <1>2, <2>4, <2>5, <3>1, <3>2, <3>3, <3>4, <3>7
    <2> QED
        BY <2>6, <2>7, <2>8
<1>10. ASSUME NEW u \in Editors, RecordVersion(u) \/ RecordFails(u)
       PROVE  FlowInv'
    <2>1. PICK v : v = VersionOf(u)
        OBVIOUS
    <2>2. /\ flowReqs[u].at = "record" /\ flowReqs' = [flowReqs EXCEPT ![u] = NoFlowReq]
          /\ UNCHANGED <<flows, flowEdits>>
          /\ (flowVersions \cup unrecorded)' = flowVersions \cup unrecorded \cup {v}
        BY <1>10, <2>1 DEF RecordVersion, RecordFails, FlowReq
    <2>3. v.flow \in Flows /\ v.graph \in Graphs /\ ValidateGraph(v.graph)
        BY <2>1, <2>2 DEF VersionOf, RequestOK, GoodRow, FlowRow
    <2>4. \A x : InHistory(x) => InHistory(x)'
        <3>1. \A w \in Editors : flowReqs[w].at = "record" =>
                  flowReqs'[w] = flowReqs[w] \/ VersionOf(w) \in (flowVersions \cup unrecorded)'
            BY <2>1, <2>2
        <3> QED
            BY <2>2, <3>1, HistoryStays
    <2>5. flowEdits <= flowEdits' /\ flowEdits' \in 0..MaxFlowEdits
        BY <2>2
    <2>6. /\ flowReqs' \in [Editors -> FlowRequest] /\ \A w \in Editors : RequestOK(flowReqs[w])'
          /\ \A f \in Ids(flows) : flows'[f] = flows[f] => RowOK(f)'
        BY <1>3, <2>2, <2>4, <2>5, RequestStep
    <2>7. \A f \in Ids(flows)' : RowOK(f)'
        BY <2>2, <2>6 DEF Ids
    <2>8. \A x \in (flowVersions \cup unrecorded)' : x.flow \in Flows /\ x.graph \in Graphs /\ ValidateGraph(x.graph)
        BY <2>2, <2>3 DEF FlowInv
    <2> QED
        BY <2>2, <2>5, <2>6, <2>7, <2>8 DEF FlowInv
<1>11. CASE UNCHANGED flowVars
    <2>1. UNCHANGED <<flows, flowVersions, flowReqs, unrecorded, flowEdits>>
        BY <1>11 DEF flowVars
    <2> QED
        BY <2>1 DEF FlowInv, RowOK, RequestOK, InHistory, VersionOf, Ids
<1> QED
    <2>1. ASSUME NEW u \in Editors, NEW f \in Flows, Lock(u, f) \/ Unlock(u, f) \/ Publish(u, f) PROVE FlowInv'
        <3>1. \E o \in {"lock", "unlock", "publish"} : ReadFlow(u, f, o)
            BY <2>1 DEF Lock, Unlock, Publish
        <3>2. UNCHANGED <<flows, flowVersions, unrecorded>>
            BY <2>1 DEF Lock, Unlock, Publish, editVars
        <3> QED
            BY <1>6, <3>1, <3>2
    <2> QED
        BY <1>4, <1>5, <1>7, <1>8, <1>9, <1>10, <1>11, <2>1 DEF FlowNext

-----------------------------------------------------------------------------
(***************************************************************************)
(* The engine. Every session on the stack is at a node of a graph that     *)
(* passed the validation, so every exit that is taken leads to a node.     *)
(***************************************************************************)
Runnable(g) == IsSeq(g) /\ ValidateGraph(g)

Frame(s) ==
    /\ s = [graph |-> s.graph, node |-> s.node, steps |-> s.steps, vars |-> s.vars]
    /\ Runnable(s.graph) /\ s.node \in NodesOf(s.graph) /\ s.steps \in 0..MaxSteps

IsStack(st) == \E S : st \in Seq(S) /\ \A s \in S : Frame(s)

EngineInv ==
    /\ \A f \in IvrFlows : Runnable(graphOf[f])
    /\ IsStack(stack) /\ Len(stack) <= MaxDepth
    /\ ivrRun \in {"none", "running", "ended", "failed"}
    /\ ivrRun = "running" <=> stack # <<>>
    /\ NeverLost

LEMMA SmallStacks ==
    /\ IsStack(<<>>) /\ Len(<<>>) = 0
    /\ \A s : Frame(s) => IsStack(<<s>>) /\ Len(<<s>>) = 1 /\ <<s>> # <<>>
<1>1. ASSUME NEW T, NEW st \in Seq(T), \A x \in T : Frame(x) PROVE IsStack(st)
    BY <1>1 DEF IsStack
<1>2. PICK T : T = {}
    OBVIOUS
<1>3. <<>> \in Seq(T) /\ Len(<<>>) = 0 /\ \A x \in T : Frame(x)
    BY <1>2
<1>4. ASSUME NEW s, Frame(s) PROVE IsStack(<<s>>) /\ Len(<<s>>) = 1 /\ <<s>> # <<>>
    <2>1. PICK U : U = {s}
        OBVIOUS
    <2>2. <<s>> \in Seq(U) /\ Len(<<s>>) = 1 /\ <<s>> # <<>> /\ \A x \in U : Frame(x)
        BY <1>4, <2>1
    <2> QED
        BY <1>1, <2>2
<1> QED
    BY <1>1, <1>3, <1>4

LEMMA Stacks ==
    ASSUME NEW st, IsStack(st)
    PROVE  /\ Len(st) \in Nat /\ DOMAIN st = 1..Len(st) /\ (st = <<>> <=> Len(st) = 0)
           /\ \A i \in 1..Len(st) : Frame(st[i])
           /\ \A s : Frame(s) => IsStack(Append(st, s)) /\ Len(Append(st, s)) = Len(st) + 1
           /\ st # <<>> => /\ IsStack(SubSeq(st, 1, Len(st) - 1))
                           /\ Len(SubSeq(st, 1, Len(st) - 1)) = Len(st) - 1
           /\ \A s : \A i \in 1..Len(st) : Frame(s) =>
                 IsStack([st EXCEPT ![i] = s]) /\ Len([st EXCEPT ![i] = s]) = Len(st)
<1>0. PICK S : st \in Seq(S) /\ \A s \in S : Frame(s)
    BY DEF IsStack
<1>1. /\ Len(st) \in Nat /\ DOMAIN st = 1..Len(st) /\ (st = <<>> <=> Len(st) = 0)
      /\ \A i \in 1..Len(st) : Frame(st[i])
    BY <1>0
<1>2. ASSUME NEW s, Frame(s) PROVE IsStack(Append(st, s)) /\ Len(Append(st, s)) = Len(st) + 1
    <2>1. PICK T : T = S \cup {s}
        OBVIOUS
    <2>2. st \in Seq(T) /\ s \in T /\ \A x \in T : Frame(x)
        BY <1>0, <1>2, <2>1
    <2>3. Append(st, s) \in Seq(T) /\ Len(Append(st, s)) = Len(st) + 1
        BY <2>2
    <2> QED
        BY <2>2, <2>3 DEF IsStack
<1>3. ASSUME st # <<>>
      PROVE  /\ IsStack(SubSeq(st, 1, Len(st) - 1))
             /\ Len(SubSeq(st, 1, Len(st) - 1)) = Len(st) - 1
    <2>0. Len(st) - 1 \in Nat /\ Len(st) - 1 <= Len(st)
        BY <1>1, <1>3
    <2>1. PICK n \in Nat : n = Len(st) - 1 /\ n <= Len(st)
        BY <2>0
    <2>2. SubSeq(st, 1, n) \in Seq(S) /\ Len(SubSeq(st, 1, n)) = n
        BY <1>0, <2>1
    <2> QED
        BY <1>0, <2>1, <2>2 DEF IsStack
<1>4. ASSUME NEW i \in 1..Len(st), NEW s, Frame(s)
      PROVE  IsStack([st EXCEPT ![i] = s]) /\ Len([st EXCEPT ![i] = s]) = Len(st)
    <2>1. PICK T : T = S \cup {s}
        OBVIOUS
    <2>2. st \in Seq(T) /\ s \in T /\ \A x \in T : Frame(x)
        BY <1>0, <1>4, <2>1
    <2>3. [st EXCEPT ![i] = s] \in Seq(T) /\ Len([st EXCEPT ![i] = s]) = Len(st)
        BY <1>1, <2>2
    <2> QED
        BY <2>2, <2>3 DEF IsStack
<1> QED
    BY <1>1, <1>2, <1>3, <1>4

\* A frame stays one when its variables change, or when it goes on to a node.
LEMMA Frames ==
    ASSUME NEW s, Frame(s)
    PROVE  /\ \A v : Frame([s EXCEPT !.vars = v])
           /\ \A v : \A n \in NodesOf(s.graph) : s.steps < MaxSteps =>
                 Frame([s EXCEPT !.node = n, !.steps = @ + 1, !.vars = v])
           /\ \E i \in DOMAIN s.graph : NodeAt(s.graph, s.node) = s.graph[i]
           /\ Targets(NodeAt(s.graph, s.node)) \subseteq NodesOf(s.graph)
<1>1. ASSUME NEW v PROVE Frame([s EXCEPT !.vars = v])
    <2>1. PICK t : t = [graph |-> s.graph, node |-> s.node, steps |-> s.steps, vars |-> v]
        OBVIOUS
    <2>2. [s EXCEPT !.vars = v] = t
        BY <2>1 DEF Frame
    <2>3. t.graph = s.graph /\ t.node = s.node /\ t.steps = s.steps /\ t.vars = v
        BY <2>1
    <2> QED
        BY <2>1, <2>2, <2>3 DEF Frame
<1>2. ASSUME NEW n \in NodesOf(s.graph), NEW v, s.steps < MaxSteps
      PROVE  Frame([s EXCEPT !.node = n, !.steps = @ + 1, !.vars = v])
    <2>1. PICK t : t = [graph |-> s.graph, node |-> n, steps |-> s.steps + 1, vars |-> v]
        OBVIOUS
    <2>2. [s EXCEPT !.node = n, !.steps = @ + 1, !.vars = v] = t
        <3>1. PICK g, d, k, w : s = [graph |-> g, node |-> d, steps |-> k, vars |-> w]
            BY DEF Frame
        <3>2. s.graph = g /\ s.steps = k
            BY <3>1
        <3>3. PICK m : m = k + 1
            OBVIOUS
        <3>4. [s EXCEPT !.node = n, !.steps = m, !.vars = v] = [graph |-> g, node |-> n, steps |-> m, vars |-> v]
            <4>1. PICK a : a = [s EXCEPT !.node = n]
                OBVIOUS
            <4>2. a = [graph |-> g, node |-> n, steps |-> k, vars |-> w]
                BY <3>1, <4>1
            <4>3. PICK b : b = [a EXCEPT !.steps = m]
                OBVIOUS
            <4>4. b = [graph |-> g, node |-> n, steps |-> m, vars |-> w]
                BY <4>2, <4>3
            <4>5. [b EXCEPT !.vars = v] = [graph |-> g, node |-> n, steps |-> m, vars |-> v]
                BY <4>4
            <4> QED
                BY <4>1, <4>3, <4>5
        <3> QED
            BY <2>1, <3>2, <3>3, <3>4
    <2>3. t.graph = s.graph /\ t.node = n /\ t.steps = s.steps + 1 /\ t.vars = v
        BY <2>1
    <2>4. s.steps + 1 \in 0..MaxSteps
        BY <1>2, EngineAssumption DEF Frame
    <2> QED
        BY <2>1, <2>2, <2>3, <2>4 DEF Frame
<1>3. PICK i \in DOMAIN s.graph : NodeAt(s.graph, s.node) = s.graph[i]
    BY NodesById DEF Frame, Runnable
<1>4. Targets(s.graph[i]) \subseteq NodesOf(s.graph)
    BY DEF Frame, Runnable, ValidateGraph
<1> QED
    BY <1>1, <1>2, <1>3, <1>4

\* A session begins at the start of its graph.
LEMMA SessionBegins ==
    ASSUME NEW g, Runnable(g), NEW got
    PROVE  Frame(SessionOn(g, got))
<1>1. PICK i : i = StartOf(g)
    OBVIOUS
<1>2. OfType(g, "start") # {}
    BY OneIsNotNone DEF Runnable, ValidateGraph
<1>3. i \in DOMAIN g
    BY <1>1, <1>2 DEF StartOf, OfType
<1>4. PICK s : s = [graph |-> g, node |-> g[i].id, steps |-> 0, vars |-> got]
    OBVIOUS
<1>5. s.graph = g /\ s.node \in NodesOf(g) /\ s.steps \in 0..MaxSteps
    BY <1>3, <1>4, EngineAssumption DEF NodesOf
<1> QED
    BY <1>1, <1>4, <1>5 DEF Frame, SessionOn

LEMMA InitEngine == EngineInit => EngineInv
<1> SUFFICES ASSUME EngineInit PROVE EngineInv
    OBVIOUS
<1>1. ASSUME NEW f \in IvrFlows PROVE Runnable(graphOf[f])
    <2>1. graphOf[f] \in FlowGraphs[f] /\ ValidateGraph(graphOf[f])
        BY DEF EngineInit
    <2> QED
        BY <2>1, EngineAssumption DEF Runnable, IsSeq
<1>2. stack = <<>> /\ ivrRun = "none" /\ ivrError = "none"
    BY DEF EngineInit
<1>3. IsStack(<<>>) /\ Len(<<>>) = 0
    BY SmallStacks
<1> QED
    BY <1>1, <1>2, <1>3, EngineAssumption DEF EngineInv, NeverLost
(* What a step does to the sessions: the call enters a flow, the innermost    *)
(* session goes to its next node, descends into a sub-flow, or leaves.       *)
CallEnters(s) ==
    /\ ivrRun = "none" /\ ivrRun' = "running"
    /\ s.steps = 0 /\ stack' = <<s>> /\ visits' = visits
SessionGoesOn(s) ==
    /\ InStep /\ ivrRun' = ivrRun
    /\ s.steps = TopFrame.steps + 1 /\ stack' = Append(Below, s) /\ visits' = CountVisit
SessionDescends(s) ==
    /\ InStep /\ Current.type = "sub_flow" /\ ~Returned /\ Len(stack) < MaxDepth /\ ivrRun' = ivrRun
    /\ s.steps = 0 /\ stack' = Append(stack, s) /\ visits' = visits
\* The rest of the stack, with new variables in the session that is resumed.
Returning(x) == [Below EXCEPT ![Len(stack) - 1].vars = x]
SessionLeaves ==
    /\ ivrRun = "running"
    /\ \/ InStep /\ visits' = CountVisit
       \/ TopFrame.steps = MaxSteps /\ visits' = visits
    /\ \/ Len(stack) = 1 /\ stack' = <<>> /\ ivrRun' \in {"ended", "failed"}
       \/ /\ Len(stack) # 1 /\ ivrRun' = ivrRun
          /\ \E x : /\ x \cap {"sub_ok", "sub_error"} # {}
                   /\ stack' = Returning(x)

LEMMA EngineMoves ==
    ASSUME EngineInv, EngineNext
    PROVE  /\ graphOf' = graphOf /\ NeverLost'
           /\ (\E s : Frame(s) /\ (CallEnters(s) \/ SessionGoesOn(s) \/ SessionDescends(s))) \/ SessionLeaves
<1>0. /\ IsStack(stack) /\ (ivrRun = "running" <=> stack # <<>>)
      /\ NeverLost /\ \A f \in IvrFlows : Runnable(graphOf[f])
    BY DEF EngineInv
<1>1. ASSUME ivrRun = "running" PROVE Frame(TopFrame)
    <2>1. Len(stack) \in Nat /\ Len(stack) # 0 /\ \A i \in 1..Len(stack) : Frame(stack[i])
        BY <1>0, <1>1, Stacks
    <2>2. Len(stack) \in 1..Len(stack)
        BY <2>1
    <2> QED
        BY <2>1, <2>2 DEF TopFrame
<1>3. ASSUME NEW why \in {"no exit", "max steps"}, Fail(why), ivrRun = "running",
             \/ InStep /\ visits' = CountVisit
             \/ TopFrame.steps = MaxSteps /\ visits' = visits
      PROVE  graphOf' = graphOf /\ NeverLost' /\ SessionLeaves
    <2>1. graphOf' = graphOf /\ ivrError' = why
        BY <1>3 DEF Fail
    <2>2. CASE Len(stack) = 1
        BY <1>3, <2>1, <2>2 DEF Fail, SessionLeaves, NeverLost
    <2>3. CASE Len(stack) # 1
        <3>1. PICK x : x = Below[Len(stack) - 1].vars \cup {"sub_error"}
            OBVIOUS
        <3>2. stack' = Returning(x) /\ ivrRun' = ivrRun
            BY <1>3, <2>3, <3>1 DEF Fail, Returning
        <3>3. x \cap {"sub_ok", "sub_error"} # {}
            BY <3>1
        <3> QED
            BY <1>3, <2>1, <2>3, <3>2, <3>3 DEF SessionLeaves, NeverLost
    <2> QED
        BY <2>2, <2>3
<1>4. ASSUME InStep, NEW result, TakeExit(Current, result)
      PROVE  /\ graphOf' = graphOf /\ NeverLost'
             /\ (\E s : Frame(s) /\ SessionGoesOn(s)) \/ SessionLeaves
    <2>1. PICK n : n = Current
        OBVIOUS
    <2>2. PICK top : top = TopFrame /\ top = stack[Len(stack)]
        BY DEF TopFrame
    <2>3. Frame(top) /\ top.steps < MaxSteps /\ Targets(n) \subseteq NodesOf(top.graph) /\ ivrRun = "running"
        BY <1>1, <1>4, <2>1, <2>2, Frames DEF InStep, Current
    <2>4. PICK exit : exit = IF result.exit \in DOMAIN n.exits THEN result.exit ELSE "default"
        OBVIOUS
    <2>5. PICK below : below = SubSeq(stack, 1, Len(stack) - 1)
        OBVIOUS
    <2>6. CASE exit \notin DOMAIN n.exits
        <3>1. Onward(stack, n, result) = [frames |-> below, failed |-> TRUE, why |-> "no exit"]
            BY <2>4, <2>5, <2>6 DEF Onward
        <3>2. Fail("no exit")
            <4>1. PICK next : next = Onward(stack, n, result)
                OBVIOUS
            <4>2. next.failed /\ next.why = "no exit"
                <5>1. next = [frames |-> below, failed |-> TRUE, why |-> "no exit"]
                    BY <3>1, <4>1
                <5> QED
                    BY <5>1
            <4>3. next.failed => Fail(next.why)
                BY <1>4, <2>1, <4>1 DEF TakeExit
            <4> QED
                BY <4>2, <4>3
        <3>3. visits' = CountVisit
            BY <1>4 DEF TakeExit
        <3> QED
            BY <1>3, <1>4, <2>3, <3>2, <3>3
    <2>7. CASE exit \in DOMAIN n.exits
        <3>1. PICK to : to = n.exits[exit] /\ to \in NodesOf(top.graph)
            BY <2>3, <2>7 DEF Targets
        <3>2. PICK s : s = [top EXCEPT !.node = to, !.steps = @ + 1, !.vars = result.vars]
            OBVIOUS
        <3>3. Frame(s)
            BY <2>3, <3>1, <3>2, Frames
        <3>4. Onward(stack, n, result) = [frames |-> Append(below, s), failed |-> FALSE, why |-> "none"]
            BY <2>2, <2>4, <2>5, <2>7, <3>1, <3>2 DEF Onward
        <3>5. stack' = Append(below, s) /\ UNCHANGED <<graphOf, ivrRun, ivrError>>
            BY <1>4, <2>1, <3>4 DEF TakeExit
        <3>6. s.steps = top.steps + 1
            <4>1. PICK g, d, k, w : top = [graph |-> g, node |-> d, steps |-> k, vars |-> w]
                BY <2>3 DEF Frame
            <4> QED
                BY <3>2, <4>1
        <3>7. visits' = CountVisit
            BY <1>4 DEF TakeExit
        <3>8. SessionGoesOn(s)
            BY <1>4, <2>2, <2>5, <3>5, <3>6, <3>7 DEF SessionGoesOn, Below
        <3> QED
            BY <1>0, <3>3, <3>5, <3>8 DEF NeverLost
    <2> QED
        BY <2>6, <2>7
<1>5. ASSUME NEW f \in IvrFlows, ExecuteFlow(f)
      PROVE  graphOf' = graphOf /\ NeverLost' /\ \E s : Frame(s) /\ CallEnters(s)
    <2>1. PICK s : s = SessionOn(graphOf[f], {"caller_number"})
        OBVIOUS
    <2>2. Frame(s) /\ s.steps = 0
        BY <1>0, <2>1, SessionBegins DEF SessionOn
    <2>3. CallEnters(s) /\ graphOf' = graphOf /\ ivrError' = ivrError
        BY <1>5, <2>1, <2>2 DEF ExecuteFlow, CallEnters
    <2> QED
        BY <1>0, <2>2, <2>3 DEF NeverLost
<1>6. ASSUME SubFlowHandle
      PROVE  graphOf' = graphOf /\ NeverLost' /\ \E s : Frame(s) /\ SessionDescends(s)
    <2>1. PICK s : s = SessionOn(graphOf[Current.cfg.flow], TopFrame.vars)
        OBVIOUS
    <2>2. Frame(s) /\ s.steps = 0
        BY <1>0, <1>6, <2>1, SessionBegins DEF SubFlowHandle, SessionOn
    <2>3. SessionDescends(s) /\ graphOf' = graphOf /\ ivrError' = ivrError
        BY <1>6, <2>1, <2>2 DEF SubFlowHandle, SessionDescends
    <2> QED
        BY <1>0, <2>2, <2>3 DEF NeverLost
<1>7. ASSUME EndNode
      PROVE  graphOf' = graphOf /\ NeverLost' /\ SessionLeaves
    <2>0. /\ ivrRun = "running" /\ InStep /\ visits' = CountVisit
          /\ graphOf' = graphOf /\ ivrError' = ivrError
        BY <1>7 DEF EndNode, InStep
    <2>1. CASE Len(stack) = 1
        BY <1>0, <1>7, <2>0, <2>1 DEF EndNode, SessionLeaves, NeverLost
    <2>2. CASE Len(stack) # 1
        <3>0. PICK out : out = NodeAt(stack[Len(stack) - 1].graph, stack[Len(stack) - 1].node).cfg.vars
            OBVIOUS
        <3>1. PICK x : x = Below[Len(stack) - 1].vars \cup (out \cap TopFrame.vars) \cup {"sub_ok"}
            OBVIOUS
        <3>2. stack' = Returning(x) /\ ivrRun' = ivrRun
            BY <1>7, <2>2, <3>0, <3>1 DEF EndNode, Returning
        <3>3. x \cap {"sub_ok", "sub_error"} # {}
            BY <3>1
        <3> QED
            BY <1>0, <2>0, <2>2, <3>2, <3>3 DEF SessionLeaves, NeverLost
    <2> QED
        BY <2>1, <2>2
<1>8. ASSUME StepNode \/ SubFlowUnknown \/ SubFlowReturns
      PROVE  /\ graphOf' = graphOf /\ NeverLost'
             /\ (\E s : Frame(s) /\ SessionGoesOn(s)) \/ SessionLeaves
    <2>1. \E result : InStep /\ TakeExit(Current, result)
        BY <1>8 DEF StepNode, SubFlowUnknown, SubFlowReturns
    <2> QED
        BY <1>4, <2>1
<1>9. ASSUME OutOfSteps
      PROVE  graphOf' = graphOf /\ NeverLost' /\ SessionLeaves
    BY <1>3, <1>9 DEF OutOfSteps
<1> QED
    BY <1>5, <1>6, <1>7, <1>8, <1>9 DEF EngineNext, EngineStep

\* How a stack looks after each of these.
LEMMA StackGrown ==
    ASSUME IsStack(stack), NEW s, Frame(s), NEW n, n = Len(stack)
    PROVE  /\ IsStack(Append(stack, s)) /\ Len(Append(stack, s)) = n + 1
           /\ Append(stack, s)[n + 1] = s /\ \A i \in 1..n : Append(stack, s)[i] = stack[i]
           /\ stack # <<>> =>
                 /\ IsStack(Append(Below, s)) /\ Len(Append(Below, s)) = n
                 /\ Append(Below, s)[n] = s /\ \A i \in 1..(n - 1) : Append(Below, s)[i] = stack[i]
<1>0. PICK S : stack \in Seq(S) /\ \A t \in S : Frame(t)
    BY DEF IsStack
<1>1. n \in Nat /\ (stack = <<>> <=> n = 0)
    BY <1>0
<1>2. PICK T : T = S \cup {s}
    OBVIOUS
<1>3. stack \in Seq(T) /\ s \in T /\ \A t \in T : Frame(t)
    BY <1>0, <1>2
<1>4. ASSUME NEW st \in Seq(T) PROVE IsStack(st)
    BY <1>3 DEF IsStack
<1>5. /\ IsStack(Append(stack, s)) /\ Len(Append(stack, s)) = n + 1
      /\ Append(stack, s)[n + 1] = s /\ \A i \in 1..n : Append(stack, s)[i] = stack[i]
    <2>1. Append(stack, s) \in Seq(T)
        BY <1>3
    <2>2. /\ Len(Append(stack, s)) = n + 1
          /\ Append(stack, s)[n + 1] = s /\ \A i \in 1..n : Append(stack, s)[i] = stack[i]
        BY <1>1, <1>3
    <2> QED
        BY <1>4, <2>1, <2>2
<1>6. ASSUME stack # <<>>
      PROVE  /\ Below \in Seq(T) /\ Len(Below) = n - 1 /\ n - 1 \in Nat
             /\ \A i \in 1..(n - 1) : Below[i] = stack[i]
    <2>0. n - 1 \in Nat /\ n - 1 <= n
        BY <1>1, <1>6
    <2>1. PICK k \in Nat : k = n - 1 /\ k <= Len(stack)
        BY <2>0
    <2>2. /\ SubSeq(stack, 1, k) \in Seq(T) /\ Len(SubSeq(stack, 1, k)) = k
          /\ \A i \in 1..k : SubSeq(stack, 1, k)[i] = stack[i]
        BY <1>3, <2>1
    <2> QED
        BY <2>0, <2>1, <2>2 DEF Below
<1>7. ASSUME stack # <<>>
      PROVE  /\ IsStack(Append(Below, s)) /\ Len(Append(Below, s)) = n
             /\ Append(Below, s)[n] = s /\ \A i \in 1..(n - 1) : Append(Below, s)[i] = stack[i]
    <2>1. PICK b \in Seq(T) : b = Below /\ Len(b) = n - 1 /\ \A i \in 1..(n - 1) : b[i] = stack[i]
        BY <1>6, <1>7
    <2>2. PICK k \in Nat : k = n - 1 /\ n = k + 1
        <3>1. n - 1 \in Nat /\ n = n - 1 + 1
            BY <1>1, <1>6, <1>7
        <3> QED
            BY <3>1
    <2>3. Append(b, s) \in Seq(T) /\ Len(Append(b, s)) = k + 1 /\ Append(b, s)[k + 1] = s
          /\ \A i \in 1..k : Append(b, s)[i] = b[i]
        BY <1>3, <2>1, <2>2
    <2> QED
        BY <1>4, <2>1, <2>2, <2>3
<1> QED
    BY <1>5, <1>7

LEMMA BelowTop ==
    ASSUME IsStack(stack), stack # <<>>, NEW n, n = Len(stack)
    PROVE  /\ IsStack(Below) /\ Len(Below) = n - 1 /\ n - 1 \in Nat
           /\ \A i \in 1..(n - 1) : Below[i] = stack[i]
<1>0. PICK S : stack \in Seq(S) /\ \A t \in S : Frame(t)
    BY DEF IsStack
<1>1. n \in Nat /\ n # 0
    BY <1>0
<1>2. n - 1 \in Nat /\ n - 1 <= n
    BY <1>1
<1>3. PICK k \in Nat : k = n - 1 /\ k <= Len(stack)
    BY <1>2
<1>4. /\ SubSeq(stack, 1, k) \in Seq(S) /\ Len(SubSeq(stack, 1, k)) = k
      /\ \A i \in 1..k : SubSeq(stack, 1, k)[i] = stack[i]
    BY <1>0, <1>3
<1> QED
    BY <1>0, <1>2, <1>3, <1>4 DEF Below, IsStack

LEMMA StackPopped ==
    ASSUME IsStack(stack), NEW n, n = Len(stack), n > 1,
           NEW x, NEW st, st = Returning(x)
    PROVE  /\ IsStack(st) /\ Len(st) = n - 1 /\ n - 1 \in Nat
           /\ st[n - 1] = [stack[n - 1] EXCEPT !.vars = x]
           /\ \A i \in 1..(n - 2) : st[i] = stack[i]
<1>0. stack # <<>> /\ n \in Nat
    BY Stacks
<1>1. PICK b : b = Below /\ IsStack(b) /\ Len(b) = n - 1 /\ \A i \in 1..(n - 1) : b[i] = stack[i]
    BY <1>0, BelowTop
<1>2. PICK k \in Nat : k = n - 1 /\ k \in 1..k /\ k - 1 = n - 2 /\ \A i \in 1..(k - 1) : i \in 1..k /\ i # k
    <2>1. n - 1 \in Nat /\ n - 1 \in 1..(n - 1) /\ n - 1 - 1 = n - 2
          /\ \A i \in 1..(n - 1 - 1) : i \in 1..(n - 1) /\ i # n - 1
        BY <1>0
    <2> QED
        BY <2>1
<1>3. Frame(b[k]) /\ b[k] = stack[n - 1]
    BY <1>1, <1>2, Stacks
<1>4. PICK t : t = [b[k] EXCEPT !.vars = x]
    OBVIOUS
<1>5. Frame(t)
    BY <1>3, <1>4, Frames
<1>6. st = [b EXCEPT ![k] = t]
    BY <1>1, <1>2, <1>4 DEF Returning
<1>8. IsStack(st) /\ Len(st) = k
    <2>1. k \in 1..Len(b)
        BY <1>1, <1>2
    <2>2. IsStack([b EXCEPT ![k] = t]) /\ Len([b EXCEPT ![k] = t]) = Len(b)
        BY <1>1, <1>5, <2>1, Stacks
    <2> QED
        BY <1>1, <1>2, <1>6, <2>2
<1>9. st[k] = t /\ \A i \in 1..(k - 1) : st[i] = b[i]
    <2>1. DOMAIN b = 1..k
        BY <1>1, <1>2, Stacks
    <2> QED
        BY <1>2, <1>6, <2>1
<1>10. \A i \in 1..(k - 1) : st[i] = stack[i]
    BY <1>1, <1>2, <1>9
<1> QED
    BY <1>2, <1>3, <1>4, <1>8, <1>9, <1>10

LEMMA NextEngine == EngineInv /\ [EngineNext]_engineVars => EngineInv'
<1> SUFFICES ASSUME EngineInv, [EngineNext]_engineVars PROVE EngineInv'
    OBVIOUS
<1>0. /\ IsStack(stack) /\ ivrRun \in {"none", "running", "ended", "failed"}
      /\ (ivrRun = "running" <=> stack # <<>>) /\ \A f \in IvrFlows : Runnable(graphOf[f])
    BY DEF EngineInv
<1>1. PICK n \in Nat : n = Len(stack) /\ n <= MaxDepth /\ (stack = <<>> <=> n = 0)
    BY <1>0, Stacks DEF EngineInv
<1>2. MaxDepth \in Nat /\ MaxDepth >= 1 /\ n - 1 <= MaxDepth
    BY <1>1, EngineAssumption
<1>3. ASSUME graphOf' = graphOf, NeverLost', IsStack(stack'), Len(stack') <= MaxDepth,
             \/ ivrRun' = "running" /\ stack' # <<>>
             \/ ivrRun' \in {"ended", "failed"} /\ stack' = <<>>
      PROVE  EngineInv'
    <2>1. \A f \in IvrFlows : Runnable(graphOf'[f])
        BY <1>0, <1>3
    <2> QED
        BY <1>3, <2>1 DEF EngineInv
<1>4. ASSUME graphOf' = graphOf, NeverLost', NEW s, Frame(s), CallEnters(s) PROVE EngineInv'
    <2>1. IsStack(stack') /\ Len(stack') = 1 /\ stack' # <<>> /\ ivrRun' = "running"
        BY <1>4, SmallStacks DEF CallEnters
    <2> QED
        BY <1>2, <1>3, <1>4, <2>1
<1>5. ASSUME graphOf' = graphOf, NeverLost', NEW s, Frame(s), SessionGoesOn(s) PROVE EngineInv'
    <2>1. ivrRun = "running" /\ ivrRun' = "running" /\ n # 0 /\ stack # <<>>
        BY <1>0, <1>1, <1>5 DEF SessionGoesOn, InStep
    <2>2. IsStack(stack') /\ Len(stack') = n
        BY <1>0, <1>1, <1>5, <2>1, StackGrown DEF SessionGoesOn
    <2>3. stack' # <<>>
        BY <2>1, <2>2, Stacks
    <2> QED
        BY <1>1, <1>3, <1>5, <2>1, <2>2, <2>3
<1>6. ASSUME graphOf' = graphOf, NeverLost', NEW s, Frame(s), SessionDescends(s) PROVE EngineInv'
    <2>1. ivrRun' = "running" /\ n < MaxDepth
        BY <1>1, <1>6 DEF SessionDescends, InStep
    <2>2. IsStack(stack') /\ Len(stack') = n + 1
        BY <1>0, <1>1, <1>6, StackGrown DEF SessionDescends
    <2>3. n + 1 <= MaxDepth /\ n + 1 # 0
        BY <1>1, <1>2, <2>1
    <2>4. stack' # <<>>
        BY <2>2, <2>3, Stacks
    <2> QED
        BY <1>3, <1>6, <2>1, <2>2, <2>3, <2>4
<1>7. ASSUME graphOf' = graphOf, NeverLost', SessionLeaves PROVE EngineInv'
    <2>1. CASE n = 1 /\ stack' = <<>> /\ ivrRun' \in {"ended", "failed"}
        <3>1. IsStack(stack') /\ Len(stack') = 0
            BY <2>1, SmallStacks
        <3> QED
            BY <1>2, <1>3, <1>7, <2>1, <3>1
    <2>2. ASSUME n # 1, ivrRun' = ivrRun, NEW x, stack' = Returning(x) PROVE EngineInv'
        <3>1. ivrRun = "running" /\ n # 0
            BY <1>0, <1>1, <1>7 DEF SessionLeaves
        <3>2. n > 1 /\ n - 1 # 0
            BY <2>2, <3>1
        <3>4. IsStack(stack') /\ Len(stack') = n - 1
            BY <1>0, <1>1, <2>2, <3>2, StackPopped
        <3>5. stack' # <<>>
            BY <3>2, <3>4, Stacks
        <3> QED
            BY <1>2, <1>3, <1>7, <2>2, <3>1, <3>4, <3>5
    <2> QED
        BY <1>1, <1>7, <2>1, <2>2 DEF SessionLeaves
<1>8. CASE UNCHANGED engineVars
    BY <1>8 DEF EngineInv, NeverLost, engineVars
<1> QED
    BY <1>4, <1>5, <1>6, <1>7, <1>8, EngineMoves

-----------------------------------------------------------------------------
(***************************************************************************)
(* How much a call can visit. A frame with r steps left can still visit    *)
(* r * (1 + b) nodes, where b bounds the sub-flow each step may run. For   *)
(* every frame there is a count, not above the visits, from which this     *)
(* reckons: what remains of the frame stays within the step of the frame   *)
(* below, and within the bound of the call.                                *)
(***************************************************************************)
\* The bounds of which VisitBound is the last.
DepthBounds(b) ==
    /\ b \in [0..MaxDepth -> Nat]
    /\ b[0] = 0 /\ b[MaxDepth] = VisitBound
    /\ \A d \in 1..MaxDepth : b[d] = MaxSteps + MaxSteps * b[d - 1]

LEMMA DepthBoundsExist == \E b : DepthBounds(b)
<1> USE EngineAssumption
<1> DEFINE Recursion(b, m) == [d \in 0..m |-> IF d = 0 THEN 0 ELSE MaxSteps + MaxSteps * b[d - 1]]
           Undefined == {m \in 0..MaxDepth : ~ \E b : b = Recursion(b, m)}
<1>0. MaxDepth \in Nat /\ MaxSteps \in Nat
    OBVIOUS
<1>1. Undefined = {}
    <2> SUFFICES ASSUME Undefined # {} PROVE FALSE
        OBVIOUS
    <2>0. Undefined \in SUBSET Nat
        BY <1>0
    <2>1. PICK m \in Undefined : \A k \in Undefined : m <= k
        BY <2>0, LeastOf
    <2>2. CASE m = 0
        <3>1. [d \in 0..0 |-> 0] = Recursion([d \in 0..0 |-> 0], 0)
            OBVIOUS
        <3> QED
            BY <2>1, <2>2, <3>1
    <2>3. CASE m # 0
        <3>0. m \in 0..MaxDepth /\ m - 1 \in 0..MaxDepth /\ ~(m <= m - 1)
            BY <1>0, <2>1, <2>3
        <3>1. m - 1 \in 0..MaxDepth /\ m - 1 \notin Undefined
            <4> HIDE DEF Undefined
            <4> QED
                BY <2>1, <3>0
        <3>2. PICK b : b = Recursion(b, m - 1)
            BY <3>1
        <3>3. PICK h : h = [d \in 0..m |-> IF d = m THEN MaxSteps + MaxSteps * b[m - 1] ELSE b[d]]
            OBVIOUS
        <3>4. ASSUME NEW d \in 0..m PROVE h[d] = IF d = 0 THEN 0 ELSE MaxSteps + MaxSteps * h[d - 1]
            <4>1. CASE d = m
                <5>1. m - 1 \in 0..m /\ m - 1 # m
                    BY <1>0, <3>0, <2>3
                <5>2. h[m - 1] = b[m - 1]
                    BY <3>3, <5>1
                <5> QED
                    BY <2>3, <3>3, <4>1, <5>2
            <4>2. CASE d # m
                <5>1. d \in 0..(m - 1) /\ (d # 0 => d - 1 \in 0..m /\ d - 1 # m)
                    BY <1>0, <3>0, <4>2
                <5>2. h[d] = b[d] /\ (d # 0 => h[d - 1] = b[d - 1])
                    BY <3>3, <4>2, <5>1
                <5>3. b[d] = IF d = 0 THEN 0 ELSE MaxSteps + MaxSteps * b[d - 1]
                    BY <3>2, <5>1
                <5> QED
                    BY <5>2, <5>3
            <4> QED
                BY <4>1, <4>2
        <3>5. h = Recursion(h, m)
            BY <3>3, <3>4
        <3> QED
            BY <2>1, <3>5
    <2> QED
        BY <2>2, <2>3
<1>2. PICK b : b = Recursion(b, MaxDepth) /\ b[MaxDepth] = VisitBound
    <2>1. \E b : b = Recursion(b, MaxDepth)
        <3>1. MaxDepth \in 0..MaxDepth /\ MaxDepth \notin Undefined
            <4> HIDE DEF Undefined
            <4> QED
                BY <1>0, <1>1
        <3> QED
            BY <3>1
    <2> QED
        BY <2>1 DEF VisitBound
<1>3. b[0] = 0 /\ \A d \in 1..MaxDepth : b[d] = MaxSteps + MaxSteps * b[d - 1]
    <2>1. 0 \in 0..MaxDepth /\ \A d \in 1..MaxDepth : d \in 0..MaxDepth /\ d # 0
        BY <1>0
    <2> QED
        BY <1>2, <2>1
<1>4. \A d \in 0..MaxDepth : b[d] \in Nat
    <2> DEFINE Wrong == {d \in 0..MaxDepth : b[d] \notin Nat}
    <2> SUFFICES ASSUME Wrong # {} PROVE FALSE
        OBVIOUS
    <2>0. Wrong \in SUBSET Nat
        BY <1>0
    <2>1. PICK m \in Wrong : \A k \in Wrong : m <= k
        BY <2>0, LeastOf
    <2>2. m # 0 /\ m \in 1..MaxDepth /\ m - 1 \in 0..MaxDepth /\ ~(m <= m - 1)
        BY <1>0, <1>3, <2>1
    <2>3. b[m - 1] \in Nat
        BY <2>1, <2>2
    <2>4. b[m] = MaxSteps + MaxSteps * b[m - 1]
        BY <1>3, <2>2
    <2>5. \A n, k \in Nat : n + n * k \in Nat
        OBVIOUS
    <2> QED
        BY <1>0, <2>1, <2>3, <2>4, <2>5
<1>5. b \in [0..MaxDepth -> Nat]
    BY <1>2, <1>4
<1> QED
    BY <1>2, <1>3, <1>5 DEF DepthBounds

Left(s) == MaxSteps - s.steps
AtSubFlow(s) == NodeAt(s.graph, s.node).type = "sub_flow"
Resumed(s) == {"sub_ok", "sub_error"} \cap s.vars # {}

\* What may have been visited when frame i is over.
VisitsDue(b, at, i) == at[i] + Left(stack[i]) * (1 + b[MaxDepth - i])

FrameReckons(b, at, i) ==
    /\ VisitsDue(b, at, i) <= VisitBound
    /\ i < Len(stack) =>
          /\ stack[i].steps < MaxSteps /\ AtSubFlow(stack[i])
          /\ VisitsDue(b, at, i + 1) <= at[i] + b[MaxDepth - i]
    /\ i = Len(stack) =>
          \/ visits <= at[i]
          \/ /\ stack[i].steps < MaxSteps /\ AtSubFlow(stack[i]) /\ Resumed(stack[i])
             /\ visits <= at[i] + b[MaxDepth - i]

Reckons(b, at) == \A i \in 1..Len(stack) : FrameReckons(b, at, i)

VisitInv ==
    /\ EngineInv
    /\ visits \in Nat /\ visits <= VisitBound
    /\ ivrRun = "none" => visits = 0
    /\ \A b : DepthBounds(b) => \E at \in [1..MaxDepth -> Nat] : Reckons(b, at)

LEMMA Reckoning ==
    /\ \A a, c, r \in Nat : r >= 1 => a + (1 + c) + (r - 1) * (1 + c) = a + r * (1 + c)
    /\ \A a, c, r \in Nat : r >= 1 => a + (1 + c) <= a + r * (1 + c)
    /\ \A a, c, r \in Nat : a <= a + r * (1 + c) /\ a + r * (1 + c) \in Nat
    /\ \A m, c \in Nat : m + m * c = m * (1 + c)
<1>1. \A c, r \in Nat : r * (1 + c) \in Nat /\ (r >= 1 => (r - 1) * (1 + c) \in Nat)
    OBVIOUS
<1>2. \A c, r \in Nat : (r - 1) * (1 + c) = r * (1 + c) - (1 + c)
    OBVIOUS
<1>3. \A m, c \in Nat : m + m * c = m * (1 + c)
    OBVIOUS
<1>4. ASSUME NEW a \in Nat, NEW c \in Nat, NEW r \in Nat
      PROVE  /\ r >= 1 => a + (1 + c) + (r - 1) * (1 + c) = a + r * (1 + c)
             /\ r >= 1 => a + (1 + c) <= a + r * (1 + c)
             /\ a <= a + r * (1 + c) /\ a + r * (1 + c) \in Nat
    <2>1. PICK p \in Nat : p = r * (1 + c)
        BY <1>1
    <2>2. PICK q : q = (r - 1) * (1 + c)
        OBVIOUS
    <2>3. q = p - (1 + c) /\ (r >= 1 => q \in Nat)
        BY <1>1, <1>2, <2>1, <2>2
    <2>4. a <= a + p /\ a + p \in Nat
        BY <2>1
    <2>5. r >= 1 => a + (1 + c) + q = a + p /\ a + (1 + c) <= a + p
        BY <2>1, <2>3
    <2> QED
        BY <2>1, <2>2, <2>4, <2>5
<1> QED
    BY <1>3, <1>4

LEMMA InitVisits == EngineInit => VisitInv
<1> SUFFICES ASSUME EngineInit PROVE VisitInv
    OBVIOUS
<1>1. EngineInv /\ visits = 0 /\ stack = <<>>
    BY InitEngine DEF EngineInit
<1>2. PICK b : DepthBounds(b)
    BY DepthBoundsExist
<1>3. VisitBound \in Nat
    BY <1>2, EngineAssumption DEF DepthBounds
<1>4. ASSUME NEW c PROVE \E at \in [1..MaxDepth -> Nat] : Reckons(c, at)
    <2>1. PICK at : at = [i \in 1..MaxDepth |-> 0]
        OBVIOUS
    <2>2. at \in [1..MaxDepth -> Nat]
        BY <2>1
    <2>3. Reckons(c, at)
        BY <1>1 DEF Reckons
    <2> QED
        BY <2>2, <2>3
<1> QED
    BY <1>1, <1>3, <1>4 DEF VisitInv

LEMMA NextReckons ==
    ASSUME VisitInv, EngineInv', EngineNext, NEW b, DepthBounds(b)
    PROVE  /\ visits' \in Nat /\ visits' <= VisitBound /\ ivrRun' # "none"
           /\ \E at \in [1..MaxDepth -> Nat] : Reckons(b, at)'
<1>0. /\ IsStack(stack) /\ (ivrRun = "running" <=> stack # <<>>) /\ visits \in Nat /\ visits <= VisitBound
      /\ ivrRun = "none" => visits = 0
    BY DEF VisitInv, EngineInv
<1>1. PICK n \in Nat : n = Len(stack) /\ n <= MaxDepth /\ (stack = <<>> <=> n = 0)
    BY <1>0, Stacks DEF VisitInv, EngineInv
<1>2. PICK at \in [1..MaxDepth -> Nat] : Reckons(b, at)
    BY DEF VisitInv
<1>3. MaxDepth \in Nat \ {0} /\ MaxSteps \in Nat \ {0}
    BY EngineAssumption
<1>4. ASSUME NEW s, Frame(s) PROVE Left(s) \in Nat /\ (s.steps < MaxSteps => Left(s) >= 1) /\ s.steps \in 0..MaxSteps
    BY <1>3, <1>4 DEF Frame, Left
<1>5. ASSUME NEW i \in 1..n
      PROVE  /\ i \in 1..MaxDepth /\ MaxDepth - i \in 0..MaxDepth /\ at[i] \in Nat /\ b[MaxDepth - i] \in Nat
             /\ Frame(stack[i]) /\ Left(stack[i]) \in Nat /\ VisitsDue(b, at, i) \in Nat
             /\ FrameReckons(b, at, i)
    <2>1. i \in 1..MaxDepth /\ MaxDepth - i \in 0..MaxDepth
        BY <1>1, <1>3
    <2>2. at[i] \in Nat /\ b[MaxDepth - i] \in Nat
        BY <1>2, <2>1 DEF DepthBounds
    <2>3. Frame(stack[i])
        BY <1>0, <1>1, Stacks
    <2>4. Left(stack[i]) \in Nat
        BY <1>4, <2>3
    <2>5. VisitsDue(b, at, i) \in Nat
        BY <2>2, <2>4, Reckoning DEF VisitsDue
    <2>6. FrameReckons(b, at, i)
        BY <1>1, <1>2 DEF Reckons
    <2> QED
        BY <2>1, <2>2, <2>3, <2>4, <2>5, <2>6
<1>6. visits' \in Nat /\ visits' <= visits + 1
    <2>1. ASSUME visits' = CountVisit PROVE visits' \in Nat /\ visits' <= visits + 1
        <3>1. visits' = visits \/ visits' = visits + 1
            BY <2>1 DEF CountVisit
        <3>2. visits <= visits + 1 /\ visits + 1 \in Nat /\ visits + 1 <= visits + 1
            BY <1>0
        <3> QED
            BY <1>0, <3>1, <3>2
    <2>2. visits' = CountVisit \/ visits' = visits
        BY EngineMoves DEF VisitInv, CallEnters, SessionGoesOn, SessionDescends, SessionLeaves
    <2>3. visits \in Nat /\ visits <= visits + 1
        BY <1>0
    <2> QED
        BY <2>1, <2>2, <2>3
\* The session on top has visited what it may, and one more if it takes a step.
<1>7. ASSUME n # 0
      PROVE  /\ n \in 1..n /\ n \in 1..MaxDepth /\ TopFrame = stack[n]
             /\ visits <= VisitsDue(b, at, n)
             /\ InStep => /\ stack[n].steps < MaxSteps /\ Left(stack[n]) >= 1
                          /\ visits <= at[n] + b[MaxDepth - n] /\ visits + 1 <= at[n] + (1 + b[MaxDepth - n])
                          /\ at[n] + (1 + b[MaxDepth - n]) <= VisitsDue(b, at, n)
    <2>1. n \in 1..n /\ n \in 1..MaxDepth /\ TopFrame = stack[n]
        BY <1>1, <1>3, <1>7 DEF TopFrame
    <2>2. PICK a \in Nat : a = at[n]
        BY <1>5, <2>1
    <2>3. PICK c \in Nat : c = b[MaxDepth - n]
        BY <1>5, <2>1
    <2>4. PICK r \in Nat : r = Left(stack[n])
        BY <1>5, <2>1
    <2>5. VisitsDue(b, at, n) = a + r * (1 + c)
        BY <2>2, <2>3, <2>4 DEF VisitsDue
    <2>6. stack[n].steps < MaxSteps => r >= 1
        BY <1>4, <1>5, <2>1, <2>4
    <2>7. visits <= a \/ (stack[n].steps < MaxSteps /\ visits <= a + c)
        BY <1>1, <1>5, <2>1, <2>2, <2>3 DEF FrameReckons
    <2>8. visits <= a + c /\ visits + 1 <= a + (1 + c)
        BY <1>0, <2>7
    <2>9. (r >= 1 => a + (1 + c) <= a + r * (1 + c)) /\ a <= a + r * (1 + c) /\ a + r * (1 + c) \in Nat
        BY Reckoning
    <2>10. visits <= a + r * (1 + c)
        <3>1. PICK p \in Nat : p = a + r * (1 + c)
            BY <2>9
        <3> QED
            BY <1>0, <2>6, <2>7, <2>8, <2>9, <3>1
    <2>11. InStep => stack[n].steps < MaxSteps
        BY <2>1 DEF InStep
    <2>12. visits <= VisitsDue(b, at, n)
        BY <2>5, <2>10
    <2>13. ASSUME InStep
           PROVE  /\ stack[n].steps < MaxSteps /\ Left(stack[n]) >= 1
                  /\ visits <= at[n] + b[MaxDepth - n] /\ visits + 1 <= at[n] + (1 + b[MaxDepth - n])
                  /\ at[n] + (1 + b[MaxDepth - n]) <= VisitsDue(b, at, n)
        <3>1. stack[n].steps < MaxSteps /\ r >= 1
            BY <2>6, <2>11, <2>13
        <3>2. a + (1 + c) <= a + r * (1 + c)
            BY <2>9, <3>1
        <3>3. a + (1 + c) <= VisitsDue(b, at, n)
            BY <2>5, <3>2
        <3> QED
            BY <2>2, <2>3, <2>4, <2>8, <3>1, <3>3
    <2> QED
        BY <2>1, <2>12, <2>13, Zenon
\* The call enters its flow.
<1>8. ASSUME NEW s, Frame(s), CallEnters(s)
      PROVE  visits' <= VisitBound /\ ivrRun' # "none" /\ \E t \in [1..MaxDepth -> Nat] : Reckons(b, t)'
    <2>1. PICK t : t = [i \in 1..MaxDepth |-> 0]
        OBVIOUS
    <2>2. t \in [1..MaxDepth -> Nat] /\ t[1] = 0
        BY <1>3, <2>1
    <2>3. stack' = <<s>> /\ s.steps = 0 /\ visits' = 0 /\ ivrRun' = "running" /\ visits' = visits
        BY <1>0, <1>8 DEF CallEnters
    <2>4. Len(stack') = 1 /\ stack'[1] = s
        BY <2>3
    <2>5. PICK c \in Nat : c = b[MaxDepth - 1] /\ VisitBound = MaxSteps + MaxSteps * c
        <3>1. MaxDepth - 1 \in 0..MaxDepth /\ MaxDepth \in 1..MaxDepth
            BY <1>3
        <3> QED
            BY <3>1 DEF DepthBounds
    <2>6. Left(s) = MaxSteps
        BY <1>3, <2>3 DEF Left
    <2>7. 0 + MaxSteps * (1 + c) = VisitBound /\ VisitBound \in Nat
        BY <1>3, <2>5, Reckoning
    <2>8. VisitsDue(b, t, 1)' = VisitBound
        BY <2>2, <2>4, <2>5, <2>6, <2>7 DEF VisitsDue
    <2>9. FrameReckons(b, t, 1)'
        BY <2>2, <2>3, <2>4, <2>7, <2>8 DEF FrameReckons
    <2>10. Reckons(b, t)'
        BY <2>4, <2>9 DEF Reckons
    <2> QED
        BY <1>0, <2>2, <2>3, <2>10
\* The session on top goes on.
<1>9. ASSUME NEW s, Frame(s), SessionGoesOn(s)
      PROVE  visits' <= VisitBound /\ ivrRun' # "none" /\ \E t \in [1..MaxDepth -> Nat] : Reckons(b, t)'
    <2>0. InStep /\ ivrRun = "running" /\ n # 0 /\ n \in 1..n /\ stack # <<>>
        BY <1>0, <1>1, <1>7, <1>9 DEF SessionGoesOn, InStep
    <2>1. PICK a \in Nat : a = at[n] + (1 + b[MaxDepth - n])
        <3>1. PICK d \in Nat : d = at[n]
            BY <1>5, <2>0
        <3>2. PICK c \in Nat : c = b[MaxDepth - n]
            BY <1>5, <2>0
        <3>3. d + (1 + c) \in Nat
            BY Reckoning
        <3> QED
            BY <3>1, <3>2, <3>3
    <2>2. PICK t : t = [at EXCEPT ![n] = a]
        OBVIOUS
    <2>3. t \in [1..MaxDepth -> Nat] /\ t[n] = a /\ \A i \in 1..n : i # n => t[i] = at[i]
        BY <1>2, <1>5, <1>7, <2>0, <2>2
    <2>4. Len(stack') = n /\ stack'[n] = s /\ \A i \in 1..(n - 1) : stack'[i] = stack[i]
        BY <1>0, <1>1, <1>9, <2>0, StackGrown DEF SessionGoesOn
    <2>5. visits' <= a
        BY <1>0, <1>6, <1>7, <2>0, <2>1
    <2>6. VisitsDue(b, t, n)' = VisitsDue(b, at, n)
        <3>1. PICK d \in Nat : d = at[n]
            BY <1>5, <2>0
        <3>2. PICK c \in Nat : c = b[MaxDepth - n]
            BY <1>5, <2>0
        <3>3. PICK r \in Nat : r = Left(stack[n]) /\ r >= 1
            BY <1>5, <1>7, <2>0
        <3>4. s.steps = stack[n].steps + 1
            BY <1>7, <1>9, <2>0 DEF SessionGoesOn
        <3>5. Left(s) = r - 1
            <4>1. stack[n].steps \in Int
                BY <1>4, <1>5, <2>0
            <4> QED
                BY <1>3, <3>3, <3>4, <4>1 DEF Left
        <3>6. d + (1 + c) + (r - 1) * (1 + c) = d + r * (1 + c)
            BY <3>3, Reckoning
        <3> QED
            BY <2>1, <2>3, <2>4, <3>1, <3>2, <3>3, <3>5, <3>6 DEF VisitsDue
    <2>7. \A i \in 1..(n - 1) : i \in 1..n /\ i # n /\ i + 1 \in 1..n
        BY <1>1
    <2>8. \A i \in 1..n : VisitsDue(b, t, i)' = VisitsDue(b, at, i)
        <3>1. \A i \in 1..n : i # n => i \in 1..(n - 1)
            BY <1>1
        <3> QED
            BY <2>3, <2>4, <2>6, <3>1 DEF VisitsDue
    <2>9. ASSUME NEW i \in 1..n PROVE FrameReckons(b, t, i)'
        <3>1. CASE i = n
            BY <1>1, <1>5, <2>3, <2>4, <2>5, <2>8, <3>1 DEF FrameReckons
        <3>2. CASE i # n
            <4>1. i \in 1..(n - 1) /\ i < n
                BY <1>1, <3>2
            <4>2. /\ stack[i].steps < MaxSteps /\ AtSubFlow(stack[i])
                  /\ VisitsDue(b, at, i + 1) <= at[i] + b[MaxDepth - i] /\ VisitsDue(b, at, i) <= VisitBound
                BY <1>1, <1>5, <4>1 DEF FrameReckons
            <4>3. VisitsDue(b, t, i + 1)' = VisitsDue(b, at, i + 1) /\ VisitsDue(b, t, i)' = VisitsDue(b, at, i) /\ t[i] = at[i]
                BY <2>3, <2>7, <2>8, <4>1
            <4>4. stack'[i] = stack[i]
                BY <2>4, <4>1
            <4> QED
                BY <2>4, <3>2, <4>2, <4>3, <4>4 DEF FrameReckons, AtSubFlow
        <3> QED
            BY <3>1, <3>2
    <2>10. Reckons(b, t)'
        BY <2>4, <2>9 DEF Reckons
    <2>11. visits' <= VisitBound
        <3>1. a <= VisitsDue(b, at, n) /\ VisitsDue(b, at, n) <= VisitBound /\ VisitsDue(b, at, n) \in Nat
            BY <1>5, <1>7, <2>0, <2>1 DEF FrameReckons
        <3>2. VisitBound \in Nat
            BY <1>3 DEF DepthBounds
        <3> QED
            BY <1>6, <2>5, <3>1, <3>2
    <2> QED
        BY <1>9, <2>0, <2>3, <2>10, <2>11 DEF SessionGoesOn
\* A sub-flow begins.
<1>10. ASSUME NEW s, Frame(s), SessionDescends(s)
       PROVE  visits' <= VisitBound /\ ivrRun' # "none" /\ \E t \in [1..MaxDepth -> Nat] : Reckons(b, t)'
    <2>0. InStep /\ ivrRun = "running" /\ n # 0 /\ n \in 1..n /\ n < MaxDepth
        BY <1>0, <1>1, <1>7, <1>10 DEF SessionDescends, InStep
    <2>1. n + 1 \in 1..MaxDepth /\ MaxDepth - n \in 1..MaxDepth /\ MaxDepth - (n + 1) = MaxDepth - n - 1
          /\ MaxDepth - (n + 1) \in 0..MaxDepth
        BY <1>1, <1>3, <2>0
    <2>2. PICK t : t = [at EXCEPT ![n + 1] = visits]
        OBVIOUS
    <2>3. t \in [1..MaxDepth -> Nat] /\ t[n + 1] = visits /\ \A i \in 1..n : t[i] = at[i]
        <3>1. \A i \in 1..n : i # n + 1 /\ i \in 1..MaxDepth
            BY <1>1, <1>3
        <3> QED
            BY <1>0, <1>2, <2>1, <2>2, <3>1
    <2>4. Len(stack') = n + 1 /\ stack'[n + 1] = s /\ \A i \in 1..n : stack'[i] = stack[i]
        BY <1>0, <1>1, <1>10, StackGrown DEF SessionDescends
    <2>5. visits' = visits /\ s.steps = 0 /\ AtSubFlow(stack[n]) /\ ~Resumed(stack[n])
        BY <1>7, <1>10, <2>0 DEF SessionDescends, Current, Returned, AtSubFlow, Resumed
    <2>6. PICK c \in Nat : c = b[MaxDepth - (n + 1)] /\ b[MaxDepth - n] = MaxSteps + MaxSteps * c
        BY <2>1 DEF DepthBounds
    <2>7. Left(s) = MaxSteps
        BY <1>3, <2>5 DEF Left
    <2>8. VisitsDue(b, t, n + 1)' = visits + b[MaxDepth - n]
        <3>1. MaxSteps + MaxSteps * c = MaxSteps * (1 + c)
            BY <1>3, Reckoning
        <3> QED
            BY <2>3, <2>4, <2>6, <2>7, <3>1 DEF VisitsDue
    <2>9. visits <= at[n]
        BY <1>1, <1>5, <2>0, <2>5 DEF FrameReckons
    <2>10. \A i \in 1..n : VisitsDue(b, t, i)' = VisitsDue(b, at, i)
        BY <2>3, <2>4 DEF VisitsDue
    <2>11. VisitBound \in Nat
        BY <1>3 DEF DepthBounds
    <2>12. VisitsDue(b, t, n + 1)' <= at[n] + b[MaxDepth - n] /\ VisitsDue(b, t, n + 1)' <= VisitBound
        <3>1. PICK a \in Nat : a = at[n]
            BY <1>5, <2>0
        <3>2. PICK d \in Nat : d = b[MaxDepth - n]
            BY <1>5, <2>0
        <3>3. PICK q \in Nat : q = VisitsDue(b, at, n) /\ a + (1 + d) <= q /\ q <= VisitBound
            BY <1>5, <1>7, <2>0, <3>1, <3>2 DEF FrameReckons
        <3>4. visits + d <= a + d /\ visits + d <= VisitBound
            BY <1>0, <2>9, <2>11, <3>1, <3>3
        <3> QED
            BY <2>8, <3>1, <3>2, <3>4
    <2>13. ASSUME NEW i \in 1..(n + 1) PROVE FrameReckons(b, t, i)'
        <3>1. CASE i = n + 1
            <4>1. ~(i < n + 1) /\ visits' <= t[i]
                BY <1>0, <1>1, <2>3, <2>5, <3>1
            <4> QED
                BY <2>4, <2>12, <3>1, <4>1 DEF FrameReckons
        <3>2. CASE i = n
            <4>1. stack[i].steps < MaxSteps /\ AtSubFlow(stack[i]) /\ stack'[i] = stack[i] /\ t[i] = at[i]
                BY <1>7, <2>0, <2>3, <2>4, <2>5, <3>2
            <4>2. VisitsDue(b, t, i)' <= VisitBound /\ VisitsDue(b, t, i + 1)' <= at[i] + b[MaxDepth - i]
                BY <1>5, <2>0, <2>10, <2>12, <3>2 DEF FrameReckons
            <4>3. i # n + 1
                BY <1>1, <3>2
            <4> QED
                BY <2>4, <4>1, <4>2, <4>3 DEF FrameReckons, AtSubFlow
        <3>3. CASE i # n + 1 /\ i # n
            <4>1. i \in 1..n /\ i + 1 \in 1..n /\ i < n
                BY <1>1, <3>3
            <4>2. /\ stack[i].steps < MaxSteps /\ AtSubFlow(stack[i])
                  /\ VisitsDue(b, at, i + 1) <= at[i] + b[MaxDepth - i] /\ VisitsDue(b, at, i) <= VisitBound
                BY <1>1, <1>5, <4>1 DEF FrameReckons
            <4>3. VisitsDue(b, t, i + 1)' = VisitsDue(b, at, i + 1) /\ VisitsDue(b, t, i)' = VisitsDue(b, at, i) /\ t[i] = at[i]
                BY <2>3, <2>10, <4>1
            <4>4. stack'[i] = stack[i]
                BY <2>4, <4>1
            <4> QED
                BY <2>4, <3>3, <4>2, <4>3, <4>4 DEF FrameReckons, AtSubFlow
        <3> QED
            BY <3>1, <3>2, <3>3
    <2>14. Reckons(b, t)'
        BY <2>4, <2>13 DEF Reckons
    <2> QED
        BY <1>0, <1>10, <2>0, <2>3, <2>5, <2>14 DEF SessionDescends
\* The session on top ends: the one below is resumed, or the call is over.
<1>11. ASSUME SessionLeaves
       PROVE  visits' <= VisitBound /\ ivrRun' # "none" /\ \E t \in [1..MaxDepth -> Nat] : Reckons(b, t)'
    <2>0. ivrRun = "running" /\ n # 0 /\ n \in 1..n
        BY <1>0, <1>1, <1>7, <1>11 DEF SessionLeaves
    <2>1. PICK q \in Nat : q = VisitsDue(b, at, n) /\ q <= VisitBound
        BY <1>5, <2>0 DEF FrameReckons
    <2>2. visits' <= q
        <3>1. CASE InStep
            <4>1. PICK v \in Nat : v = at[n] + (1 + b[MaxDepth - n])
                <5>1. PICK d \in Nat : d = at[n]
                    BY <1>5, <2>0
                <5>2. PICK c \in Nat : c = b[MaxDepth - n]
                    BY <1>5, <2>0
                <5>3. d + (1 + c) \in Nat
                    BY Reckoning
                <5> QED
                    BY <5>1, <5>2, <5>3
            <4>2. visits + 1 <= v /\ v <= q
                BY <1>7, <2>0, <2>1, <3>1, <4>1
            <4> QED
                BY <1>0, <1>6, <2>1, <4>1, <4>2
        <3>2. CASE visits' = visits
            BY <1>7, <2>0, <2>1, <3>2
        <3> QED
            BY <1>11, <3>1, <3>2 DEF SessionLeaves
    <2>3. visits' <= VisitBound
        <3>1. VisitBound \in Nat
            BY <1>3 DEF DepthBounds
        <3> QED
            BY <1>6, <2>1, <2>2, <3>1
    <2>4. CASE stack' = <<>> /\ ivrRun' \in {"ended", "failed"}
        <3>1. Reckons(b, at)'
            BY <2>4 DEF Reckons
        <3> QED
            BY <1>2, <2>3, <2>4, <3>1
    <2>5. ASSUME n # 1, ivrRun' = ivrRun, NEW x, x \cap {"sub_ok", "sub_error"} # {}, stack' = Returning(x)
          PROVE  Reckons(b, at)'
        <3>1. n > 1 /\ n - 1 \in 1..n /\ n - 1 + 1 = n /\ n - 1 < n /\ \A i \in 1..(n - 1) : i \in 1..n /\ i < n
            BY <2>0, <2>5
        <3>2. /\ Len(stack') = n - 1 /\ stack'[n - 1] = [stack[n - 1] EXCEPT !.vars = x]
              /\ \A i \in 1..(n - 2) : stack'[i] = stack[i]
            BY <1>0, <1>1, <2>5, <3>1, StackPopped
        <3>3. PICK s : s = stack[n - 1] /\ Frame(s)
            BY <1>5, <3>1
        <3>4. PICK u : u = stack'[n - 1] /\ u.graph = s.graph /\ u.node = s.node /\ u.steps = s.steps /\ u.vars = x
            <4>1. PICK g, d, k, w : s = [graph |-> g, node |-> d, steps |-> k, vars |-> w]
                BY <3>3 DEF Frame
            <4>2. stack'[n - 1] = [s EXCEPT !.vars = x]
                BY <3>2, <3>3
            <4> QED
                BY <4>1, <4>2
        <3>5. \A i \in 1..(n - 1) : i # n - 1 => i \in 1..(n - 2) /\ i + 1 \in 1..(n - 1)
            BY <1>1
        <3>6. \A i \in 1..(n - 1) : VisitsDue(b, at, i)' = VisitsDue(b, at, i)
            <4>1. VisitsDue(b, at, n - 1)' = VisitsDue(b, at, n - 1)
                BY <3>3, <3>4 DEF VisitsDue, Left
            <4> QED
                BY <3>2, <3>5, <4>1 DEF VisitsDue
        <3>7. ASSUME NEW i \in 1..(n - 1) PROVE FrameReckons(b, at, i)'
            <4>1. /\ stack[i].steps < MaxSteps /\ AtSubFlow(stack[i])
                  /\ VisitsDue(b, at, i + 1) <= at[i] + b[MaxDepth - i] /\ VisitsDue(b, at, i) <= VisitBound
                BY <1>1, <1>5, <3>1 DEF FrameReckons
            <4>2. CASE i = n - 1
                <5>1. u.steps < MaxSteps /\ AtSubFlow(u) /\ Resumed(u)
                    BY <2>5, <3>3, <3>4, <4>1, <4>2 DEF AtSubFlow, Resumed
                <5>2. visits' <= at[i] + b[MaxDepth - i]
                    <6>1. at[i] + b[MaxDepth - i] \in Nat /\ q <= at[i] + b[MaxDepth - i]
                        BY <1>5, <2>1, <3>1, <4>1, <4>2
                    <6> QED
                        BY <1>6, <2>1, <2>2, <6>1
                <5>3. ~(i < n - 1) /\ VisitsDue(b, at, i)' <= VisitBound
                    BY <3>6, <4>1, <4>2
                <5> QED
                    BY <3>2, <3>4, <4>2, <5>1, <5>2, <5>3 DEF FrameReckons, AtSubFlow, Resumed
            <4>3. CASE i # n - 1
                <5>1. stack'[i] = stack[i] /\ i + 1 \in 1..(n - 1)
                    BY <3>2, <3>5, <4>3
                <5>2. VisitsDue(b, at, i + 1)' = VisitsDue(b, at, i + 1) /\ VisitsDue(b, at, i)' = VisitsDue(b, at, i)
                    BY <3>6, <5>1
                <5> QED
                    BY <3>2, <4>1, <4>3, <5>1, <5>2 DEF FrameReckons, AtSubFlow
            <4> QED
                BY <4>2, <4>3
        <3> QED
            BY <3>2, <3>7 DEF Reckons
    <2> QED
        BY <1>1, <1>2, <1>11, <2>0, <2>3, <2>4, <2>5 DEF SessionLeaves
<1> QED
    BY <1>6, <1>8, <1>9, <1>10, <1>11, EngineMoves DEF VisitInv

LEMMA NextVisits == VisitInv /\ [EngineNext]_engineVars => VisitInv'
<1> SUFFICES ASSUME VisitInv, [EngineNext]_engineVars PROVE VisitInv'
    OBVIOUS
<1>1. EngineInv'
    BY NextEngine DEF VisitInv
<1>2. CASE EngineNext
    <2>1. visits' \in Nat /\ visits' <= VisitBound /\ ivrRun' # "none"
        BY <1>1, <1>2, DepthBoundsExist, NextReckons
    <2>2. ASSUME NEW b, DepthBounds(b) PROVE \E at \in [1..MaxDepth -> Nat] : Reckons(b, at)'
        BY <1>1, <1>2, <2>2, NextReckons
    <2> QED
        BY <1>1, <2>1, <2>2 DEF VisitInv
<1>3. CASE UNCHANGED engineVars
    <2>1. UNCHANGED <<graphOf, stack, ivrRun, ivrError, visits>>
        BY <1>3 DEF engineVars
    <2>2. ASSUME NEW b, NEW at, Reckons(b, at) PROVE Reckons(b, at)'
        BY <2>1, <2>2 DEF Reckons, FrameReckons, VisitsDue
    <2> QED
        BY <1>1, <2>1, <2>2 DEF VisitInv
<1> QED
    BY <1>2, <1>3

-----------------------------------------------------------------------------
(* FlowInv holds in every reachable state: whatever editors write over each  *)
(* other, every graph that is stored, copied or recorded has been validated. *)
THEOREM FlowInvariant == ServicesSpec => []FlowInv
<1>1. ServicesInit => FlowInv
    BY InitFlow DEF ServicesInit
<1>2. [ServicesNext]_servicesVars => [FlowNext]_flowVars
    BY DEF ServicesNext, servicesVars
<1>3. FlowInv /\ [ServicesNext]_servicesVars => FlowInv'
    BY <1>2, NextFlow
<1> QED
    BY <1>1, <1>3, PTL DEF ServicesSpec

(* VisitInv holds in every reachable state: the engine's sessions are at     *)
(* nodes of validated graphs, and what they have visited stays within what   *)
(* their depth and their steps allow.                                        *)
THEOREM EngineInvariant == ServicesSpec => []VisitInv
<1>1. ServicesInit => VisitInv
    BY InitVisits DEF ServicesInit
<1>2. [ServicesNext]_servicesVars => [EngineNext]_engineVars
    BY DEF ServicesNext, servicesVars
<1>3. VisitInv /\ [ServicesNext]_servicesVars => VisitInv'
    BY <1>2, NextVisits
<1> QED
    BY <1>1, <1>3, PTL DEF ServicesSpec

(* What the group FlowsSafe asks for, in every reachable state: flows that   *)
(* are stored can be run, the validator accepts exactly those, what is       *)
(* published can be restored, and a caller is neither lost in a flow nor     *)
(* kept in it beyond the bound of visits.                                    *)
THEOREM FlowsAreSafe == ServicesSpec => []FlowsSafe
<1>0. \A g \in Graphs : IsSeq(g)
    BY FlowAssumption DEF IsSeq
<1>1. ValidatorExact
    BY <1>0, ValidatedIsWellFormed, WellFormedIsValidated DEF ValidatorExact
<1>2. FlowInv => FlowTypeOK /\ StoredGraphsWellFormed /\ PublishedIsRecorded
    <2> SUFFICES ASSUME FlowInv PROVE FlowTypeOK /\ StoredGraphsWellFormed /\ PublishedIsRecorded
        OBVIOUS
    <2>1. FlowTypeOK
        BY DEF FlowInv, FlowTypeOK
    <2>2. ASSUME NEW f \in Ids(flows) PROVE WellFormed(flows[f].graph)
        <3>1. flows[f] \in FlowRow /\ ValidateGraph(flows[f].graph)
            BY <2>2, FlowFacts DEF RowOK, GoodRow
        <3>2. flows[f].graph \in Graphs
            BY <3>1 DEF FlowRow
        <3> QED
            BY <1>0, <3>1, <3>2, ValidatedIsWellFormed
    <2>3. PublishedIsRecorded
        BY FlowFacts DEF PublishedIsRecorded, RowOK, InHistory, Version
    <2> QED
        BY <2>1, <2>2, <2>3 DEF StoredGraphsWellFormed
<1>3. VisitInv => EngineTypeOK /\ NeverLost /\ VisitsBounded
    <2> SUFFICES ASSUME VisitInv PROVE EngineTypeOK /\ NeverLost /\ VisitsBounded
        OBVIOUS
    <2>1. EngineInv /\ VisitsBounded
        BY DEF VisitInv, VisitsBounded
    <2>2. Len(stack) \in 0..MaxDepth
        BY <2>1, Stacks, EngineAssumption DEF EngineInv
    <2>3. \A i \in DOMAIN stack : stack[i].steps \in 0..MaxSteps
        BY <2>1, Stacks DEF EngineInv, Frame
    <2> QED
        BY <2>1, <2>2, <2>3 DEF EngineInv, EngineTypeOK
<1>4. FlowInv /\ VisitInv => FlowsSafe
    BY <1>1, <1>2, <1>3 DEF FlowsSafe
<1> QED
    BY <1>4, FlowInvariant, EngineInvariant, PTL
=============================================================================
