------------------------------ MODULE IvrFlow ------------------------------
(***************************************************************************)
(* IVR flows (domain/routing): the graph of a flow and its validation, and *)
(* the editor's requests: create, clone, lock, publish, roll back. A       *)
(* request reads the row of the flow and later writes all its columns,     *)
(* except one: IVRFlowRepo.Update does not name lock_expires_at, so the    *)
(* time Lock sets is never stored and the row always reads NULL there.     *)
(***************************************************************************)
EXTENDS Tenancy, Sequences

CONSTANTS
    Flows,        \* ids of flows
    Codes,        \* codes of flows
    Graphs,       \* graphs that requests bring, valid or not
    NodeTypes,    \* AllNodeTypes
    Editors,      \* users, one request each at a time
    NoUser,       \* locked_by NULL
    MaxFlowEdits  \* bound: requests

\* A graph is a sequence of nodes [id, type, exits, ...]; exits maps the names
\* of exits to ids of nodes.
FlowRow == [tenant : Tenants, code : Codes, version : 1..(MaxFlowEdits + 1), graph : Graphs,
            status : {"draft", "published"}, lockedBy : Editors \cup {NoUser}]

ASSUME FlowAssumption ==
    /\ \A g \in Graphs : Len(g) \in Nat /\ DOMAIN g = 1..Len(g)
    /\ {"start", "end"} \subseteq NodeTypes
    /\ NoUser \notin Editors /\ NoRow \notin FlowRow
    /\ MaxFlowEdits \in Nat

VARIABLES
    flows,        \* ivr_flows
    flowVersions, \* ivr_flow_versions: flow, version, graph
    flowReqs,     \* what each editor's request is doing
    unrecorded,   \* versions whose row could not be written (history)
    flowEdits

flowVars == <<flows, flowVersions, flowReqs, unrecorded, flowEdits>>

-----------------------------------------------------------------------------
NodesOf(g) == {g[i].id : i \in DOMAIN g}
Targets(node) == {node.exits[x] : x \in DOMAIN node.exits}
OfType(g, type) == {i \in DOMAIN g : g[i].type = type}

\* The BFS: what is reached in k rounds. The exits of an id are those of the
\* first node that has it.
FirstWith(g, id) == g[CHOOSE i \in DOMAIN g : g[i].id = id /\ \A j \in 1..(i - 1) : g[j].id # id]
Reached(g, start) ==
    LET round[k \in 0..Len(g)] ==
            IF k = 0 THEN {start}
            ELSE round[k - 1] \cup UNION {Targets(FirstWith(g, id)) : id \in round[k - 1]}
    IN  round[Len(g)]

\* Mutant: what cannot be reached is not noticed.
MutantValidateReach(g) ==
    /\ \A i \in DOMAIN g : g[i].type \in NodeTypes /\ Targets(g[i]) \subseteq NodesOf(g)
    /\ Cardinality(OfType(g, "start")) = 1
    /\ OfType(g, "end") # {}

\* Mutant: the targets of exits are not checked.
MutantValidateTargets(g) ==
    /\ \A i \in DOMAIN g : g[i].type \in NodeTypes
    /\ Cardinality(OfType(g, "start")) = 1
    /\ OfType(g, "end") # {}

ValidateGraph(g) ==
    /\ \A i \in DOMAIN g : g[i].type \in NodeTypes
    /\ Cardinality(OfType(g, "start")) = 1
    /\ OfType(g, "end") # {}
    /\ \A i \in DOMAIN g : Targets(g[i]) \subseteq NodesOf(g)
    /\ LET start == CHOOSE i \in OfType(g, "start") : TRUE
       IN  Cardinality(Reached(g, g[start].id)) = Len(g)

-----------------------------------------------------------------------------
NoFlowReq == [at |-> "idle", op |-> "none", id |-> NoRow, copy |-> NoRow, graph |-> <<>>]

FlowInit ==
    /\ flows = [f \in Flows |-> NoRow]
    /\ flowVersions = {}
    /\ flowReqs = [u \in Editors |-> NoFlowReq]
    /\ unrecorded = {}
    /\ flowEdits = 0

FlowEdit(u) == /\ flowReqs[u].at = "idle"
               /\ flowEdits < MaxFlowEdits
               /\ flowEdits' = flowEdits + 1
FlowReq(u, new) == flowReqs' = [flowReqs EXCEPT ![u] = new]
editVars == <<flowVersions, unrecorded>>

CodeTaken(t, c) == \E f \in Ids(flows) : flows[f].tenant = t /\ flows[f].code = c
NewFlow(t, c, g) == [tenant |-> t, code |-> c, version |-> 1, graph |-> g,
                     status |-> "draft", lockedBy |-> NoUser]

\* Mutant: the graph is only validated when it is published.
MutantCreateFlow(u, t, c, g) ==
    /\ FlowEdit(u)
    /\ ~CodeTaken(t, c)
    /\ FlowReq(u, [NoFlowReq EXCEPT !.at = "insert", !.copy = NewFlow(t, c, g)])
    /\ UNCHANGED <<flows, editVars>>

\* Create: the code is looked up, the graph validated,
CreateFlow(u, t, c, g) ==
    /\ FlowEdit(u)
    /\ ~CodeTaken(t, c)
    /\ ValidateGraph(g)
    /\ FlowReq(u, [NoFlowReq EXCEPT !.at = "insert", !.copy = NewFlow(t, c, g)])
    /\ UNCHANGED <<flows, editVars>>
\* Clone: the same for a copy of a flow, which is a draft of version 1 again,
CloneFlow(u, f, c) ==
    /\ FlowEdit(u)
    /\ f \in Ids(flows) /\ ~CodeTaken(flows[f].tenant, c)
    /\ FlowReq(u, [NoFlowReq EXCEPT !.at = "insert", !.copy = NewFlow(flows[f].tenant, c, flows[f].graph)])
    /\ UNCHANGED <<flows, editVars>>
\* and the INSERT, which the unique key (tenant, code, version) may refuse.
Clash(row) == \E f \in Ids(flows) : /\ flows[f].tenant = row.tenant /\ flows[f].code = row.code
                                    /\ flows[f].version = row.version
InsertFlow(u, f) ==
    LET row == flowReqs[u].copy IN
    /\ flowReqs[u].at = "insert" /\ flows[f] = NoRow
    /\ flows' = IF Clash(row) THEN flows ELSE Inserted(flows, f, row)
    /\ FlowReq(u, NoFlowReq)
    /\ UNCHANGED <<editVars, flowEdits>>

\* The requests on a flow: each reads the row,
ReadFlow(u, f, op) ==
    /\ FlowEdit(u)
    /\ f \in Ids(flows)
    /\ FlowReq(u, [NoFlowReq EXCEPT !.at = "write", !.op = op, !.id = f, !.copy = flows[f]])

\* Lock: of a flow that nobody else has locked. The expiry it looks at is NULL,
\* so that a lock of somebody else always counts.
Lock(u, f) ==
    /\ ReadFlow(u, f, "lock")
    /\ flows[f].lockedBy \in {u, NoUser}
    /\ UNCHANGED <<flows, editVars>>
Unlock(u, f) ==
    /\ ReadFlow(u, f, "unlock")
    /\ flows[f].lockedBy = u
    /\ UNCHANGED <<flows, editVars>>
\* Publish and Rollback do not ask for the lock.
Publish(u, f) ==
    /\ ReadFlow(u, f, "publish")
    /\ flows[f].status = "draft"
    /\ ValidateGraph(flows[f].graph)
    /\ UNCHANGED <<flows, editVars>>
Rollback(u, f, v) ==
    /\ FlowEdit(u)
    /\ f \in Ids(flows) /\ v \in flowVersions /\ v.flow = f
    /\ FlowReq(u, [NoFlowReq EXCEPT !.at = "write", !.op = "rollback", !.id = f, !.copy = flows[f],
                                    !.graph = v.graph])
    /\ UNCHANGED <<flows, editVars>>

\* Mutant: the intermediate status is left in the row.
MutantChanged(u) == [flowReqs[u].copy EXCEPT !.status = "publishing"]

Changed(u) ==
    LET q == flowReqs[u] IN
    CASE q.op = "lock"     -> [q.copy EXCEPT !.lockedBy = u]
      [] q.op = "unlock"   -> [q.copy EXCEPT !.lockedBy = NoUser]
      [] q.op = "publish"  -> [q.copy EXCEPT !.status = "published", !.version = @ + 1]
      [] q.op = "rollback" -> [q.copy EXCEPT !.status = "draft", !.graph = q.graph]

\* and writes its copy back; Publish then records the version.
UpdateFlow(u) ==
    LET q == flowReqs[u]
        row == Changed(u)
        clash == \E f \in Ids(flows) \ {q.id} : /\ flows[f].tenant = row.tenant
                                                /\ flows[f].code = row.code
                                                /\ flows[f].version = row.version
    IN  /\ q.at = "write"
        /\ flows' = IF clash THEN flows ELSE Updated(flows, q.id, row)
        /\ FlowReq(u, IF q.op = "publish" /\ ~clash
                      THEN [q EXCEPT !.at = "record", !.copy = row] ELSE NoFlowReq)
        /\ UNCHANGED <<flowVersions, unrecorded, flowEdits>>

VersionOf(u) == [flow |-> flowReqs[u].id, version |-> flowReqs[u].copy.version,
                 graph |-> flowReqs[u].copy.graph]

\* Mutant: the version before this one is recorded.
MutantRecordVersion(u) ==
    /\ flowReqs[u].at = "record"
    /\ flowVersions' = flowVersions \cup {[VersionOf(u) EXCEPT !.version = @ - 1]}
    /\ FlowReq(u, NoFlowReq)
    /\ UNCHANGED <<flows, unrecorded, flowEdits>>

RecordVersion(u) ==
    /\ flowReqs[u].at = "record"
    /\ flowVersions' = flowVersions \cup {VersionOf(u)}
    /\ FlowReq(u, NoFlowReq)
    /\ UNCHANGED <<flows, unrecorded, flowEdits>>
\* The error of this INSERT is ignored.
RecordFails(u) ==
    /\ flowReqs[u].at = "record"
    /\ unrecorded' = unrecorded \cup {VersionOf(u)}
    /\ FlowReq(u, NoFlowReq)
    /\ UNCHANGED <<flows, flowVersions, flowEdits>>

FlowNext ==
    \/ \E u \in Editors, f \in Flows :
          \/ InsertFlow(u, f) \/ Lock(u, f) \/ Unlock(u, f) \/ Publish(u, f)
          \/ \E c \in Codes : CloneFlow(u, f, c)
          \/ \E v \in flowVersions : Rollback(u, f, v)
    \/ \E u \in Editors, t \in Tenants, c \in Codes, g \in Graphs : CreateFlow(u, t, c, g)
    \/ \E u \in Editors : UpdateFlow(u) \/ RecordVersion(u) \/ RecordFails(u)

FlowSpec == FlowInit /\ [][FlowNext]_flowVars

-----------------------------------------------------------------------------
FlowTypeOK ==
    /\ flows \in [Flows -> FlowRow \cup {NoRow}]
    /\ \A v \in flowVersions \cup unrecorded : v.flow \in Flows /\ v.graph \in Graphs
    /\ flowEdits \in 0..MaxFlowEdits

WellFormed(g) ==
    /\ \A i, j \in DOMAIN g : g[i].id = g[j].id => i = j
    /\ \A i \in DOMAIN g : g[i].type \in NodeTypes /\ Targets(g[i]) \subseteq NodesOf(g)
    /\ Cardinality(OfType(g, "start")) = 1 /\ OfType(g, "end") # {}
    /\ \A set \in SUBSET DOMAIN g :
          /\ OfType(g, "start") \subseteq set
          /\ \A i \in set, j \in DOMAIN g : g[j].id \in Targets(g[i]) => j \in set
          => set = DOMAIN g

\* The breadth-first search computes what it should: when an editor offers a
\* graph, it passes the validation exactly when its ids are unique, it has one
\* start and an end, every exit leads to a node and every node can be reached
\* (the closed sets of nodes that contain the start contain all nodes).
ValidatorExact ==
    Ids(flows) # {} => \A g \in Graphs : ValidateGraph(g) <=> WellFormed(g)

\* Every flow that is stored can be run: clones, roll-backs and stale writes
\* bring only graphs that are well formed, drafts included (the engine runs a
\* flow whatever its status is).
StoredGraphsWellFormed == \A f \in Ids(flows) : WellFormed(flows[f].graph)

\* What a published flow runs is in its history under its version, so that it
\* can be rolled back to: even when requests with stale copies undo and repeat
\* a publication. Only a version whose row was lost, or is not written yet, is
\* missing.
PublishedIsRecorded ==
    \A f \in Ids(flows) : flows[f].status = "published" =>
        LET v == [flow |-> f, version |-> flows[f].version, graph |-> flows[f].graph]
        IN  \/ v \in flowVersions \cup unrecorded
            \/ \E u \in Editors : flowReqs[u].at = "record" /\ VersionOf(u) = v
=============================================================================
