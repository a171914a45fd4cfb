-------------------------------- MODULE Crm --------------------------------
(***************************************************************************)
(* Customers, their phones and the record of their contacts                *)
(* (CustomerService). A customer is inserted row by row and deleted table  *)
(* by table, with no transaction around the statements: what a request     *)
(* stores, another finds half made or half gone. An import is many creates *)
(* by one request that goes on after those that fail. The foreign keys are *)
(* those of the schema: no phone or contact without its customer, phones   *)
(* go with the customer, and a customer with contacts is not deleted.      *)
(***************************************************************************)
EXTENDS Tenancy, Sequences

CONSTANTS
    Brokers,        \* requests in progress
    CustomerIds,
    Numbers,
    MaxPhones,      \* bound: phones a body has
    MaxRecords      \* bound: records of an import

ASSUME CrmAssumption ==
    /\ IsFiniteSet(Brokers) /\ IsFiniteSet(Numbers)
    /\ NoRow \notin CustomerIds \cup [tenant : Tenants]
    /\ MaxPhones \in Nat /\ MaxRecords \in Nat \ {0}

VARIABLES
    customers,      \* the tenant of each customer
    phones,
    contacted,      \* customers with contacts on record
    broker,         \* what each request is doing
    torn,           \* customers a request left half made or half gone (history)
    mixed,          \* customers two requests worked on at a time (history)
    refused,        \* customers the contacts kept from being deleted (history)
    missold         \* customers that were not stored as told (history)

crmHistory == <<torn, mixed, refused, missold>>
crmVars == <<customers, phones, contacted, broker, crmHistory>>

PhoneInput == [number : Numbers, primary : BOOLEAN]
PhoneLists == UNION {[1..n -> PhoneInput] : n \in 0..MaxPhones}
PhonesOf(list) == {list[i] : i \in DOMAIN list}

\* Records an import has still to come to, and what it counted so far.
Counters == [left : 0..MaxRecords, good : 0..MaxRecords, bad : 0..MaxRecords]
DeleteOrder == {<<"phones", "contacts", "customer">>, <<"contacts", "customer">>, <<"customer">>,
                <<"contacts", "phones", "customer">>, <<"phones", "customer">>}

Out == [at |-> "out"]
Tasks == [at : {"next"}, tally : Counters]
         \cup [at : {"customer", "phone"}, tally : Counters, id : CustomerIds,
               tenant : Tenants, list : PhoneLists, todo : PhoneLists]
         \cup [at : {"delete"}, id : CustomerIds, rest : DeleteOrder]
         \cup [at : {"record"}, id : CustomerIds]

Stands(b, at) == broker[b].at = at
Concerns(b, id) == broker[b].at \in {"customer", "phone", "delete", "record"} /\ broker[b].id = id

CrmInit ==
    /\ customers = [c \in CustomerIds |-> NoRow]
    /\ phones = [c \in CustomerIds |-> {}]
    /\ contacted = {}
    /\ broker = [b \in Brokers |-> Out]
    /\ torn = {} /\ mixed = {} /\ refused = {} /\ missold = {}

Turn(b, taken) == broker' = [broker EXCEPT ![b] = taken]

\* Request b takes up customer id.
PickUp(b, id, taken) ==
    /\ Turn(b, taken)
    /\ mixed' = IF \E o \in Brokers \ {b} : Concerns(o, id) THEN mixed \cup {id} ELSE mixed
    /\ UNCHANGED <<customers, phones, contacted, torn, refused, missold>>

-----------------------------------------------------------------------------
\* CustomerService.Create, alone or for each record of BatchImport.

Import(b, n) ==
    /\ Stands(b, "out")
    /\ Turn(b, [at |-> "next", tally |-> [left |-> n, good |-> 0, bad |-> 0]])
    /\ UNCHANGED <<customers, phones, contacted, crmHistory>>

\* Mutant: more than one primary phone is taken.
MutantValidatePhones(list) == \E i \in DOMAIN list : list[i].primary

\* One phone is the primary one.
validatePhones(list) == Cardinality({i \in DOMAIN list : list[i].primary}) = 1

\* Mutant: a record that fails is not counted as one that was come to.
MutantTallied(tally, good) ==
    IF good THEN [tally EXCEPT !.left = @ - 1, !.good = @ + 1]
    ELSE [tally EXCEPT !.bad = @ + 1]

Tallied(tally, good) ==
    IF good THEN [tally EXCEPT !.left = @ - 1, !.good = @ + 1]
    ELSE [tally EXCEPT !.left = @ - 1, !.bad = @ + 1]

NextRecord(b, t, id, list) ==
    LET tally == broker[b].tally
    IN  /\ Stands(b, "next") /\ tally.left > 0
        /\ \/ /\ validatePhones(list)
              /\ id \notin Ids(customers) \cup torn \cup missold
              /\ \A o \in Brokers : ~Concerns(o, id)
              /\ PickUp(b, id, [at |-> "customer", tally |-> tally, id |-> id,
                                tenant |-> t, list |-> list, todo |-> list])
           \/ /\ ~validatePhones(list)
              /\ Turn(b, [at |-> "next", tally |-> Tallied(tally, FALSE)])
              /\ UNCHANGED <<customers, phones, contacted, crmHistory>>

InsertCustomer(b) ==
    /\ Stands(b, "customer")
    /\ customers' = Inserted(customers, broker[b].id, [tenant |-> broker[b].tenant])
    /\ broker' = [broker EXCEPT ![b].at = "phone"]
    /\ UNCHANGED <<phones, contacted, crmHistory>>

\* Mutant: phones after the first are forgotten.
MutantInsertPhone(b) ==
    LET e == broker[b]
    IN  /\ Stands(b, "phone") /\ e.todo # <<>> /\ e.id \in Ids(customers)
        /\ phones' = [phones EXCEPT ![e.id] = @ \cup {Head(e.todo)}]
        /\ broker' = [broker EXCEPT ![b].todo = <<>>]
        /\ UNCHANGED <<customers, contacted, crmHistory>>

InsertPhone(b) ==
    LET e == broker[b]
    IN  /\ Stands(b, "phone") /\ e.todo # <<>> /\ e.id \in Ids(customers)
        /\ phones' = [phones EXCEPT ![e.id] = @ \cup {Head(e.todo)}]
        /\ broker' = [broker EXCEPT ![b].todo = Tail(@)]
        /\ UNCHANGED <<customers, contacted, crmHistory>>

\* All phones are in: the record is told to be a success.
RecordDone(b) ==
    LET e == broker[b]
    IN  /\ Stands(b, "phone") /\ e.todo = <<>>
        /\ missold' = IF phones[e.id] # PhonesOf(e.list) THEN missold \cup {e.id} ELSE missold
        /\ Turn(b, [at |-> "next", tally |-> Tallied(e.tally, TRUE)])
        /\ UNCHANGED <<customers, phones, contacted, torn, mixed, refused>>

\* A statement of the record fails, or its customer was deleted meanwhile.
\* The rows that are in stay, and the import goes on.
ImportFails(b) ==
    LET e == broker[b]
    IN  /\ Stands(b, "customer") \/ (Stands(b, "phone") /\ e.todo # <<>>)
        /\ torn' = IF Stands(b, "phone") THEN torn \cup {e.id} ELSE torn
        /\ Turn(b, [at |-> "next", tally |-> Tallied(e.tally, FALSE)])
        /\ UNCHANGED <<customers, phones, contacted, mixed, refused, missold>>

ImportDone(b) ==
    /\ Stands(b, "next") /\ broker[b].tally.left = 0
    /\ Turn(b, Out)
    /\ UNCHANGED <<customers, phones, contacted, crmHistory>>

-----------------------------------------------------------------------------
\* Mutant: the contacts are left to the foreign key.
MutantDelete(b, id) ==
    /\ Stands(b, "out")
    /\ PickUp(b, id, [at |-> "delete", id |-> id, rest |-> <<"phones", "customer">>])

\* Delete: whether there is such a customer is not looked at.
Delete(b, id) ==
    /\ Stands(b, "out")
    /\ PickUp(b, id, [at |-> "delete", id |-> id, rest |-> <<"phones", "contacts", "customer">>])

\* EraseCustomer, of the caller's tenant.
EraseCustomer(b, t, id) ==
    /\ Stands(b, "out")
    /\ Owns(customers, t, id)
    /\ PickUp(b, id, [at |-> "delete", id |-> id, rest |-> <<"contacts", "phones", "customer">>])

DeletePhones(b) ==
    /\ Stands(b, "delete") /\ Head(broker[b].rest) = "phones"
    /\ phones' = [phones EXCEPT ![broker[b].id] = {}]
    /\ broker' = [broker EXCEPT ![b].rest = Tail(@)]
    /\ UNCHANGED <<customers, contacted, crmHistory>>

DeleteContacts(b) ==
    /\ Stands(b, "delete") /\ Head(broker[b].rest) = "contacts"
    /\ contacted' = contacted \ {broker[b].id}
    /\ broker' = [broker EXCEPT ![b].rest = Tail(@)]
    /\ UNCHANGED <<customers, phones, crmHistory>>

\* The contacts of a customer keep it; its phones do not.
DeleteCustomer(b) ==
    LET id == broker[b].id
    IN  /\ Stands(b, "delete") /\ Head(broker[b].rest) = "customer"
        /\ \/ /\ id \notin contacted
              /\ customers' = Deleted(customers, id)
              /\ phones' = [phones EXCEPT ![id] = {}]
              /\ UNCHANGED <<torn, refused>>
           \/ /\ id \in contacted
              /\ refused' = refused \cup {id} /\ torn' = torn \cup {id}
              /\ UNCHANGED <<customers, phones>>
        /\ Turn(b, Out)
        /\ UNCHANGED <<contacted, mixed, missold>>

\* A statement of the deletion fails: the tables before it stay empty.
DeleteFails(b) ==
    /\ Stands(b, "delete")
    /\ torn' = torn \cup {broker[b].id}
    /\ Turn(b, Out)
    /\ UNCHANGED <<customers, phones, contacted, mixed, refused, missold>>

-----------------------------------------------------------------------------
\* A call or a chat ends: the customer with the number, whichever of them the
\* database gives first, is looked up and then the contact recorded.
FindByPhone(b, t, id, n) ==
    /\ Stands(b, "out")
    /\ Owns(customers, t, id)
    /\ \E p \in phones[id] : p.number = n
    /\ PickUp(b, id, [at |-> "record", id |-> id])

\* Without the customer the INSERT fails, and the error is dropped.
RecordInteraction(b) ==
    /\ Stands(b, "record")
    /\ contacted' = IF broker[b].id \in Ids(customers) THEN contacted \cup {broker[b].id}
                    ELSE contacted
    /\ Turn(b, Out)
    /\ UNCHANGED <<customers, phones, crmHistory>>

\* The server stops: what was left of the request is not done.
Stop(b) ==
    /\ broker[b] # Out
    /\ torn' = IF broker[b].at \in {"phone", "delete"} THEN torn \cup {broker[b].id} ELSE torn
    /\ Turn(b, Out)
    /\ UNCHANGED <<customers, phones, contacted, mixed, refused, missold>>

CrmNext ==
    \E b \in Brokers :
        \/ \E n \in 1..MaxRecords : Import(b, n)
        \/ \E t \in Tenants, id \in CustomerIds, list \in PhoneLists : NextRecord(b, t, id, list)
        \/ InsertCustomer(b) \/ InsertPhone(b) \/ RecordDone(b) \/ ImportFails(b) \/ ImportDone(b)
        \/ \E id \in CustomerIds :
              \/ Delete(b, id)
              \/ \E t \in Tenants : \/ EraseCustomer(b, t, id)
                                    \/ \E n \in Numbers : FindByPhone(b, t, id, n)
        \/ DeletePhones(b) \/ DeleteContacts(b) \/ DeleteCustomer(b) \/ DeleteFails(b)
        \/ RecordInteraction(b) \/ Stop(b)

CrmSpec == CrmInit /\ [][CrmNext]_crmVars

-----------------------------------------------------------------------------
\* Type correctness; an import has counted each record it came to once.
CrmTypeOK ==
    /\ customers \in [CustomerIds -> [tenant : Tenants] \cup {NoRow}]
    /\ \A c \in CustomerIds : phones[c] \subseteq PhoneInput
    /\ contacted \subseteq Ids(customers)
    /\ \A b \in Brokers : /\ broker[b] = Out \/ broker[b] \in Tasks
                          /\ broker[b].at \in {"next", "customer", "phone"} =>
                                broker[b].tally.left + broker[b].tally.good
                                    + broker[b].tally.bad \in 1..MaxRecords
    /\ torn \cup mixed \cup refused \cup missold \subseteq CustomerIds

\* A customer has one primary phone, unless a request is at it or one left it
\* half made or half gone: a customer whose phones were deleted and who could
\* not be is the one a screen pop will never find.
OnePrimary ==
    \A c \in Ids(customers) :
        \/ Cardinality({p \in phones[c] : p.primary}) = 1
        \/ c \in torn \/ \E b \in Brokers : Concerns(b, c)

\* A customer that was told to be created has the phones of the body, unless
\* another request worked on the customer before it was through.
CreatedAsTold == missold \subseteq mixed

\* Contacts keep a customer from being deleted only where one was recorded
\* between the deletion of the contacts and that of the customer.
RefusedOnlyWhereMixed == refused \subseteq mixed
=============================================================================
