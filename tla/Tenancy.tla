------------------------------ MODULE Tenancy ------------------------------
(***************************************************************************)
(* What the tables of the system have in common: almost every row belongs  *)
(* to a tenant, its key is a new snowflake id, and an UPDATE or a DELETE   *)
(* of a row that is not there any more changes nothing.                    *)
(***************************************************************************)
EXTENDS Integers, FiniteSets

CONSTANTS
    Tenants,
    NoRow     \* what a table has under an id that is not in use

ASSUME TenancyAssumption == IsFiniteSet(Tenants) /\ NoRow \notin Tenants

Ids(table) == {id \in DOMAIN table : table[id] # NoRow}
Inserted(table, id, row) == [table EXCEPT ![id] = row]
Updated(table, id, row) == IF table[id] = NoRow THEN table
                           ELSE [table EXCEPT ![id] = row]
Deleted(table, id) == [table EXCEPT ![id] = NoRow]

\* The test of the handlers: the row exists and is the caller's.
Owns(table, t, id) == id \in Ids(table) /\ table[id].tenant = t
=============================================================================
