--------------------------- MODULE ProposalStore ---------------------------
(***************************************************************************)
(* The proposal table of the sale agent (sale_agent/hitl/store.py): what   *)
(* each method of ProposalStore does to the SQLite table while it holds    *)
(* the store's lock.  A method is one critical section, so it is given as  *)
(* an operator from a table to the next table; the modules that EXTEND     *)
(* this one interleave the calls.                                          *)
(*                                                                         *)
(* A table maps every identifier to a row.  The text of a field is a       *)
(* member of Values; a row's field list is a function from keys (fieldKey  *)
(* or tagKey) to a value, None where the list has no such key.             *)
(*                                                                         *)
(* Time is the flag due: the row is pending and its expires_at has passed, *)
(* but no method has run _expire_locked since.                             *)
(***************************************************************************)
EXTENDS Naturals

CONSTANTS
  Proposals,  \* proposal identifiers (uuid4 hex): bounds the rows ever created
  Customers,
  Keys,       \* field keys and tag keys
  Values,     \* contents of a field
  None        \* no value, no row, nothing shown


Tools == {"update_profile_field", "save_tags"}

Statuses == {"none", "pending", "confirmed", "rejected", "expired"}

FinalStatuses == {"confirmed", "rejected", "expired"}

Fields == [Keys -> Values \cup {None}]

NoFields == [k \in Keys |-> None]

ASSUME NoneAssumption ==
  /\ None \notin Values
  /\ None \notin [customer : Customers, tool : Tools, fields : Fields]

\* The keys a field list mentions.
KeysOf(f) == {k \in Keys : f[k] # None}

Row == [customer : Customers \cup {None}, tool : Tools \cup {"none"},
        fields : Fields, status : Statuses, due : BOOLEAN]

NoRow == [customer |-> None, tool |-> "none", fields |-> NoFields,
          status |-> "none", due |-> FALSE]

Table == [Proposals -> Row]

\* A table in which every row in use names a customer and a write tool.
RowsOK(table) ==
  /\ table \in Table
  /\ \A p \in Proposals : table[p].status # "none" =>
       table[p].customer \in Customers /\ table[p].tool \in Tools

Unused(table) == {p \in Proposals : table[p].status = "none"}

PendingFor(table, c, tool) ==
  {p \in Proposals : /\ table[p].status = "pending"
                     /\ table[p].customer = c
                     /\ table[p].tool = tool}

(***************************************************************************)
(* _expire_locked: every overdue pending row becomes expired.              *)
(***************************************************************************)
ExpireDue(table) ==
  [p \in Proposals |->
     IF table[p].status = "pending" /\ table[p].due
       THEN [table[p] EXCEPT !.status = "expired", !.due = FALSE]
       ELSE table[p]]

\* Mutant: the incoming list replaces the one on the row.
MergeReplaces(existing, incoming) == incoming

(***************************************************************************)
(* _merge_fields: the incoming list wins key by key.                       *)
(***************************************************************************)
MergeFields(existing, incoming) ==
  [k \in Keys |-> IF incoming[k] # None THEN incoming[k] ELSE existing[k]]

Insert(table, p, c, tool, fields) ==
  [table EXCEPT ![p] = [customer |-> c, tool |-> tool, fields |-> fields,
                        status |-> "pending", due |-> FALSE]]

Merge(table, p, fields) ==
  [table EXCEPT ![p].fields = MergeFields(@, fields), ![p].due = FALSE]

(***************************************************************************)
(* create_or_merge: expire, look for the pending row of this customer and  *)
(* tool, insert a new row or merge into the one found.  The next table is  *)
(* any member of the set, which is empty when every identifier is used     *)
(* (the bound of the model) and a new row would be needed.                 *)
(***************************************************************************)
CreateAlways(table, c, tool, fields) ==
  LET live == ExpireDue(table)
  IN {Insert(live, p, c, tool, fields) : p \in Unused(live)}

CreateOrMerge(table, c, tool, fields) ==
  LET live == ExpireDue(table)
      open == PendingFor(live, c, tool)
  IN IF open = {}
       THEN {Insert(live, p, c, tool, fields) : p \in Unused(live)}
       ELSE {Merge(live, p, fields) : p \in open}

(***************************************************************************)
(* resolve: only a pending row changes; the expiry date is not looked at.  *)
(***************************************************************************)
ResolveAnyStatus(table, p, status) ==
  [table EXCEPT ![p].status = status, ![p].due = FALSE]

Resolve(table, p, status) ==
  IF table[p].status = "pending"
    THEN [table EXCEPT ![p].status = status, ![p].due = FALSE]
    ELSE table

(***************************************************************************)
(* replace_fields: only a pending row changes; expires_at is kept.         *)
(***************************************************************************)
ReplaceFields(table, p, fields) ==
  IF table[p].status = "pending"
    THEN [table EXCEPT ![p].fields = fields]
    ELSE table
=============================================================================
