----------------------------- MODULE HumanGate -----------------------------
(***************************************************************************)
(* What the human-in-the-loop write path promises, whatever its processes, *)
(* messages and failures: the CRM changes only to carry out a field list   *)
(* that was granted to an employee's confirmation; a proposal is granted   *)
(* one list at most, for its own customer and tool; each field of it is    *)
(* written at most once, with the granted value; tags are emptied only on  *)
(* behalf of a granted list of tags none of which is written yet.          *)
(* A proposal may stay ungranted, and a granted list may stay unwritten or *)
(* half written.                                                           *)
(***************************************************************************)
CONSTANTS Proposals, Customers, Tools, Keys, Values, None

VARIABLES
  granted,  \* proposal -> what its confirmation was granted, or None
  applied,  \* the <<proposal, key>> pairs that reached the CRM
  record    \* customer -> tool -> key -> value: the CRM

gateVars == <<granted, applied, record>>

Grants == [customer : Customers, tool : Tools,
           fields : [Keys -> Values \cup {None}]]

GateInit ==
  /\ granted = [p \in Proposals |-> None]
  /\ applied = {}
  /\ record = [c \in Customers |-> [t \in Tools |-> [k \in Keys |-> None]]]

\* An employee's confirmation of p is granted.
Grant(p, g) ==
  /\ granted[p] = None
  /\ granted' = [granted EXCEPT ![p] = g]
  /\ UNCHANGED <<applied, record>>

\* A list of tags replaces the customer's tags: it begins by removing them.
Clear(p) ==
  /\ granted[p] # None
  /\ granted[p].tool = "save_tags"
  /\ \A k \in Keys : <<p, k>> \notin applied
  /\ record' = [record EXCEPT ![granted[p].customer]["save_tags"] =
                                [k \in Keys |-> None]]
  /\ UNCHANGED <<granted, applied>>

\* One granted field of p reaches the CRM, with the value that was granted.
Apply(p, k) ==
  /\ granted[p] # None
  /\ granted[p].fields[k] # None
  /\ <<p, k>> \notin applied
  /\ applied' = applied \cup {<<p, k>>}
  /\ record' = [record EXCEPT ![granted[p].customer][granted[p].tool][k] =
                                granted[p].fields[k]]
  /\ UNCHANGED granted

GateNext ==
  \E p \in Proposals :
    \/ \E g \in Grants : Grant(p, g)
    \/ Clear(p)
    \/ \E k \in Keys : Apply(p, k)

GateSpec == GateInit /\ [][GateNext]_gateVars
=============================================================================
