----------------------------- MODULE LinkedList -----------------------------
(***************************************************************************)
(* The lists of this library are intrusive: schedule<> and the lock        *)
(* operations of async_mutex hold the link to the next one, and nullptr    *)
(* ends the list.  A list is followed from the pointer to its first node.  *)
(***************************************************************************)
EXTENDS Integers, Sequences, FiniteSets, SequencesExt

CONSTANTS Nodes,  \* what has a link
          End     \* nullptr

NodeAt(q, i) == IF i \in 1..Len(q) THEN q[i] ELSE End

(* q is the list that starts at p: each link leads to the next element.    *)
Leads(q, p, link) ==
  /\ p = NodeAt(q, 1)
  /\ \A i \in 1..Len(q) : link[q[i]] = NodeAt(q, i + 1)

(* The nodes from p on, oldest or newest first as the links lead.          *)
Walk(p, link) == CHOOSE q \in BoundedSeq(Nodes, Cardinality(Nodes)) : Leads(q, p, link)

=============================================================================
