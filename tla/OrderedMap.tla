----------------------------- MODULE OrderedMap -----------------------------
(***************************************************************************)
(* What hvec_map promises its callers: a map from keys to values that is   *)
(* iterated in the order in which its keys were inserted.  The order is a  *)
(* relation: <<k, l>> is in `before` when iteration meets k and then l.    *)
(***************************************************************************)
CONSTANTS Key, Val

VARIABLES content, before

Has(k) == \E e \in content : e.key = k
Others(k) == {e \in content : e.key # k}

Init == content = {} /\ before = {}

\* A new key goes to the end.
Add(k, v) ==
  /\ ~ Has(k)
  /\ content' = content \cup {[key |-> k, val |-> v]}
  /\ before' = before \cup {<<e.key, k>> : e \in content}

\* The value of a key already there may be replaced; its place stays.
Update(k, v) ==
  /\ Has(k)
  /\ content' = Others(k) \cup {[key |-> k, val |-> v]}
  /\ UNCHANGED before

Delete(k) ==
  /\ Has(k)
  /\ content' = Others(k)
  /\ before' = {p \in before : p[1] # k /\ p[2] # k}

Clear == content' = {} /\ before' = {}

Next ==
  \/ \E k \in Key : Delete(k) \/ \E v \in Val : Add(k, v) \/ Update(k, v)
  \/ Clear

Spec == Init /\ [][Next]_<<content, before>>
=============================================================================
