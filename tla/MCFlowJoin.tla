---------------------------- MODULE MCFlowJoin ----------------------------
(***************************************************************************)
(* Instances of FlowJoin: all DAGs of a size, with nodes that branch and   *)
(* nodes that visit their children in order.                               *)
(***************************************************************************)
EXTENDS FlowJoin

\* Up to two children, in either order, perhaps the same one twice.
Children(n, N) == {<<>>} \cup {<<a>> : a \in (n + 1)..N}
                  \cup {<<a, b>> : a \in (n + 1)..N, b \in (n + 1)..N}

Reached(kids) == \A m \in 2..Len(kids) : \E n \in 1..(m - 1) :
                   \E i \in DOMAIN kids[n] : kids[n][i] = m

Dags5 == {k \in {<<a, b, c, d, <<>>>> : a \in Children(1, 5), b \in Children(2, 5),
                                        c \in Children(3, 5), d \in Children(4, 5)} : Reached(k)}

\* Node n and what is below it.
Below(kids, n) ==
  LET B[m \in DOMAIN kids] == {m} \cup UNION {B[kids[m][i]] : i \in DOMAIN kids[m]}
  IN  B[n]

\* What a node visits after its first child is reached through that node only.
Structured(kids, branching) ==
  \A n \in DOMAIN kids \ branching : \A i \in DOMAIN kids[n] \ {1} :
    LET region == Below(kids, kids[n][i])
    IN  /\ kids[n][i] \notin UNION {Below(kids, kids[n][j]) : j \in 1..(i - 1)}
        /\ \A m \in DOMAIN kids \ region : \A j \in DOMAIN kids[m] :
             kids[m][j] \in region => m = n /\ j = i

Graph(kids, branching, filtered, once, broken) ==
  [kids |-> kids, branching |-> branching, filtered |-> filtered, visitDagOnce |-> once,
   BackwardsCompatibleBroken |-> broken]

\* Branching nodes and nodes that visit their children in order.
Branchings == {1..5, {1, 2}, {2, 3}, {1, 3}, {2, 4}, {2}}
Mixed == {g \in {Graph(k, b, {}, FALSE, FALSE) : k \in Dags5, b \in Branchings} :
            Structured(g.kids, g.branching)}

\* All nodes branch.  Two shared nodes that filter_join_point takes out are visited
\* each time they are reached, or the first time only; and the old behaviour, which
\* does not wait at a join point.
Filtering == {Graph(k, 1..5, {3, 4}, once, FALSE) : k \in Dags5, once \in BOOLEAN}
Old == {Graph(k, 1..5, {}, FALSE, TRUE) : k \in Dags5}

AllGraphs == Mixed \cup Filtering \cup Old
===========================================================================
