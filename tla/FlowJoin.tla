------------------------------ MODULE FlowJoin ------------------------------
(***************************************************************************)
(* How an Inspector that is a ControlFlowVisitor visits a DAG in control-  *)
(* flow order, with joinFlows (ir/visitor.h, ir/visitor.cpp).              *)
(*                                                                         *)
(* A node that branches visits its children through a SplitFlowVisit: the  *)
(* visitor itself takes the first child and clones of it take the others;  *)
(* at the end the clones are merged into it.  A node with several parents  *)
(* is a join point: it is visited when the last parent has reached it, by  *)
(* a visitor that has merged all that came before.  A visitor that reaches *)
(* it earlier cannot simply go on, since what comes after the join point   *)
(* needs its outcome: it visits other branches of the splits it is in,     *)
(* from inside, until the join point is done, like a coroutine.            *)
(*                                                                         *)
(* The information a visitor carries is the set of nodes it has passed,    *)
(* and flow_merge is the union: what it holds at a node is exactly which   *)
(* paths have been merged there.                                           *)
(***************************************************************************)
EXTENDS Integers, Sequences, FiniteSets

CONSTANT Graphs    \* the DAGs to be visited, and how: see FlowJoinAssumption

NoSplit == 0       \* a null split_link
NotYet == {-1}     \* a null vclone

ASSUME FlowJoinAssumption ==
  \A g \in Graphs :
    /\ g.kids \in Seq(Seq(DOMAIN g.kids))    \* the children of the nodes; 1 is the root
    /\ 1 \in DOMAIN g.kids
    /\ g.branching \subseteq DOMAIN g.kids   \* the nodes that visit them through a split
    /\ g.filtered \subseteq DOMAIN g.kids    \* the nodes filter_join_point takes out
    /\ g.visitDagOnce \in BOOLEAN
    /\ g.BackwardsCompatibleBroken \in BOOLEAN

VARIABLES
  graph,     \* the DAG that is visited, and how
  info,      \* what each visitor carries
  link,      \* Visitor::split_link, the node of the innermost split it is in
  split,     \* the SplitFlowVisit of a node: visitors, visit_next, prev
  join,      \* flow_join_points
  tracker,   \* Inspector::visited: the nodes in progress and done
  stack,     \* the activations, innermost first
  seen       \* history: what the visitors carried when they came to a node

vars == <<graph, info, link, split, join, tracker, stack, seen>>

Kids == graph.kids
Branching == graph.branching
Node == DOMAIN Kids

\* SetupJoinPoints counts, over the nodes below the root, how often each is
\* reached; init_join_flows keeps what filter_join_point does not take out.
Parents(n) ==
  Cardinality({x \in Node \X (1..Len(Kids)) :
                 x[2] \in DOMAIN Kids[x[1]] /\ Kids[x[1]][x[2]] = n})
JoinPoint == {n \in Node : Parents(n) > 1} \ graph.filtered

top == Head(stack)
Running(kind) == stack # <<>> /\ top.kind = kind
Activation(kind, v, n, idx) == [kind |-> kind, v |-> v, n |-> n, idx |-> idx]

finished(s) == split[s].visit_next > Len(Kids[s])

\* Mutation: only the split the visitor itself is in.
FirstReadyInner(v) ==
  IF link[v] # NoSplit /\ ~finished(link[v]) THEN link[v] ELSE NoSplit

\* The innermost split with a branch left, of those that enclose visitor v.
FirstReady(v) ==
  LET First[s \in Node \cup {NoSplit}] ==
        IF s = NoSplit \/ ~finished(s) THEN s ELSE First[split[s].prev]
  IN  First[link[v]]

\* SplitFlowVisit::do_visit of the split of node s.
DoVisit(s) ==
  LET i == split[s].visit_next
  IN  /\ split' = [split EXCEPT ![s].visit_next = @ + 1]
      /\ stack' = <<Activation("visit", split[s].visitors[i], Kids[s][i], 1)>> \o stack

(***************************************************************************)
(* join_flows returns true for a visitor that comes to a join point before *)
(* the last one: what it carries is merged into the join point's clone.    *)
(***************************************************************************)
AccumulateLast(clone, v) == info[v]   \* mutation: overwrites the clone
Accumulate(clone, v) == IF clone = NotYet THEN info[v] ELSE clone \cup info[v]

ReachEarly ==
  /\ Running("visit") /\ top.n \in JoinPoint
  /\ join[top.n].count > 0
  /\ join' = [join EXCEPT ![top.n].count = @ - 1,
                          ![top.n].vclone = Accumulate(@, top.v)]
  /\ stack' = IF graph.BackwardsCompatibleBroken THEN Tail(stack)
              ELSE <<[top EXCEPT !.kind = "wait"]>> \o Tail(stack)
  /\ UNCHANGED <<info, link, split, tracker, seen>>

\* The loop in join_flows: visit a branch of the innermost split that has one.
WaitVisit ==
  /\ Running("wait") /\ join[top.n].count >= 0
  /\ FirstReady(top.v) # NoSplit
  /\ DoVisit(FirstReady(top.v))
  /\ UNCHANGED <<info, link, join, tracker, seen>>

WaitDone ==
  /\ Running("wait") /\ join[top.n].count < 0 /\ join[top.n].done
  /\ info' = [info EXCEPT ![top.v] = join[top.n].vclone]
  /\ stack' = Tail(stack)
  /\ UNCHANGED <<link, split, join, tracker, seen>>

(***************************************************************************)
(* apply_visitor once join_flows has returned false, up to visit_children. *)
(***************************************************************************)
MayGoOn(n) == n \in JoinPoint => join[n].count <= 0
MergedNothing(v, n) == info[v]        \* mutation: forgets the join point's clone
Merged(v, n) == IF n \in JoinPoint THEN info[v] \cup join[n].vclone ELSE info[v]
CountedIn(n) == IF n \in JoinPoint THEN [join EXCEPT ![n].count = @ - 1] ELSE join

\* The SplitFlowVisit of node n, set up by visitor v: v and new clones of it.
NewSplit(v, n, clones) ==
  [visitors |-> <<v>> \o [i \in 1..clones |-> Len(info) + i],
   visit_next |-> 1, prev |-> link[v]]

Visit ==
  LET v == top.v
      n == top.n
      passed == Merged(v, n) \cup {n}
      clones == IF n \in Branching THEN Len(Kids[n]) - 1 ELSE 0
  IN  /\ Running("visit") /\ MayGoOn(n)
      /\ tracker[n] # "done" \/ ~graph.visitDagOnce
      /\ join' = CountedIn(n)
      /\ tracker' = [tracker EXCEPT ![n] = "busy"]
      /\ seen' = [seen EXCEPT ![n] = @ \cup {Merged(v, n)}]
      /\ info' = [info EXCEPT ![v] = passed] \o [i \in 1..clones |-> passed]
      /\ IF n \in Branching
         THEN /\ split' = [split EXCEPT ![n] = NewSplit(v, n, clones)]
              /\ link' = [link EXCEPT ![v] = n] \o [i \in 1..clones |-> n]
         ELSE UNCHANGED <<split, link>>
      /\ stack' = <<[top EXCEPT !.kind = "children"]>> \o Tail(stack)

\* A node that is done and not to be visited again: only revisit is called.
Revisit ==
  /\ Running("visit") /\ MayGoOn(top.n)
  /\ tracker[top.n] = "done" /\ graph.visitDagOnce
  /\ join' = IF top.n \in JoinPoint
             THEN [join EXCEPT ![top.n].count = @ - 1, ![top.n].done = TRUE,
                               ![top.n].vclone = Merged(top.v, top.n)]
             ELSE join
  /\ info' = [info EXCEPT ![top.v] = Merged(top.v, top.n)]
  /\ stack' = Tail(stack)
  /\ UNCHANGED <<link, split, tracker, seen>>

VisitBranch ==
  /\ Running("children") /\ top.n \in Branching /\ ~finished(top.n)
  /\ DoVisit(top.n)
  /\ UNCHANGED <<info, link, join, tracker, seen>>

VisitInOrder ==
  /\ Running("children") /\ top.n \notin Branching /\ top.idx <= Len(Kids[top.n])
  /\ stack' = <<Activation("visit", top.v, Kids[top.n][top.idx], 1),
                [top EXCEPT !.idx = @ + 1]>> \o Tail(stack)
  /\ UNCHANGED <<info, link, split, join, tracker, seen>>

(***************************************************************************)
(* The children are visited: run_visit merges the branches, the tracker    *)
(* takes the node for done, and post_join_flows publishes what the join    *)
(* point's visitor carries now.                                            *)
(***************************************************************************)
VisitedTwice(n) == n \in JoinPoint /\ join[n].done /\ join[n].count >= -1

Finish ==
  LET v == top.v
      n == top.n
      out == IF n \in Branching
             THEN UNION {info[split[n].visitors[i]] : i \in DOMAIN Kids[n]} \cup info[v]
             ELSE info[v]
  IN  /\ Running("children")
      /\ IF n \in Branching THEN finished(n) ELSE top.idx > Len(Kids[n])
      /\ ~VisitedTwice(n)
      /\ info' = [info EXCEPT ![v] = out]
      /\ link' = IF n \in Branching THEN [link EXCEPT ![v] = split[n].prev] ELSE link
      /\ tracker' = [tracker EXCEPT ![n] = "done"]
      /\ join' = IF n \in JoinPoint
                 THEN [join EXCEPT ![n].done = TRUE, ![n].vclone = out] ELSE join
      /\ stack' = Tail(stack)
      /\ UNCHANGED <<split, seen>>

Init ==
  /\ graph \in Graphs
  /\ info = <<{}>>
  /\ link = <<NoSplit>>
  /\ split = [n \in Node |-> [visitors |-> <<>>, visit_next |-> 1, prev |-> NoSplit]]
  /\ join = [n \in JoinPoint |-> [count |-> Parents(n) - 1, vclone |-> NotYet,
                                  done |-> FALSE]]
  /\ tracker = [n \in Node |-> "new"]
  /\ stack = <<Activation("visit", 1, 1, 1)>>
  /\ seen = [n \in Node |-> {}]

Step == ReachEarly \/ WaitVisit \/ WaitDone \/ Visit \/ Revisit \/ VisitBranch
        \/ VisitInOrder \/ Finish

Next == Step /\ UNCHANGED graph

\* The visit runs in one thread and every step of it returns.
Spec == Init /\ [][Next]_vars /\ WF_vars(Next)
----------------------------------------------------------------------------
(***************************************************************************)
(* Properties.                                                             *)
(***************************************************************************)
TypeOK ==
  /\ \A v \in DOMAIN info : info[v] \subseteq Node
  /\ DOMAIN link = DOMAIN info /\ \A v \in DOMAIN link : link[v] \in Node \cup {NoSplit}
  /\ \A n \in Node : /\ split[n].visit_next \in 1..(Len(Kids[n]) + 1)
                     /\ \A i \in DOMAIN split[n].visitors :
                          split[n].visitors[i] \in DOMAIN info
  /\ tracker \in [Node -> {"new", "busy", "done"}]
  /\ \A n \in JoinPoint : join[n].count \in Int /\ join[n].done \in BOOLEAN

Ended == stack = <<>>

(***************************************************************************)
(* The control-flow graph the DAG stands for.  Its points are the entry    *)
(* and the exit of every node; what is behind a node's exit follows it on  *)
(* all paths, whichever parent it was reached from.                        *)
(***************************************************************************)
Entry(n) == <<"entry", n>>
Exit(n) == <<"exit", n>>
FlowEdges ==
  UNION {IF Kids[n] = <<>> THEN {<<Entry(n), Exit(n)>>}
         ELSE IF n \in Branching
         THEN UNION {{<<Entry(n), Entry(Kids[n][i])>>, <<Exit(Kids[n][i]), Exit(n)>>}
                      : i \in DOMAIN Kids[n]}
         ELSE {<<Entry(n), Entry(Kids[n][1])>>, <<Exit(Kids[n][Len(Kids[n])]), Exit(n)>>}
              \cup {<<Exit(Kids[n][i]), Entry(Kids[n][i + 1])>>
                      : i \in 1..(Len(Kids[n]) - 1)}
         : n \in Node}

\* The nodes that lie on some path to n.
Before(n) ==
  LET Back(S) == S \cup {e[1] : e \in {f \in FlowEdges : f[2] \in S}}
      Grow[i \in 0..(2 * Len(Kids))] ==
        IF i = 0 THEN {Entry(n)} ELSE Back(Grow[i - 1])
  IN  {m \in Node \ {n} : Entry(m) \in Grow[2 * Len(Kids)]}

(***************************************************************************)
(* A visitor comes to a node with exactly what lies on the paths to it:    *)
(* nothing of a path is missing, although the last part of some path may   *)
(* have been visited from inside another branch, and nothing has leaked    *)
(* from a branch that does not lead there, although both ran interleaved   *)
(* in visitors that share the first one's object.  (A node that            *)
(* filter_join_point takes out, and what is below it, is not joined.)      *)
(***************************************************************************)
CarriesAllPaths ==
  Running("children") /\ graph.filtered = {} => seen[top.n] \subseteq {Before(top.n)}

(***************************************************************************)
(* join_flows: "deferring visiting this node until all incoming edges have *)
(* been visited": at the end every node was visited with what all of its   *)
(* paths carry, in several visits if it or a node above it is no join      *)
(* point, though a join point is then reached more often than was counted. *)
(***************************************************************************)
EveryPathSeen ==
  Ended /\ (graph.filtered = {} \/ ~graph.visitDagOnce) =>
    \A n \in Node : Before(n) \subseteq UNION seen[n]

(***************************************************************************)
(* The BUG_CHECKs of join_flows and post_join_flows hold: a waiting        *)
(* visitor finds a branch to visit until its join point is done, and no    *)
(* join point is finished twice.                                           *)
(***************************************************************************)
JoinsFinish ==
  /\ Running("wait") => IF join[top.n].count < 0 THEN join[top.n].done
                        ELSE FirstReady(top.v) # NoSplit
  /\ Running("children") => ~VisitedTwice(top.n)

(***************************************************************************)
(* Every split that encloses a visit in progress and still has branches is *)
(* in the chain of the innermost visitor, so that a join point that waits  *)
(* can reach all branches that are left.                                   *)
(***************************************************************************)
LeftBranchesReachable ==
  LET Chain == LET C[s \in Node \cup {NoSplit}] ==
                     IF s = NoSplit THEN {} ELSE {s} \cup C[split[s].prev]
               IN  C[link[top.v]]
  IN  stack # <<>> =>
        {stack[i].n : i \in {j \in DOMAIN stack : /\ stack[j].kind = "children"
                                                  /\ stack[j].n \in Branching
                                                  /\ ~finished(stack[j].n)}}
          \subseteq Chain

\* Every visit ends.
Terminates == <>Ended

(***************************************************************************)
(* A visit with joins comes to its end (join_flows, post_join_flows): a    *)
(* waiting visitor always finds a branch to visit, in a split that it can  *)
(* reach, no BUG_CHECK fails, and the visit of the root returns.           *)
(***************************************************************************)
FlowsJoined == [](TypeOK /\ JoinsFinish /\ LeftBranchesReachable) /\ Terminates
=============================================================================
