---------------------------- MODULE CallGraphOps ----------------------------
(***************************************************************************)
(* The class CallGraph (frontends/p4/callGraph.h) as operators on a value: *)
(* the nodes in the order they were added, and for every node the lists of *)
(* its callees and of its callers, with an entry for every call.           *)
(***************************************************************************)
EXTENDS Integers, Sequences, SequencesExt

EmptyGraph == [nodes |-> <<>>, out |-> <<>>, in |-> <<>>]

NodeSet(g) == ToSet(g.nodes)

\* f with one more point in its domain.
Extend(f, n, v) == [m \in DOMAIN f \cup {n} |-> IF m = n THEN v ELSE f[m]]

Add(g, n) ==
  IF n \in NodeSet(g)
  THEN g
  ELSE [nodes |-> Append(g.nodes, n), out |-> Extend(g.out, n, <<>>), in |-> Extend(g.in, n, <<>>)]

Calls(g, caller, callee) ==
  LET h == Add(Add(g, caller), callee)
  IN  [h EXCEPT !.out[caller] = Append(@, callee), !.in[callee] = Append(@, caller)]

\* lists with, for every entry of the list at, one entry n less: remove
\* erases the entries one by one, the first it finds each time.
Erase(lists, at, n) ==
  FoldLeft(LAMBDA f, m : [f EXCEPT ![m] = RemoveFirst(@, n)], lists, at)

Forget(lists, n) == [m \in DOMAIN lists \ {n} |-> lists[m]]

RemoveNode(g, n) ==
  LET out == Erase(g.out, g.in[n], n)
  IN  [nodes |-> Remove(g.nodes, n),
       out |-> Forget(out, n),
       in |-> Erase(Forget(g.in, n), out[n], n)]

isCallee(g, n) == n \in NodeSet(g) /\ g.in[n] # <<>>

RECURSIVE ReachableFrom(_, _, _)
ReachableFrom(g, work, found) ==
  IF work = {}
  THEN found
  ELSE LET n == CHOOSE x \in work : TRUE
           next == IF n \in NodeSet(g) THEN ToSet(g.out[n]) ELSE {}
       IN  ReachableFrom(g, IF n \in found THEN work \ {n} ELSE (work \ {n}) \cup next,
                         found \cup {n})

Reachable(g, start) == ReachableFrom(g, {start}, {})

RestrictTo(g, to) ==
  FoldLeft(RemoveNode, g, SelectSeq(g.nodes, LAMBDA n : n \notin to))

(***************************************************************************)
(* Tarjan's algorithm.  The state h of a sort: the index and the lowlink   *)
(* of the nodes met so far, the stack, the list that is put out, and       *)
(* whether a cycle was found (the result of strongConnect).                *)
(***************************************************************************)
NoSort == [index |-> <<>>, lowlink |-> <<>>, stack |-> <<>>, out |-> <<>>, loop |-> FALSE]

SetLowLink(h, n, next) ==
  IF h.lowlink[next] < h.lowlink[n] THEN [h EXCEPT !.lowlink[n] = h.lowlink[next]] ELSE h

\* The members of the component of n leave the stack, n the last of them.
PopComponent(h, n) ==
  LET at == CHOOSE i \in 1..Len(h.stack) : h.stack[i] = n
  IN  [h EXCEPT !.stack = SubSeq(@, 1, at - 1),
                !.out = @ \o Reverse(SubSeq(h.stack, at, Len(h.stack))),
                !.loop = @ \/ at < Len(h.stack)]

isOnStack(h, n) == Contains(h.stack, n)

RECURSIVE strongConnect(_, _, _)
strongConnect(g, n, h0) ==
  LET i == Len(h0.out) + Len(h0.stack)     \* crtIndex: the number of nodes met
      h1 == [h0 EXCEPT !.index = Extend(@, n, i), !.lowlink = Extend(@, n, i),
                       !.stack = Append(@, n)]
      Visit(h, next) ==
        IF next \notin DOMAIN h.index THEN SetLowLink(strongConnect(g, next, h), n, next)
        ELSE IF isOnStack(h, next) THEN [SetLowLink(h, n, next) EXCEPT !.loop = @ \/ next = n]
        ELSE h
      h2 == FoldLeft(Visit, h1, g.out[n])
  IN  IF h2.lowlink[n] = h2.index[n] THEN PopComponent(h2, n) ELSE h2

\* sort: the nodes in the order strongConnect puts them out, and whether
\* there is a cycle.
Sort(g) ==
  FoldLeft(LAMBDA h, n : IF Contains(h.out, n) THEN h ELSE strongConnect(g, n, h),
           NoSort, g.nodes)
=============================================================================
