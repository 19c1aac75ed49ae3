----------------------------- MODULE Transform -----------------------------
(***************************************************************************)
(* How a Transform or a Modifier rewrites the IR (ir/visitor.cpp).         *)
(*                                                                         *)
(* The IR is an immutable DAG.  apply_visitor(n) clones n, lets the pass   *)
(* edit the clone in preorder, visits the children of the clone, lets the  *)
(* pass edit it again in postorder, and keeps the clone only if it differs *)
(* from n.  The ChangeTracker remembers what became of every node, so that *)
(* a node with several parents is rewritten once and all parents get the   *)
(* same result.                                                            *)
(*                                                                         *)
(* A node is an address; heap[a] is its content: a label (the fields that  *)
(* are not nodes) and the addresses of its children.  IR::Node::operator== *)
(* compares the children as pointers, which is equality of contents here.  *)
(* A clone gets an address when it becomes the result of a visit.  What    *)
(* the pass does in preorder and postorder is chosen freely among the      *)
(* operations it is given; a Modifier is limited to keep, edit and prune.  *)
(***************************************************************************)
EXTENDS Integers, Sequences

CONSTANT Passes   \* the passes, each with the IR it is run on: see TransformAssumption

Null == 0        \* nullptr
Self == -1       \* preorder returned the clone it was given
Root == 1        \* the root of the IR

ASSUME TransformAssumption ==
  \A p \in Passes :
    /\ p.kids \in Seq(Seq(DOMAIN p.kids))    \* the children of the nodes of the IR
    /\ Root \in DOMAIN p.kids
    /\ p.visitDagOnce \in BOOLEAN /\ p.forceClone \in BOOLEAN
    \* What the pass may do in preorder and in postorder, and what it may call.
    /\ p.pre \subseteq {"keep", "edit", "prune", "null", "kid", "fresh",
                        "visit_kid", "transform_child"}
    /\ p.post \subseteq {"keep", "edit", "null", "kid", "other"}
    /\ p.calls \subseteq {"visitOnce", "visitAgain", "revisit_visited"}
    /\ p.max_edits \in Nat                   \* bound: operations other than "keep"

VARIABLES
  pass,       \* the pass that is run
  heap,       \* the contents of all nodes
  visited,    \* ChangeTracker::visited
  stack,      \* the activations of apply_visitor, innermost first
  prune_flag, \* Transform::prune_flag
  returned,   \* what apply_visitor(Root) returned, once it has
  bug,        \* a BUG was raised
  edits,      \* how often the pass did something other than keep
  did,        \* history: what the pass did to a node
  last        \* history: what the last visit of a node returned

vars == <<pass, heap, visited, stack, prune_flag, returned, bug, edits, did, last>>

Kids == pass.kids
Orig == DOMAIN Kids

\* The function f with the value b at a.
Put(f, a, b) == [x \in DOMAIN f \cup {a} |-> IF x = a THEN b ELSE f[x]]

top == Head(stack)
Running(phase) == ~bug /\ stack # <<>> /\ top.phase = phase

(***************************************************************************)
(* The ChangeTracker.                                                      *)
(***************************************************************************)
Status(n) ==
  IF n \notin DOMAIN visited THEN "New"
  ELSE IF visited[n].busy THEN "Busy"
  ELSE IF visited[n].once THEN "Done" ELSE "Revisit"

try_start(vis, n, once) ==
  IF n \in DOMAIN vis
  THEN [vis EXCEPT ![n].busy = TRUE]
  ELSE [m \in DOMAIN vis \cup {n} |->
         IF m = n THEN [busy |-> TRUE, once |-> once, result |-> n] ELSE vis[m]]

\* Mutant: every clone counts as a change.
DiffersByAddress(hp, orig, final) == pass.forceClone \/ final # orig

\* Does finish report that orig was changed, removed or coalesced?
Differs(hp, orig, final) ==
  pass.forceClone \/ (final # orig /\ hp[final] # hp[orig])

finish_changed(vis, hp, orig, final) ==
  final = Null \/ Differs(hp, orig, final) \/ final \in DOMAIN vis

\* Mutant: the result is recorded only if it is a new node.
finish_new_only(vis, hp, orig, final) ==
  LET new == IF final # Null /\ Differs(hp, orig, final)
             THEN {final} \ DOMAIN vis ELSE {}
  IN  [m \in DOMAIN vis \cup new |->
        CASE m = orig -> [vis[m] EXCEPT !.busy = FALSE,
                           !.result = IF new # {} THEN final ELSE @]
          [] m \in new -> [busy |-> FALSE, once |-> vis[orig].once, result |-> final]
          [] OTHER -> vis[m]]

finish(vis, hp, orig, final) ==
  LET new == IF final # Null /\ Differs(hp, orig, final)
             THEN {final} \ DOMAIN vis ELSE {}
  IN  [m \in DOMAIN vis \cup new |->
        CASE m = orig -> [vis[m] EXCEPT !.busy = FALSE,
                           !.result = IF finish_changed(vis, hp, orig, final)
                                      THEN final ELSE @]
          [] m \in new -> [busy |-> FALSE, once |-> vis[orig].once, result |-> final]
          [] OTHER -> vis[m]]

finalResult(n) ==
  IF Status(n) = "Done" THEN visited[n].result ELSE Null

\* ForwardChildren, applied to a fresh clone.
ForwardChildren(node) ==
  [node EXCEPT !.kids = [i \in DOMAIN @ |->
     IF @[i] # Null /\ finalResult(@[i]) # Null THEN finalResult(@[i]) ELSE @[i]]]

(***************************************************************************)
(* apply_visitor up to the call of preorder, for a node that is not Done.  *)
(***************************************************************************)
Frame(n) ==
  [n |-> n, copy |-> ForwardChildren(heap[n]), pre |-> Self, extra |-> FALSE,
   idx |-> 1, phase |-> "preorder", save |-> prune_flag]

Begin(n) ==
  /\ Status(n) # "Done" /\ Status(n) # "Busy"
  /\ visited' = try_start(visited, n, pass.visitDagOnce)
  /\ prune_flag' = FALSE

\* Mutant: a removed child is visited again.
ResumeStays(frames, ret) ==
  IF frames = <<>> THEN <<>>
  ELSE LET f == Head(frames)
       IN  <<CASE f.phase = "kids" ->
                    [f EXCEPT !.copy.kids[f.idx] = ret,
                              !.idx = IF ret = Null THEN @ ELSE @ + 1]
               [] f.phase = "visit_kid" ->
                    [f EXCEPT !.copy.kids[f.idx] = ret, !.phase = "returned"]
               [] f.phase = "transform_child" ->
                    [f EXCEPT !.pre = ret, !.phase = "transformed"]>>
           \o Tail(frames)

\* The caller of apply_visitor goes on with the result ret.
Resume(frames, ret) ==
  IF frames = <<>> THEN <<>>
  ELSE LET f == Head(frames)
       IN  <<CASE f.phase = "kids" ->
                    [f EXCEPT !.copy.kids[f.idx] = ret, !.idx = @ + 1]
               [] f.phase = "visit_kid" ->
                    [f EXCEPT !.copy.kids[f.idx] = ret, !.phase = "returned"]
               [] f.phase = "transform_child" ->
                    [f EXCEPT !.pre = ret, !.phase = "transformed"]>>
           \o Tail(frames)

\* Mutant: a node that is done is left as it was.
VisitChildNoResult(c) ==
  /\ IF c = Null \/ Status(c) = "Done"
     THEN /\ stack' = Resume(stack, c)
          /\ UNCHANGED <<visited, prune_flag>>
     ELSE Begin(c) /\ stack' = <<Frame(c)>> \o stack
  /\ UNCHANGED bug

\* visit(child) in a visit_children, a preorder or transform_child.
VisitChild(c) ==
  \/ /\ c = Null
     /\ stack' = Resume(stack, Null)
     /\ UNCHANGED <<visited, prune_flag, bug>>
  \/ /\ c # Null /\ Status(c) = "Done"
     /\ stack' = Resume(stack, visited[c].result)
     /\ UNCHANGED <<visited, prune_flag, bug>>
  \/ /\ c # Null /\ Status(c) = "Busy"       \* loop_revisit
     /\ bug' = TRUE
     /\ UNCHANGED <<visited, prune_flag, stack>>
  \/ /\ c # Null /\ Begin(c)
     /\ stack' = <<Frame(c)>> \o stack
     /\ UNCHANGED bug

\* Mutant: the node that preorder returned is not finished.
EndVisitForgetsExtra(f, vis, final, hp) ==
  LET cloned  == Len(hp) > Len(heap)
      fin     == IF cloned /\ f.extra /\ hp[final] = heap[f.pre] THEN f.pre ELSE final
      changed == finish_changed(vis, hp, f.n, fin)
      ret     == IF changed THEN fin ELSE f.n
      rest    == Tail(stack)
  IN  /\ heap' = IF cloned /\ fin = final /\ (changed \/ f.extra) THEN hp ELSE heap
      /\ prune_flag' = f.save
      /\ stack' = Resume(rest, ret)
      /\ visited' = IF rest = <<>> THEN <<>> ELSE finish(vis, hp, f.n, fin)
      /\ returned' = IF rest = <<>> THEN ret ELSE returned
      /\ last' = Put(last, f.n, ret)

(***************************************************************************)
(* apply_visitor from the return of postorder, or of a preorder that       *)
(* pruned, to its own return.  hp is the heap, with the clone appended if  *)
(* the clone is the final result.                                          *)
(***************************************************************************)
EndVisit(f, vis, final, hp) ==
  LET cloned  == Len(hp) > Len(heap)
      fin     == IF cloned /\ f.extra /\ hp[final] = heap[f.pre] THEN f.pre ELSE final
      changed == finish_changed(vis, hp, f.n, fin)
      ret     == IF changed THEN fin ELSE f.n
      vis1    == finish(vis, hp, f.n, fin)
      rest    == Tail(stack)
  IN  /\ heap' = IF cloned /\ fin = final /\ (changed \/ f.extra) THEN hp ELSE heap
      /\ prune_flag' = f.save
      /\ stack' = Resume(rest, ret)
      /\ visited' = CASE rest = <<>> -> <<>>
                      [] rest # <<>> /\ f.extra -> finish(vis1, hp, f.pre, fin)
                      [] OTHER -> vis1
      /\ returned' = IF rest = <<>> THEN ret ELSE returned
      /\ last' = Put(IF f.extra THEN Put(last, f.pre, fin) ELSE last, f.n, ret)

Edit(op) ==
  /\ op # "keep" => edits < pass.max_edits
  /\ edits' = IF op = "keep" THEN edits ELSE edits + 1

Apply ==
  /\ ~bug /\ stack = <<>> /\ returned = Self
  /\ Begin(Root)
  /\ stack' = <<Frame(Root)>>
  /\ UNCHANGED <<heap, returned, bug, edits, did, last>>

VisitChildren ==
  /\ Running("kids") /\ top.idx <= Len(top.copy.kids)
  /\ VisitChild(top.copy.kids[top.idx])
  /\ UNCHANGED <<heap, returned, edits, did, last>>

(***************************************************************************)
(* preorder, as the pass may have written it: leave the clone, edit it,    *)
(* prune, remove the node, replace it by one of its children or by a new   *)
(* node, prune and visit a child by hand, or return transform_child(child).*)
(***************************************************************************)
DidPre(op, arg) == did' = [did EXCEPT !.pre = Put(@, top.n, <<op, arg>>)]

PreorderReturns(f, op, arg) ==
  /\ stack' = <<f>> \o Tail(stack)
  /\ DidPre(op, arg)

Preorder ==
  /\ Running("preorder")
  /\ \E op \in pass.pre :
       /\ Edit(op)
       /\ \/ /\ op \in {"keep", "edit"}
             /\ PreorderReturns([top EXCEPT !.phase = "returned",
                                  !.copy.label = IF op = "edit" THEN 1 ELSE @], op, 0)
             /\ UNCHANGED <<heap, prune_flag>>
          \/ /\ op = "prune"
             /\ prune_flag' = TRUE
             /\ PreorderReturns([top EXCEPT !.phase = "returned"], op, 0)
             /\ UNCHANGED heap
          \/ /\ op = "null"
             /\ PreorderReturns([top EXCEPT !.phase = "returned", !.pre = Null], op, 0)
             /\ UNCHANGED <<heap, prune_flag>>
          \/ /\ op = "fresh"
             /\ heap' = Append(heap, [top.copy EXCEPT !.label = 1])
             /\ PreorderReturns([top EXCEPT !.phase = "returned", !.pre = Len(heap) + 1],
                                op, Len(heap) + 1)
             /\ UNCHANGED prune_flag
          \/ /\ op = "kid"
             /\ \E i \in DOMAIN top.copy.kids :
                  PreorderReturns([top EXCEPT !.phase = "returned",
                                              !.pre = top.copy.kids[i]], op, i)
             /\ UNCHANGED <<heap, prune_flag>>
          \/ /\ op \in {"visit_kid", "transform_child"}
             /\ prune_flag' = (op = "visit_kid")
             /\ \E i \in DOMAIN top.copy.kids :
                  PreorderReturns([top EXCEPT !.phase = op, !.idx = i], op, i)
             /\ UNCHANGED heap
  /\ UNCHANGED <<visited, returned, bug, last>>

VisitInPreorder ==
  /\ Running("visit_kid") \/ Running("transform_child")
  /\ VisitChild(top.copy.kids[top.idx])
  /\ UNCHANGED <<heap, returned, edits, did, last>>

\* visitOnce(), visitAgain() or revisit_visited() called from preorder.
CallTracker ==
  /\ Running("preorder")
  /\ \E call \in pass.calls :
       /\ Edit(call)
       /\ visited' = CASE call = "visitOnce" -> [visited EXCEPT ![top.n].once = TRUE]
                       [] call = "visitAgain" -> [visited EXCEPT ![top.n].once = FALSE]
                       [] OTHER -> [n \in {m \in DOMAIN visited : visited[m].busy} |->
                                     visited[n]]
  /\ UNCHANGED <<heap, stack, prune_flag, returned, bug, did, last>>

\* apply_visitor between the return of preorder and the visit of the children.
Pruned(f, vis, final, hp) ==
  /\ EndVisit(f, vis, final, hp)
  /\ did' = [did EXCEPT !.cut = @ \cup {f.n, last'[f.n]}]

PreorderReturned ==
  /\ Running("returned") \/ Running("transformed")
  /\ LET pre   == top.pre
         prune == prune_flag \/ top.phase = "transformed"
         f     == [top EXCEPT !.extra = TRUE, !.copy = heap[pre], !.phase = "kids"]
     IN  \/ /\ pre = Self /\ ~prune
            /\ stack' = <<[top EXCEPT !.phase = "kids"]>> \o Tail(stack)
            /\ UNCHANGED <<heap, visited, prune_flag, returned, bug, did, last>>
         \/ /\ pre = Self /\ prune
            /\ Pruned(top, visited, Len(heap) + 1, Append(heap, top.copy))
            /\ UNCHANGED bug
         \/ /\ pre = Null
            /\ EndVisit(top, visited, Null, heap)
            /\ UNCHANGED <<bug, did>>
         \/ /\ pre > Null /\ Status(pre) = "Done"
            /\ EndVisit(top, visited, visited[pre].result, heap)
            /\ UNCHANGED <<bug, did>>
         \/ /\ pre > Null /\ Status(pre) = "Busy"        \* IR loop detected
            /\ bug' = TRUE
            /\ UNCHANGED <<heap, visited, stack, prune_flag, returned, did, last>>
         \/ /\ pre > Null /\ Status(pre) \in {"New", "Revisit"} /\ prune
            /\ Pruned([top EXCEPT !.extra = TRUE],
                      try_start(visited, pre, visited[top.n].once), pre, heap)
            /\ UNCHANGED bug
         \/ /\ pre > Null /\ Status(pre) \in {"New", "Revisit"} /\ ~prune
            /\ visited' = try_start(visited, pre, visited[top.n].once)
            /\ stack' = <<f>> \o Tail(stack)
            /\ UNCHANGED <<heap, prune_flag, returned, bug, did, last>>
  /\ UNCHANGED edits

(***************************************************************************)
(* postorder, when the children are visited: leave the clone, edit it,     *)
(* remove the node, or replace it by one of its (visited) children or by   *)
(* some other node of the IR.                                              *)
(***************************************************************************)
Postorder ==
  /\ Running("kids") /\ top.idx > Len(top.copy.kids)
  /\ \E op \in pass.post, arg \in 0..Len(heap) :
       /\ Edit(op)
       /\ did' = [did EXCEPT !.post =
                    Put(@, IF top.extra THEN top.pre ELSE top.n, <<op, arg>>)]
       /\ \/ /\ op = "keep" /\ arg = 0
             /\ EndVisit(top, visited, Len(heap) + 1, Append(heap, top.copy))
          \/ /\ op = "edit" /\ arg = 0
             /\ EndVisit(top, visited, Len(heap) + 1,
                         Append(heap, [top.copy EXCEPT !.label = 1]))
          \/ /\ op = "null" /\ arg = 0
             /\ EndVisit(top, visited, Null, heap)
          \/ /\ op = "kid" /\ arg \in DOMAIN top.copy.kids
             /\ top.copy.kids[arg] # Null
             /\ EndVisit(top, visited, top.copy.kids[arg], heap)
          \/ /\ op = "other" /\ arg \in Orig
             /\ arg \notin DOMAIN visited
             /\ EndVisit(top, visited, arg, heap)
  /\ UNCHANGED bug

Init ==
  /\ pass \in Passes
  /\ heap = [n \in Orig |-> [label |-> 0, kids |-> Kids[n]]]
  /\ visited = <<>>
  /\ stack = <<>>
  /\ prune_flag = FALSE
  /\ returned = Self
  /\ bug = FALSE
  /\ edits = 0
  /\ did = [pre |-> <<>>, post |-> <<>>, cut |-> {}]
  /\ last = <<>>

Step == Apply \/ Preorder \/ CallTracker \/ VisitInPreorder \/ PreorderReturned
        \/ VisitChildren \/ Postorder

Next == Step /\ UNCHANGED pass

\* The pass runs in one thread and every step of it returns.
Spec == Init /\ [][Next]_vars /\ WF_vars(Next)
----------------------------------------------------------------------------
(***************************************************************************)
(* Properties.                                                             *)
(***************************************************************************)
Address == DOMAIN heap
Content == [label : {0, 1}, kids : Seq(Address \cup {Null})]

TypeOK ==
  /\ \A a \in Address : heap[a] \in Content
  /\ DOMAIN visited \subseteq Address
  /\ \A n \in DOMAIN visited :
       visited[n] \in [busy : BOOLEAN, once : BOOLEAN, result : Address \cup {Null}]
  /\ \A i \in DOMAIN stack :
       /\ stack[i].n \in Address /\ stack[i].copy \in Content
       /\ stack[i].pre \in Address \cup {Null, Self}
  /\ returned \in Address \cup {Null, Self}
  /\ prune_flag \in BOOLEAN /\ bug \in BOOLEAN /\ edits \in 0..pass.max_edits

Finished == returned # Self

\* Nodes of the graph below n, through the children of the nodes outside cut.
Below(n, cut) ==
  LET More(S) == S \cup UNION {{heap[a].kids[i] : i \in DOMAIN heap[a].kids}
                               : a \in S \ (cut \cup {Null})}
      Grow[i \in 0..Len(heap)] == IF i = 0 THEN {n} ELSE More(Grow[i - 1])
  IN  Grow[Len(heap)] \ {Null}

HasLoop == \E n \in Orig : \E i \in DOMAIN Kids[n] : n \in Below(Kids[n][i], {})

\* The pass visits every node once, and brings in no node of the IR from elsewhere.
Ordinary == pass.visitDagOnce /\ pass.calls = {} /\ "other" \notin pass.post

\* The graph below a, unfolded into a tree.
Tree(a) ==
  LET T[b \in Address \cup {Null}] ==
        IF b = Null THEN <<>>
        ELSE <<heap[b].label, [i \in DOMAIN heap[b].kids |-> T[heap[b].kids[i]]]>>
  IN  T[a]

DidToPre(n) == IF n \in DOMAIN did.pre THEN did.pre[n] ELSE <<"keep", 0>>
DidToPost(n) == IF n \in DOMAIN did.post THEN did.post[n] ELSE <<"keep", 0>>

\* What rewriting a tree bottom up would give, with the pass doing to every
\* node what it did: there is no tracker, no sharing and no forwarding here.
Rewritten ==
  LET R[n \in Orig] ==
        LET pre   == DidToPre(n)
            post  == DidToPost(IF pre[1] = "fresh" THEN pre[2] ELSE n)
            label == IF pre[1] \in {"edit", "fresh"} \/ post[1] = "edit" THEN 1 ELSE 0
        IN  CASE pre[1] = "null" -> <<>>
              [] pre[1] \in {"kid", "transform_child"} -> R[Kids[n][pre[2]]]
              [] OTHER ->
                   CASE post[1] = "null" -> <<>>
                     [] post[1] = "kid" -> R[Kids[n][post[2]]]
                     [] OTHER -> <<label, [i \in DOMAIN Kids[n] |-> R[Kids[n][i]]]>>
  IN  R[Root]

(***************************************************************************)
(* The nodes the tracker holds as being visited are exactly those that an  *)
(* unfinished apply_visitor holds: its own node and the node preorder      *)
(* returned in its place.  A node left busy would raise "IR loop detected" *)
(* the next time it is reached; one freed too early would be visited       *)
(* inside its own visit.                                                   *)
(***************************************************************************)
BusyIsOnStack ==
  {n \in DOMAIN visited : visited[n].busy} =
    UNION {IF stack[i].extra THEN {stack[i].n, stack[i].pre} ELSE {stack[i].n}
            : i \in DOMAIN stack}

(***************************************************************************)
(* A pass that visits every node once rewrites a DAG into what it would    *)
(* have made of the tree: nodes that are shared, forwarded before the      *)
(* preorder of a later parent, replaced by a child that is visited already *)
(* or only later, removed, or equal to what they were, make no difference. *)
(* (Where the pass prunes it keeps children as they were, see NothingStale.) *)
(***************************************************************************)
RewritesLikeATree ==
  Finished /\ Ordinary /\ did.cut = {} /\ ~HasLoop => Tree(returned) = Rewritten

(***************************************************************************)
(* What apply_visitor(Root) returns holds no node that the pass has        *)
(* replaced or removed, except below a node where it pruned: every parent  *)
(* of a shared node was given the node's result, whether it was visited    *)
(* before or after that result was there.                                  *)
(***************************************************************************)
NothingStale ==
  Finished /\ Ordinary => \A a \in Below(returned, did.cut) : a \in DOMAIN last => last[a] = a

(***************************************************************************)
(* A visit of a subgraph in which the pass changes nothing returns the     *)
(* node it was given, not a copy: PassRepeated and the pass manager take a *)
(* new address for a change.                                               *)
(***************************************************************************)
UnchangedKeepsIdentity ==
  Ordinary /\ ~pass.forceClone =>
    \A n \in Orig \cap DOMAIN last :
      (\A m \in Below(n, {}) : DidToPre(m)[1] \in {"keep", "prune"}
                               /\ DidToPost(m)[1] = "keep")
        => last[n] = n

(***************************************************************************)
(* "a Transform pass visits every node": when the postorder of a node has  *)
(* run, all children the node had were visited; the tracker did not take   *)
(* one for done that the pass has never seen.  It does if a postorder      *)
(* returns a node of the IR that is still to be visited ("other"): finish  *)
(* enters the node as done.                                                *)
(***************************************************************************)
VisitsEveryChild ==
  "other" \notin pass.post =>
    \A n \in Orig \cap DOMAIN did.post :
      DidToPre(n)[1] \in {"keep", "edit"} =>
        \A i \in DOMAIN Kids[n] : Kids[n][i] \in DOMAIN last

(***************************************************************************)
(* finish: "`done(@orig)` will return true, and `result(@orig)` will       *)
(* return the resulting node": the result of a node that is done is what   *)
(* the last visit of it returned, so that the next parent is given the     *)
(* same node.  A pass that calls visitOnce on a node visited before may    *)
(* leave the result of the earlier visit in place.                         *)
(***************************************************************************)
ResultOfLastVisit ==
  pass.calls = {} =>
    \A n \in DOMAIN visited \cap DOMAIN last :
      Status(n) = "Done" => visited[n].result = last[n]

(***************************************************************************)
(* forceClone: "force clone whole tree even if unchanged": nothing of the  *)
(* IR that was visited is part of the result, unless the pass pruned, or a *)
(* preorder or postorder returned another node of the IR that may stay as  *)
(* it is.                                                                  *)
(***************************************************************************)
ForceCloneCopiesAll ==
  /\ Finished /\ pass.forceClone /\ did.cut = {}
  /\ "kid" \notin pass.pre /\ "other" \notin pass.post
  => Below(returned, {}) \cap Orig = {}

(***************************************************************************)
(* The ChangeTracker is right at each moment of a visit: what it holds as  *)
(* busy, as done and as result is what apply_visitor is doing and did.     *)
(***************************************************************************)
TrackerRight ==
  TypeOK /\ BusyIsOnStack /\ ResultOfLastVisit /\ VisitsEveryChild

(***************************************************************************)
(* finish keeps a clone exactly when it must: never if the pass changed    *)
(* nothing, always if it was told to force clones.                         *)
(***************************************************************************)
ClonesRight == UnchangedKeepsIdentity /\ ForceCloneCopiesAll

(***************************************************************************)
(* Every run of a pass comes to its end, on an IR with a cycle too: there  *)
(* a loop check ("IR loop detected") stops it, if the pass does not remove *)
(* the cycle before.  On a DAG the pass finishes: sharing, replacing a     *)
(* node by one below it and visiting a child from preorder are never taken *)
(* for a loop.                                                             *)
(***************************************************************************)
Terminates == <>(Finished \/ (bug /\ HasLoop))
============================================================================
