-------------------------- MODULE TransformProofs --------------------------
(***************************************************************************)
(* The ChangeTracker during every run of every pass on every IR, with      *)
(* shared nodes and with cycles: TrackerRight, NothingStale and            *)
(* ClonesRight are invariants.                                             *)
(*                                                                         *)
(* What the tracker holds is tied to the activations of apply_visitor, so  *)
(* IInv says of each activation what it holds, which child it waits for    *)
(* and how far it is, and of the tracker where its results come from.  On  *)
(* it rest three invariants about the nodes themselves: what visits have   *)
(* returned is closed under children and holds all that is in use          *)
(* (StaleInv); of that nothing is of the IR if clones are forced           *)
(* (CloneInv); and in a set of nodes that the pass keeps, closed under     *)
(* children, the clones are what the nodes are (QuietInv).                 *)
(***************************************************************************)
EXTENDS Transform, NumberLemmas, FiniteSetTheorems

AnyContent == [label : {0, 1}, kids : Seq(Nat)]

Phases == {"preorder", "returned", "transformed", "visit_kid", "transform_child", "kids"}

Frames ==
  [n : Nat, copy : AnyContent, pre : Int, extra : BOOLEAN, idx : Nat,
   phase : Phases, save : BOOLEAN]

Shape ==
  /\ pass \in Passes
  /\ heap \in Seq(AnyContent)
  /\ stack \in Seq(Frames)
  /\ DOMAIN last \subseteq Address
  /\ edits \in 0..pass.max_edits
  /\ returned \in 0..Len(heap) \cup {Self}
  /\ prune_flag \in BOOLEAN /\ bug \in BOOLEAN
  /\ DOMAIN did = {"pre", "post", "cut"}
  /\ stack = << >> => visited = << >> /\ (returned = Self => last = << >>)

\* The children of a node are in the heap of h nodes.
Closed(node, h) == \A i \in DOMAIN node.kids : node.kids[i] \in 0..h

\* The IR is in the heap, as it was.
HeapOK(p, hp) ==
  /\ \A a \in DOMAIN hp : Closed(hp[a], Len(hp))
  /\ Len(p.kids) <= Len(hp)
  /\ \A n \in DOMAIN p.kids : hp[n].kids = p.kids[n] /\ hp[n].label = 0

(***************************************************************************)
(* The activations of apply_visitor.                                       *)
(***************************************************************************)
\* The nodes an activation holds.
Held(f) == IF f.extra THEN {f.n, f.pre} ELSE {f.n}

HeldBy(stk) == UNION {Held(stk[i]) : i \in DOMAIN stk}

\* What is known of an activation, given the size of the heap.
FrameOK(f, h) ==
  /\ f.n \in 1..h
  /\ Closed(f.copy, h)
  /\ f.pre \in 0..h \cup {Self}
  /\ f.extra => f.phase = "kids" /\ f.pre \in 1..h /\ f.pre # f.n
  /\ ~f.extra /\ f.phase \notin {"returned", "transformed"} => f.pre = Self
  /\ f.phase \in {"visit_kid", "transform_child"} => f.idx \in DOMAIN f.copy.kids
  /\ f.phase = "preorder" => f.idx = 1
  /\ f.idx >= 1

\* An activation in whose midst g was started waits for a child.
Waiting(f) ==
  f.phase \in {"kids", "visit_kid", "transform_child"} /\ f.idx \in DOMAIN f.copy.kids

Linked(g, f) == Waiting(f) /\ g.n = f.copy.kids[f.idx]

\* The prune_flag that activation i will find when it goes on.
flagOf(stk, fl, i) == IF i = 1 THEN fl ELSE stk[i - 1].save

NoOther(p) == "other" \notin p.post

\* A node of the IR that was visited, or a node made by the pass.
Seen(p, a, D) == a \in DOMAIN p.kids => a \in D

\* The node whose children an activation visits, and how far it is.
object(f) == IF f.extra THEN f.pre ELSE f.n
Reached(f) == IF f.phase = "kids" THEN f.idx ELSE 1

\* Will f visit the children of its node, or does it already?
Walks(f, pruned) ==
  f.phase \in {"kids", "preorder"} \/ (f.phase = "returned" /\ f.pre = Self /\ ~pruned)

\* The children it has reached were visited; the others are still there.
KidsOK(p, f, D) ==
  /\ f.phase \in {"preorder", "returned"} => f.idx = 1
  /\ \A i \in DOMAIN f.copy.kids : i < Reached(f) => Seen(p, f.copy.kids[i], D)
  /\ object(f) \in DOMAIN p.kids =>
       /\ Len(f.copy.kids) = Len(p.kids[object(f)])
       /\ \A i \in DOMAIN f.copy.kids :
            \/ p.kids[object(f)][i] \in D
            \/ i >= Reached(f) /\ f.copy.kids[i] = p.kids[object(f)][i]

\* The pass has every node visited once, or every time it is reached.
Uniform(p) == p.calls = {}
Once(p) == Uniform(p) /\ p.visitDagOnce

IsDone(vis, a) == a \in DOMAIN vis /\ ~vis[a].busy

\* If every node is visited once, the children an activation has visited are
\* done, and so is what preorder returned unless it is a new node or a child.
\* A node that preorder returned is not among its own children.
OnceOK(f, vis, hp) ==
  /\ f.phase = "kids" =>
       \A j \in DOMAIN f.copy.kids :
         j < f.idx => f.copy.kids[j] = Null \/ IsDone(vis, f.copy.kids[j])
  /\ f.phase # "transformed" /\ f.pre > Null =>
       \/ hp[f.pre].label = 1
       \/ \E j \in DOMAIN hp[f.n].kids : hp[f.n].kids[j] = f.pre
       \/ ~f.extra /\ IsDone(vis, f.pre)
  /\ f.phase \in {"preorder", "visit_kid", "transform_child"} =>
       \A j \in DOMAIN f.copy.kids :
         \/ j \in DOMAIN hp[f.n].kids /\ f.copy.kids[j] = hp[f.n].kids[j]
         \/ IsDone(vis, f.copy.kids[j])
  /\ f.phase = "transformed" => f.pre = Null \/ IsDone(vis, f.pre)
  /\ f.extra =>
       /\ DOMAIN f.copy.kids = DOMAIN hp[f.pre].kids
       /\ \A j \in DOMAIN f.copy.kids :
            IF j < f.idx THEN hp[f.pre].kids[j] # f.pre
                         ELSE f.copy.kids[j] = hp[f.pre].kids[j]

FrameFits(p, f, fl, vis, hp, D) ==
  /\ FrameOK(f, Len(hp))
  /\ f.phase = "visit_kid" => fl
  /\ f.phase = "returned" => f.idx = 1 \/ (fl /\ f.pre = Self)
  /\ NoOther(p) /\ Walks(f, fl) => KidsOK(p, f, D)
  /\ Once(p) => OnceOK(f, vis, hp)

StackFits(p, stk, vis, hp, D, fl) ==
  /\ \A i \in DOMAIN stk : FrameFits(p, stk[i], flagOf(stk, fl, i), vis, hp, D)
  /\ \A i \in DOMAIN stk : i > 1 => Linked(stk[i - 1], stk[i])
  /\ \A i, j \in DOMAIN stk : i # j => Held(stk[i]) \cap Held(stk[j]) = {}

(***************************************************************************)
(* The tracker.                                                            *)
(***************************************************************************)
VisTyped(vis, h) ==
  /\ DOMAIN vis \subseteq 1..h
  /\ \A n \in DOMAIN vis :
       vis[n] \in [busy : BOOLEAN, once : BOOLEAN, result : 0..h]

BusyAre(vis, S) == \A n : n \in S <=> n \in DOMAIN vis /\ vis[n].busy

\* If every node is visited once, a node that is being visited has no result
\* yet, and results are nodes that are done, or will be (X) when apply_visitor
\* is through with them.
Plainly(p, vis, X) ==
  Uniform(p) =>
    \A n \in DOMAIN vis :
      /\ vis[n].once = p.visitDagOnce
      /\ Once(p) /\ vis[n].busy => vis[n].result = n
      /\ Once(p) /\ ~vis[n].busy => \/ vis[n].result \in {Null} \cup X
                                    \/ IsDone(vis, vis[n].result)

\* What the tracker takes for done was visited.
Met(p, vis, D) ==
  NoOther(p) =>
    \A n \in DOMAIN vis :
      /\ ~vis[n].busy => Seen(p, n, D)
      /\ Seen(p, vis[n].result, D) \/ vis[n].result = n

Agrees(p, vis, lst) ==
  Once(p) =>
    /\ DOMAIN lst \subseteq DOMAIN vis
    /\ \A n \in DOMAIN lst : ~vis[n].busy => vis[n].result = lst[n]

TrackerFits(p, vis, S, h, lst, X) ==
  /\ VisTyped(vis, h)
  /\ BusyAre(vis, S)
  /\ Plainly(p, vis, X)
  /\ Met(p, vis, DOMAIN lst)
  /\ Agrees(p, vis, lst)

PostOK ==
  NoOther(pass) =>
    \A n \in Orig \cap DOMAIN did.post :
      \A i \in DOMAIN Kids[n] : Kids[n][i] \in DOMAIN last

VisitOK ==
  /\ Shape
  /\ HeapOK(pass, heap)
  /\ StackFits(pass, stack, visited, heap, DOMAIN last, prune_flag)
  /\ stack # << >> =>
       TrackerFits(pass, visited, HeldBy(stack), Len(heap), last, {})

IInv == VisitOK /\ PostOK

-----------------------------------------------------------------------------
(***************************************************************************)
(* Lemmas about sequences and functions.                                   *)
(***************************************************************************)
\* The first element of a sequence and the rest.
LEMMA TopAndRest ==
  ASSUME NEW S, NEW s \in Seq(S), s # << >>
  PROVE  /\ Head(s) = s[1] /\ s[1] \in S /\ 1 \in DOMAIN s
         /\ DOMAIN s = 1..Len(s) /\ Len(s) \in Nat \ {0}
         /\ Tail(s) \in Seq(S) /\ Len(Tail(s)) = Len(s) - 1
         /\ DOMAIN Tail(s) = 1..(Len(s) - 1)
         /\ \A i \in 1..(Len(s) - 1) : Tail(s)[i] = s[i + 1]
  <1>1. Len(s) \in Nat \ {0} /\ DOMAIN s = 1..Len(s) OBVIOUS
  <1>2. Head(s) = s[1] /\ s[1] \in S BY <1>1
  <1>3. Tail(s) \in Seq(S) /\ Len(Tail(s)) = Len(s) - 1 BY <1>1
  <1>4. DOMAIN Tail(s) = 1..(Len(s) - 1) BY <1>3
  <1>5. \A i \in 1..(Len(s) - 1) : Tail(s)[i] = s[i + 1] BY <1>1, <1>3
  <1> QED BY <1>1, <1>2, <1>3, <1>4, <1>5

\* A sequence with an element put in front.
LEMMA InFront ==
  ASSUME NEW S, NEW s \in Seq(S), NEW g \in S
  PROVE  /\ <<g>> \o s \in Seq(S) /\ <<g>> \o s # << >>
         /\ Len(<<g>> \o s) = Len(s) + 1 /\ Len(s) \in Nat
         /\ DOMAIN (<<g>> \o s) = 1..(Len(s) + 1)
         /\ (<<g>> \o s)[1] = g
         /\ \A i \in 2..(Len(s) + 1) : (<<g>> \o s)[i] = s[i - 1]
  <1>1. <<g>> \in Seq(S) /\ Len(<<g>>) = 1 /\ <<g>>[1] = g OBVIOUS
  <1>2. <<g>> \o s \in Seq(S) /\ Len(<<g>> \o s) = Len(s) + 1 /\ Len(s) \in Nat
    BY <1>1
  <1>3. (<<g>> \o s)[1] = g BY <1>1
  <1>4. \A i \in 2..(Len(s) + 1) : (<<g>> \o s)[i] = s[i - 1] BY <1>1
  <1>5. <<g>> \o s # << >> /\ DOMAIN (<<g>> \o s) = 1..(Len(s) + 1) BY <1>2
  <1> QED BY <1>2, <1>3, <1>4, <1>5

-----------------------------------------------------------------------------
(***************************************************************************)
(* What holds of an activation stays true as the heap and the set of the   *)
(* nodes that were visited grow.                                           *)
(***************************************************************************)
\* hp2 holds the nodes of hp, and maybe more.
Grown(hp, hp2) ==
  /\ hp2 \in Seq(AnyContent) /\ Len(hp) <= Len(hp2)
  /\ \A a \in 1..Len(hp) : hp2[a] = hp[a]

\* A larger heap.
LEMMA FrameKept ==
  ASSUME NEW f \in Frames, NEW h \in Nat, NEW k \in Nat, h <= k, FrameOK(f, h)
  PROVE  FrameOK(f, k)
  <1>1. Closed(f.copy, k) BY DEF FrameOK, Closed
  <1>2. 0..h \subseteq 0..k /\ 1..h \subseteq 1..k OBVIOUS
  <1> QED BY <1>1, <1>2 DEF FrameOK

\* More nodes visited.
LEMMA KidsKept ==
  ASSUME NEW p, NEW f, NEW C, NEW D, C \subseteq D, KidsOK(p, f, C)
  PROVE  KidsOK(p, f, D)
  BY DEF KidsOK, Seen

\* More nodes done, in a larger heap.
LEMMA OnceKept ==
  ASSUME NEW f \in Frames, NEW vis, NEW vis2,
         NEW hp \in Seq(AnyContent), NEW hp2, Grown(hp, hp2),
         FrameOK(f, Len(hp)), OnceOK(f, vis, hp),
         \A a : IsDone(vis, a) => IsDone(vis2, a)
  PROVE  OnceOK(f, vis2, hp2)
  <1>1. f.n \in 1..Len(hp) /\ hp2[f.n] = hp[f.n] BY DEF FrameOK, Grown
  <1>2. f.pre > Null => hp2[f.pre] = hp[f.pre]
    BY DEF FrameOK, Grown, Null, Self
  <1>3. f.extra => hp2[f.pre] = hp[f.pre] BY DEF FrameOK, Grown
  <1> HIDE DEF IsDone
  <1>4. f.phase = "kids" =>
          \A j \in DOMAIN f.copy.kids :
            j < f.idx => f.copy.kids[j] = Null \/ IsDone(vis2, f.copy.kids[j])
    BY DEF OnceOK
  <1>5. f.phase # "transformed" /\ f.pre > Null =>
          \/ hp2[f.pre].label = 1
          \/ \E j \in DOMAIN hp2[f.n].kids : hp2[f.n].kids[j] = f.pre
          \/ ~f.extra /\ IsDone(vis2, f.pre)
    BY <1>1, <1>2 DEF OnceOK
  <1>6. f.phase \in {"preorder", "visit_kid", "transform_child"} =>
          \A j \in DOMAIN f.copy.kids :
            \/ j \in DOMAIN hp2[f.n].kids /\ f.copy.kids[j] = hp2[f.n].kids[j]
            \/ IsDone(vis2, f.copy.kids[j])
    BY <1>1 DEF OnceOK
  <1>7. f.phase = "transformed" => f.pre = Null \/ IsDone(vis2, f.pre)
    BY DEF OnceOK
  <1>8. f.extra =>
          /\ DOMAIN f.copy.kids = DOMAIN hp2[f.pre].kids
          /\ \A j \in DOMAIN f.copy.kids :
               IF j < f.idx THEN hp2[f.pre].kids[j] # f.pre
                            ELSE f.copy.kids[j] = hp2[f.pre].kids[j]
    BY <1>3 DEF OnceOK
  <1> QED BY <1>4, <1>5, <1>6, <1>7, <1>8 DEF OnceOK

-----------------------------------------------------------------------------
(***************************************************************************)
(* The tracker.                                                            *)
(***************************************************************************)
StartOf(vis, n, once, v) ==
  /\ DOMAIN v = DOMAIN vis \cup {n}
  /\ \A m \in DOMAIN vis : m # n => v[m] = vis[m]
  /\ v[n].busy
  /\ n \in DOMAIN vis => v[n].once = vis[n].once /\ v[n].result = vis[n].result
  /\ n \notin DOMAIN vis => v[n].once = once /\ v[n].result = n

\* try_start marks one node, which is entered if it is new.
LEMMA TryStartIs ==
  ASSUME NEW vis, NEW n, NEW once \in BOOLEAN, NEW h \in Nat,
         VisTyped(vis, h), n \in 1..h, NEW v, v = try_start(vis, n, once)
  PROVE  StartOf(vis, n, once, v) /\ VisTyped(v, h)
  <1>1. CASE n \in DOMAIN vis
    <2>1. vis[n] \in [busy : BOOLEAN, once : BOOLEAN, result : 0..h]
      BY <1>1 DEF VisTyped
    <2>2. v = [vis EXCEPT ![n].busy = TRUE] BY <1>1 DEF try_start
    <2>3. DOMAIN v = DOMAIN vis /\ \A m \in DOMAIN vis : m # n => v[m] = vis[m]
      BY <2>2
    <2>4. v[n] = [vis[n] EXCEPT !.busy = TRUE] BY <1>1, <2>2
    <2>5. /\ v[n] \in [busy : BOOLEAN, once : BOOLEAN, result : 0..h]
          /\ v[n].busy /\ v[n].once = vis[n].once /\ v[n].result = vis[n].result
      BY <2>1, <2>4
    <2>6. VisTyped(v, h) BY <1>1, <2>3, <2>5 DEF VisTyped
    <2> QED BY <1>1, <2>3, <2>5, <2>6 DEF StartOf
  <1>2. CASE n \notin DOMAIN vis
    <2>1. v = [m \in DOMAIN vis \cup {n} |->
                 IF m = n THEN [busy |-> TRUE, once |-> once, result |-> n] ELSE vis[m]]
      BY <1>2 DEF try_start
    <2>2. /\ DOMAIN v = DOMAIN vis \cup {n}
          /\ \A m \in DOMAIN vis : m # n => v[m] = vis[m]
          /\ v[n] = [busy |-> TRUE, once |-> once, result |-> n]
      BY <1>2, <2>1
    <2>3. /\ v[n] \in [busy : BOOLEAN, once : BOOLEAN, result : 0..h]
          /\ v[n].busy /\ v[n].once = once /\ v[n].result = n
      BY <2>2
    <2>4. VisTyped(v, h) BY <2>2, <2>3 DEF VisTyped
    <2> QED BY <1>2, <2>2, <2>3, <2>4 DEF StartOf
  <1> QED BY <1>1, <1>2

FinishOf(vis, orig, final, changed, v) ==
  /\ DOMAIN vis \subseteq DOMAIN v
  /\ \A m \in DOMAIN vis : m # orig => v[m] = vis[m]
  /\ ~v[orig].busy /\ v[orig].once = vis[orig].once
  /\ v[orig].result = IF changed THEN final ELSE vis[orig].result
  /\ \A m \in DOMAIN v \ DOMAIN vis :
       /\ m = final /\ ~v[m].busy /\ v[m].once = vis[orig].once
       /\ v[m].result = m
  /\ changed => final = Null \/ final \in DOMAIN v

\* finish frees one node and may enter the final one.
LEMMA FinishIs ==
  ASSUME NEW vis, NEW hp, NEW h \in Nat, VisTyped(vis, h),
         NEW orig \in DOMAIN vis, NEW final,
         NEW changed, changed = finish_changed(vis, hp, orig, final),
         changed => final \in 0..h, NEW v, v = finish(vis, hp, orig, final)
  PROVE  FinishOf(vis, orig, final, changed, v) /\ VisTyped(v, h)
  <1> DEFINE new == IF final # Null /\ Differs(hp, orig, final)
                    THEN {final} \ DOMAIN vis ELSE {}
  <1>1. v = [m \in DOMAIN vis \cup new |->
              CASE m = orig -> [vis[m] EXCEPT !.busy = FALSE,
                                 !.result = IF changed THEN final ELSE @]
                [] m \in new -> [busy |-> FALSE, once |-> vis[orig].once,
                                 result |-> final]
                [] OTHER -> vis[m]]
    BY DEF finish
  <1>2. vis[orig] \in [busy : BOOLEAN, once : BOOLEAN, result : 0..h]
    BY DEF VisTyped
  <1>3. changed \in BOOLEAN BY DEF finish_changed, Differs
  <1>4. new \subseteq {final} /\ new \cap DOMAIN vis = {} /\ orig \notin new
    OBVIOUS
  <1>5. new # {} => changed /\ final # Null BY DEF finish_changed
  <1>6. changed => final = Null \/ final \in DOMAIN vis \cup new
    BY DEF finish_changed
  <1>7. changed => final \in 0..h OBVIOUS
  <1> HIDE DEF new
  <1>8. DOMAIN v = DOMAIN vis \cup new BY <1>1
  <1>9. v[orig] = [vis[orig] EXCEPT !.busy = FALSE,
                    !.result = IF changed THEN final ELSE @]
    BY <1>1, <1>4
  <1>10. \A m \in DOMAIN vis : m # orig => v[m] = vis[m] BY <1>1, <1>4
  <1>11. \A m \in new :
           v[m] = [busy |-> FALSE, once |-> vis[orig].once, result |-> final]
    BY <1>1, <1>4
  <1>12. /\ ~v[orig].busy /\ v[orig].once = vis[orig].once
         /\ v[orig].result = IF changed THEN final ELSE vis[orig].result
         /\ v[orig] \in [busy : BOOLEAN, once : BOOLEAN, result : 0..h]
    BY <1>2, <1>3, <1>7, <1>9
  <1>13. \A m \in new :
           /\ m = final /\ ~v[m].busy /\ v[m].once = vis[orig].once /\ v[m].result = m
           /\ v[m] \in [busy : BOOLEAN, once : BOOLEAN, result : 0..h]
    <2> TAKE m \in new
    <2>1. m = final /\ m \in 0..h BY <1>4, <1>5, <1>7
    <2>2. v[m] = [busy |-> FALSE, once |-> vis[orig].once, result |-> m]
      BY <1>11, <2>1
    <2>3. vis[orig].once \in BOOLEAN BY <1>2
    <2>4. v[m] \in [busy : BOOLEAN, once : BOOLEAN, result : 0..h]
      BY <2>1, <2>2, <2>3
    <2>5. ~v[m].busy /\ v[m].once = vis[orig].once /\ v[m].result = m BY <2>2
    <2> QED BY <2>1, <2>4, <2>5
  <1>14. DOMAIN v \subseteq 1..h
    <2>1. \A m \in new : m \in 1..h BY <1>4, <1>5, <1>7 DEF Null
    <2> QED BY <1>8, <2>1 DEF VisTyped
  <1>15. VisTyped(v, h)
    <2> SUFFICES ASSUME NEW m \in DOMAIN v
                 PROVE  v[m] \in [busy : BOOLEAN, once : BOOLEAN, result : 0..h]
      BY <1>14 DEF VisTyped
    <2>1. CASE m = orig BY <1>12, <2>1
    <2>2. CASE m \in new BY <1>13, <2>2
    <2>3. CASE m \in DOMAIN vis /\ m # orig BY <1>10, <2>3 DEF VisTyped
    <2> QED BY <1>8, <2>1, <2>2, <2>3
  <1>16. \A m \in DOMAIN v \ DOMAIN vis :
           m = final /\ ~v[m].busy /\ v[m].once = vis[orig].once /\ v[m].result = m
    BY <1>8, <1>13
  <1> QED BY <1>6, <1>8, <1>10, <1>12, <1>15, <1>16 DEF FinishOf

-----------------------------------------------------------------------------
(***************************************************************************)
(* An activation that is given the result of the child it waited for.      *)
(***************************************************************************)
Resumed(f, ret) ==
  CASE f.phase = "kids" -> [f EXCEPT !.copy.kids[f.idx] = ret, !.idx = @ + 1]
    [] f.phase = "visit_kid" ->
         [f EXCEPT !.copy.kids[f.idx] = ret, !.phase = "returned"]
    [] f.phase = "transform_child" -> [f EXCEPT !.pre = ret, !.phase = "transformed"]

\* Resume is about the innermost activation.
LEMMA ResumeIs ==
  ASSUME NEW s, s # << >>, NEW ret
  PROVE  Resume(s, ret) = <<Resumed(Head(s), ret)>> \o Tail(s)
  BY DEF Resume, Resumed

\* The children of the IR's nodes.
LEMMA KidsTyped ==
  ASSUME NEW p \in Passes
  PROVE  /\ DOMAIN p.kids = 1..Len(p.kids) /\ Len(p.kids) \in Nat
         /\ p.kids \in Seq(Seq(DOMAIN p.kids))
         /\ \A n \in DOMAIN p.kids : p.kids[n] \in Seq(DOMAIN p.kids)
         /\ \A n \in DOMAIN p.kids : \A i \in DOMAIN p.kids[n] :
              p.kids[n][i] \in DOMAIN p.kids
         /\ Root \in DOMAIN p.kids
  <1>1. p.kids \in Seq(Seq(DOMAIN p.kids)) /\ Root \in DOMAIN p.kids
    BY TransformAssumption
  <1>2. PICK ks, O : ks = p.kids /\ O = DOMAIN p.kids OBVIOUS
  <1>3. ks \in Seq(Seq(O)) /\ O = DOMAIN ks BY <1>1, <1>2
  <1>4. O = 1..Len(ks) /\ Len(ks) \in Nat BY <1>3
  <1>5. \A n \in O : ks[n] \in Seq(O) BY <1>3, <1>4
  <1>6. \A n \in O : \A i \in DOMAIN ks[n] : ks[n][i] \in O BY <1>5
  <1> QED BY <1>1, <1>2, <1>4, <1>5, <1>6

\* A node is added to the heap.
LEMMA HeapAppended ==
  ASSUME NEW p \in Passes, NEW hp \in Seq(AnyContent), HeapOK(p, hp),
         NEW c \in AnyContent, Closed(c, Len(hp)), NEW k, k = Append(hp, c)
  PROVE  Grown(hp, k) /\ HeapOK(p, k)
  <1>1. /\ k \in Seq(AnyContent) /\ Len(k) = Len(hp) + 1 /\ k[Len(hp) + 1] = c
        /\ \A a \in 1..Len(hp) : k[a] = hp[a]
        /\ Len(hp) \in Nat
    OBVIOUS
  <1>2. DOMAIN k = 1..(Len(hp) + 1) /\ DOMAIN hp = 1..Len(hp) BY <1>1
  <1>3. \A a \in DOMAIN k : Closed(k[a], Len(k))
    <2> TAKE a \in DOMAIN k
    <2>1. CASE a = Len(hp) + 1 BY <1>1, <2>1 DEF Closed
    <2>2. CASE a # Len(hp) + 1
      <3>1. a \in DOMAIN hp /\ k[a] = hp[a] BY <1>1, <1>2, <2>2
      <3>2. Closed(hp[a], Len(hp)) BY <3>1 DEF HeapOK
      <3> QED BY <1>1, <3>1, <3>2 DEF Closed
    <2> QED BY <2>1, <2>2
  <1>4. /\ Len(p.kids) <= Len(hp)
        /\ \A n \in DOMAIN p.kids : hp[n].kids = p.kids[n] /\ hp[n].label = 0
    BY DEF HeapOK
  <1>5. DOMAIN p.kids = 1..Len(p.kids) /\ Len(p.kids) \in Nat BY KidsTyped
  <1>6. \A n \in DOMAIN p.kids : k[n] = hp[n] BY <1>1, <1>4, <1>5
  <1>7. HeapOK(p, k) BY <1>1, <1>3, <1>4, <1>5, <1>6 DEF HeapOK
  <1> QED BY <1>1, <1>7 DEF Grown

\* What is replaced in the activation.
LEMMA ResumedFields ==
  ASSUME NEW f \in Frames, Waiting(f), NEW ret \in Nat, NEW g, g = Resumed(f, ret)
  PROVE  /\ g \in Frames
         /\ g.n = f.n /\ g.extra = f.extra /\ g.save = f.save
         /\ DOMAIN g.copy.kids = DOMAIN f.copy.kids
         /\ Len(g.copy.kids) = Len(f.copy.kids)
         /\ \A i \in DOMAIN f.copy.kids :
              /\ g.copy.kids[i] \in {f.copy.kids[i], ret}
              /\ i # f.idx => g.copy.kids[i] = f.copy.kids[i]
         /\ f.phase = "kids" =>
              /\ g.phase = "kids" /\ g.idx = f.idx + 1 /\ g.pre = f.pre
              /\ g.copy.kids[f.idx] = ret
         /\ f.phase = "visit_kid" =>
              g.phase = "returned" /\ g.idx = f.idx /\ g.pre = f.pre
         /\ f.phase = "transform_child" =>
              g.phase = "transformed" /\ g.idx = f.idx /\ g.pre = ret
  <1>1. /\ f.copy \in AnyContent /\ f.copy.kids \in Seq(Nat) /\ f.idx \in Nat
        /\ DOMAIN f.copy.kids = 1..Len(f.copy.kids) /\ f.idx \in DOMAIN f.copy.kids
    BY DEF Frames, AnyContent, Waiting
  <1> DEFINE ks == [f.copy.kids EXCEPT ![f.idx] = ret]
  <1>2. /\ ks \in Seq(Nat) /\ DOMAIN ks = DOMAIN f.copy.kids
        /\ Len(ks) = Len(f.copy.kids) /\ ks[f.idx] = ret
        /\ \A i \in DOMAIN f.copy.kids : i # f.idx => ks[i] = f.copy.kids[i]
    BY <1>1
  <1> DEFINE co == [f.copy EXCEPT !.kids = ks]
  <1> HIDE DEF ks
  <1>3. co \in AnyContent /\ co.kids = ks BY <1>1, <1>2 DEF AnyContent
  <1> HIDE DEF co
  <1>4. CASE f.phase = "kids"
    <2>1. g = [f EXCEPT !.copy = co, !.idx = f.idx + 1]
      BY <1>4 DEF Resumed, co, ks, Frames
    <2>2. g \in Frames /\ g.copy = co /\ g.idx = f.idx + 1 /\ g.phase = "kids"
      <3>1. PICK k \in Nat : k = f.idx + 1 BY <1>1
      <3> QED BY <1>3, <1>4, <2>1, <3>1 DEF Frames
    <2>3. g.n = f.n /\ g.extra = f.extra /\ g.save = f.save /\ g.pre = f.pre
      BY <2>1 DEF Frames
    <2> QED BY <1>2, <1>3, <1>4, <2>2, <2>3
  <1>5. CASE f.phase = "visit_kid"
    <2>1. g = [f EXCEPT !.copy = co, !.phase = "returned"]
      BY <1>5 DEF Resumed, co, ks, Frames
    <2>2. g \in Frames /\ g.copy = co /\ g.idx = f.idx /\ g.phase = "returned"
      BY <1>1, <1>3, <1>5, <2>1 DEF Frames, Phases
    <2>3. g.n = f.n /\ g.extra = f.extra /\ g.save = f.save /\ g.pre = f.pre
      BY <2>1 DEF Frames
    <2> QED BY <1>2, <1>3, <1>5, <2>2, <2>3
  <1>6. CASE f.phase = "transform_child"
    <2>1. g = [f EXCEPT !.pre = ret, !.phase = "transformed"]
      BY <1>6 DEF Resumed
    <2>2. /\ g \in Frames /\ g.copy = f.copy /\ g.idx = f.idx
          /\ g.phase = "transformed" /\ g.pre = ret
      <3>1. PICK k \in Int : k = ret OBVIOUS
      <3>2. g = [f EXCEPT !.pre = k, !.phase = "transformed"] BY <2>1, <3>1
      <3>3. "transformed" \in Phases BY DEF Phases
      <3> QED BY <3>1, <3>2, <3>3 DEF Frames
    <2>3. g.n = f.n /\ g.extra = f.extra /\ g.save = f.save
      BY <2>1 DEF Frames
    <2> QED BY <1>6, <2>2, <2>3
  <1> QED BY <1>4, <1>5, <1>6 DEF Waiting

\* A result in the heap.
LEMMA ResumedFrame ==
  ASSUME NEW f \in Frames, Waiting(f), NEW h \in Nat, FrameOK(f, h),
         NEW ret \in 0..h, NEW g, g = Resumed(f, ret)
  PROVE  FrameOK(g, h)
  <1>1. ret \in Nat OBVIOUS
  <1>2. /\ g.n = f.n /\ g.extra = f.extra
        /\ DOMAIN g.copy.kids = DOMAIN f.copy.kids
        /\ \A i \in DOMAIN f.copy.kids : g.copy.kids[i] \in {f.copy.kids[i], ret}
        /\ f.phase = "kids" => g.phase = "kids" /\ g.idx = f.idx + 1 /\ g.pre = f.pre
        /\ f.phase = "visit_kid" =>
             g.phase = "returned" /\ g.idx = f.idx /\ g.pre = f.pre
        /\ f.phase = "transform_child" =>
             g.phase = "transformed" /\ g.idx = f.idx /\ g.pre = ret
    BY <1>1, ResumedFields
  <1>3. Closed(g.copy, h) BY <1>2 DEF FrameOK, Closed
  <1>4. f.idx \in Nat BY DEF Frames
  <1> QED BY <1>2, <1>3, <1>4 DEF FrameOK, Waiting

\* A child that was visited, with a result that was.
LEMMA ResumedKids ==
  ASSUME NEW p \in Passes, NEW f \in Frames, Waiting(f), f.phase = "kids",
         NEW D, KidsOK(p, f, D), NEW ret \in Nat, Seen(p, ret, D),
         Seen(p, f.copy.kids[f.idx], D), NEW g, g = Resumed(f, ret)
  PROVE  KidsOK(p, g, D)
  <1>1. /\ g.n = f.n /\ g.extra = f.extra /\ g.pre = f.pre /\ g.phase = "kids"
        /\ DOMAIN g.copy.kids = DOMAIN f.copy.kids
        /\ Len(g.copy.kids) = Len(f.copy.kids)
        /\ g.idx = f.idx + 1 /\ g.copy.kids[f.idx] = ret
        /\ \A i \in DOMAIN f.copy.kids : i # f.idx => g.copy.kids[i] = f.copy.kids[i]
    BY ResumedFields
  <1>2. object(g) = object(f) /\ Reached(g) = f.idx + 1 /\ Reached(f) = f.idx
    BY <1>1 DEF object, Reached
  <1>3. f.idx \in Nat /\ f.copy.kids \in Seq(Nat) BY DEF Frames, AnyContent
  <1>4. \A i \in DOMAIN f.copy.kids : i \in Nat BY <1>3
  <1>5. \A i \in DOMAIN g.copy.kids : i < Reached(g) => Seen(p, g.copy.kids[i], D)
    <2> SUFFICES ASSUME NEW i \in DOMAIN f.copy.kids, i < f.idx + 1
                 PROVE  Seen(p, g.copy.kids[i], D)
      BY <1>1, <1>2
    <2>1. CASE i = f.idx BY <1>1, <2>1
    <2>2. CASE i < f.idx BY <1>1, <1>2, <1>3, <1>4, <2>2 DEF KidsOK
    <2> QED BY <1>3, <1>4, <2>1, <2>2
  <1>6. ASSUME object(g) \in DOMAIN p.kids
        PROVE  /\ Len(g.copy.kids) = Len(p.kids[object(g)])
               /\ \A i \in DOMAIN g.copy.kids :
                    \/ p.kids[object(g)][i] \in D
                    \/ i >= Reached(g) /\ g.copy.kids[i] = p.kids[object(g)][i]
    <2>1. Len(f.copy.kids) = Len(p.kids[object(f)]) BY <1>2, <1>6 DEF KidsOK
    <2>2. SUFFICES ASSUME NEW i \in DOMAIN f.copy.kids, p.kids[object(f)][i] \notin D
                   PROVE  i >= Reached(g) /\ g.copy.kids[i] = p.kids[object(f)][i]
      BY <1>1, <1>2, <2>1
    <2>3. i >= f.idx /\ f.copy.kids[i] = p.kids[object(f)][i]
      BY <1>2, <1>6, <2>2 DEF KidsOK
    <2>4. i # f.idx
      <3>1. p.kids[object(f)] \in Seq(DOMAIN p.kids) BY <1>2, <1>6, KidsTyped
      <3>2. i \in DOMAIN p.kids[object(f)] BY <1>3, <2>1, <3>1
      <3>3. p.kids[object(f)][i] \in DOMAIN p.kids BY <1>2, <1>6, <3>2, KidsTyped
      <3> QED BY <2>2, <2>3, <3>3 DEF Seen
    <2>5. g.copy.kids[i] = p.kids[object(f)][i] BY <1>1, <2>3, <2>4
    <2>6. i >= f.idx + 1 BY <1>3, <1>4, <2>3, <2>4
    <2> QED BY <1>2, <2>5, <2>6
  <1> QED BY <1>1, <1>5, <1>6 DEF KidsOK

\* A result that is done, of a child other than the node itself.
LEMMA ResumedOnce ==
  ASSUME NEW f \in Frames, Waiting(f), NEW vis, NEW hp, OnceOK(f, vis, hp),
         NEW ret \in Nat, ret = Null \/ IsDone(vis, ret),
         ~f.extra /\ f.phase # "kids" => f.pre = Self,
         f.extra => f.phase = "kids",
         f.extra => f.copy.kids[f.idx] # f.pre, NEW g, g = Resumed(f, ret)
  PROVE  OnceOK(g, vis, hp)
  <1>1. /\ g.n = f.n /\ g.extra = f.extra
        /\ DOMAIN g.copy.kids = DOMAIN f.copy.kids
        /\ \A i \in DOMAIN f.copy.kids :
             i # f.idx => g.copy.kids[i] = f.copy.kids[i]
        /\ f.phase = "kids" =>
             /\ g.phase = "kids" /\ g.idx = f.idx + 1 /\ g.pre = f.pre
             /\ g.copy.kids[f.idx] = ret
        /\ f.phase = "visit_kid" => g.phase = "returned" /\ g.pre = f.pre
        /\ f.phase = "transform_child" => g.phase = "transformed" /\ g.pre = ret
    BY ResumedFields
  <1>2. f.idx \in Nat /\ f.copy.kids \in Seq(Nat) BY DEF Frames, AnyContent
  <1>3. \A i \in DOMAIN f.copy.kids : i \in Nat BY <1>2
  <1>4. CASE f.phase = "kids"
    <2>1. \A j \in DOMAIN g.copy.kids :
            j < g.idx => g.copy.kids[j] = Null \/ IsDone(vis, g.copy.kids[j])
      <3> TAKE j \in DOMAIN g.copy.kids
      <3>1. CASE j = f.idx BY <1>1, <1>4, <3>1
      <3>2. CASE j # f.idx
        <4>1. j < g.idx => j < f.idx BY <1>1, <1>2, <1>3, <1>4, <3>2
        <4> QED BY <1>1, <1>4, <3>2, <4>1 DEF OnceOK
      <3> QED BY <3>1, <3>2
    <2>2. g.pre > Null =>
            \/ hp[g.pre].label = 1
            \/ \E j \in DOMAIN hp[g.n].kids : hp[g.n].kids[j] = g.pre
            \/ ~g.extra /\ IsDone(vis, g.pre)
      BY <1>1, <1>4 DEF OnceOK
    <2>3. ASSUME g.extra
          PROVE  /\ DOMAIN g.copy.kids = DOMAIN hp[g.pre].kids
                 /\ \A j \in DOMAIN g.copy.kids :
                      IF j < g.idx THEN hp[g.pre].kids[j] # g.pre
                                   ELSE g.copy.kids[j] = hp[g.pre].kids[j]
      <3>1. /\ DOMAIN f.copy.kids = DOMAIN hp[f.pre].kids
            /\ \A j \in DOMAIN f.copy.kids :
                 IF j < f.idx THEN hp[f.pre].kids[j] # f.pre
                              ELSE f.copy.kids[j] = hp[f.pre].kids[j]
        BY <1>1, <2>3 DEF OnceOK
      <3>2. f.idx \in DOMAIN f.copy.kids => hp[f.pre].kids[f.idx] # f.pre
        BY <1>1, <1>2, <2>3, <3>1
      <3> SUFFICES ASSUME NEW j \in DOMAIN f.copy.kids
                   PROVE  IF j < f.idx + 1 THEN hp[f.pre].kids[j] # f.pre
                                           ELSE g.copy.kids[j] = hp[f.pre].kids[j]
        BY <1>1, <1>4, <3>1
      <3>3. CASE j = f.idx BY <1>2, <3>2, <3>3
      <3>4. CASE j < f.idx BY <1>2, <1>3, <3>1, <3>4
      <3>5. CASE j > f.idx
        <4>1. ~ (j < f.idx + 1) /\ ~ (j < f.idx) /\ j # f.idx
          BY <1>2, <1>3, <3>5
        <4>2. g.copy.kids[j] = f.copy.kids[j] BY <1>1, <4>1
        <4>3. f.copy.kids[j] = hp[f.pre].kids[j] BY <3>1, <4>1
        <4> QED BY <4>1, <4>2, <4>3
      <3> QED BY <1>2, <1>3, <3>3, <3>4, <3>5
    <2> QED BY <1>1, <1>4, <2>1, <2>2, <2>3 DEF OnceOK
  <1>5. CASE f.phase = "visit_kid"
    <2>1. ~g.extra /\ g.pre = Self /\ g.phase = "returned" BY <1>1, <1>5
    <2> QED BY <2>1 DEF OnceOK, Self, Null
  <1>6. CASE f.phase = "transform_child"
    <2>1. ~g.extra /\ g.pre = ret /\ g.phase = "transformed" BY <1>1, <1>6
    <2> QED BY <2>1 DEF OnceOK
  <1> QED BY <1>4, <1>5, <1>6 DEF Waiting

-----------------------------------------------------------------------------
(***************************************************************************)
(* Stacks of activations.                                                  *)
(***************************************************************************)
\* Nodes that are done stay so.
DoneKept(p, vis, vis2) == Once(p) => \A a : IsDone(vis, a) => IsDone(vis2, a)

\* Activation g may be started in the midst of the first one of s.
Atop(g, s) ==
  /\ s # << >> => Linked(g, s[1])
  /\ Held(g) \cap HeldBy(s) = {}

\* An activation that is not touched still fits.
LEMMA FitsKept ==
  ASSUME NEW p, NEW f \in Frames, NEW fl \in BOOLEAN, NEW vis, NEW vis2,
         NEW hp \in Seq(AnyContent), NEW hp2, Grown(hp, hp2),
         NEW C, NEW D, C \subseteq D,
         DoneKept(p, vis, vis2),
         FrameFits(p, f, fl, vis, hp, C)
  PROVE  FrameFits(p, f, fl, vis2, hp2, D)
  <1>1. Len(hp) \in Nat /\ Len(hp2) \in Nat /\ Len(hp) <= Len(hp2)
    BY DEF Grown
  <1>2. FrameOK(f, Len(hp)) BY DEF FrameFits
  <1>3. FrameOK(f, Len(hp2)) BY <1>1, <1>2, FrameKept
  <1>4. NoOther(p) /\ Walks(f, fl) => KidsOK(p, f, D)
    BY KidsKept DEF FrameFits
  <1>5. Once(p) => OnceOK(f, vis2, hp2)
    <2> SUFFICES ASSUME Once(p) PROVE OnceOK(f, vis2, hp2) OBVIOUS
    <2>1. OnceOK(f, vis, hp) BY DEF FrameFits
    <2>2. \A a : IsDone(vis, a) => IsDone(vis2, a) BY DEF DoneKept
    <2> HIDE DEF IsDone
    <2> QED BY <1>2, <2>1, <2>2, OnceKept
  <1>6. /\ f.phase = "visit_kid" => fl
        /\ f.phase = "returned" => f.idx = 1 \/ (fl /\ f.pre = Self)
    BY DEF FrameFits
  <1> QED BY <1>3, <1>4, <1>5, <1>6 DEF FrameFits

\* The stack without its innermost activation.
LEMMA FitsTail ==
  ASSUME NEW p, NEW s \in Seq(Frames), s # << >>, NEW fl \in BOOLEAN,
         NEW vis, NEW vis2, NEW hp \in Seq(AnyContent), NEW hp2, Grown(hp, hp2),
         NEW C, NEW D, C \subseteq D,
         DoneKept(p, vis, vis2),
         StackFits(p, s, vis, hp, C, fl)
  PROVE  /\ StackFits(p, Tail(s), vis2, hp2, D, s[1].save)
         /\ HeldBy(s) = Held(s[1]) \cup HeldBy(Tail(s))
         /\ Atop(s[1], Tail(s))
  <1> DEFINE t == Tail(s)
  <1>1. /\ DOMAIN s = 1..Len(s) /\ Len(s) \in Nat \ {0} /\ t \in Seq(Frames)
        /\ Len(t) = Len(s) - 1 /\ DOMAIN t = 1..(Len(s) - 1)
        /\ \A i \in 1..(Len(s) - 1) : t[i] = s[i + 1]
    BY TopAndRest
  <1>2. \A i \in DOMAIN s : s[i] \in Frames OBVIOUS
  <1> HIDE DEF t
  <1>3. ASSUME NEW i \in DOMAIN t
        PROVE  i + 1 \in DOMAIN s /\ i + 1 > 1 /\ i \in DOMAIN s /\ t[i] = s[i + 1]
    BY <1>1
  <1>4. ASSUME NEW i \in DOMAIN t
        PROVE  FrameFits(p, t[i], flagOf(t, s[1].save, i), vis2, hp2, D)
    <2>1. flagOf(t, s[1].save, i) = s[i].save
      <3>1. CASE i = 1 BY <3>1 DEF flagOf
      <3>2. CASE i # 1
        <4>1. i - 1 \in DOMAIN t /\ t[i - 1] = s[i] BY <1>1, <3>2
        <4> QED BY <3>2, <4>1 DEF flagOf
      <3> QED BY <3>1, <3>2
    <2>2. flagOf(s, fl, i + 1) = s[i].save BY <1>1, <1>3 DEF flagOf
    <2>3. FrameFits(p, s[i + 1], s[i].save, vis, hp, C)
      BY <1>3, <2>2 DEF StackFits
    <2>4. s[i + 1] \in Frames /\ s[i].save \in BOOLEAN BY <1>2, <1>3 DEF Frames
    <2>5. FrameFits(p, s[i + 1], s[i].save, vis2, hp2, D)
      BY <2>3, <2>4, FitsKept
    <2> QED BY <1>3, <2>1, <2>5
  <1>5. ASSUME NEW i \in DOMAIN t, i > 1 PROVE Linked(t[i - 1], t[i])
    <2>1. i - 1 \in DOMAIN t /\ t[i - 1] = s[i] BY <1>1, <1>5
    <2>2. Linked(s[(i + 1) - 1], s[i + 1]) BY <1>3 DEF StackFits
    <2>3. (i + 1) - 1 = i BY <1>1
    <2> QED BY <1>3, <2>1, <2>2, <2>3
  <1>6. ASSUME NEW i \in DOMAIN t, NEW j \in DOMAIN t, i # j
        PROVE  Held(t[i]) \cap Held(t[j]) = {}
    <2>1. i + 1 # j + 1 /\ i + 1 \in DOMAIN s /\ j + 1 \in DOMAIN s BY <1>1, <1>6
    <2> QED BY <1>3, <2>1 DEF StackFits
  <1>7. StackFits(p, t, vis2, hp2, D, s[1].save)
    BY <1>4, <1>5, <1>6 DEF StackFits
  <1>8. \A i \in DOMAIN t : Held(s[1]) \cap Held(t[i]) = {}
    <2> TAKE i \in DOMAIN t
    <2>1. 1 \in DOMAIN s /\ i + 1 \in DOMAIN s /\ i + 1 # 1 BY <1>1
    <2> QED BY <1>3, <2>1 DEF StackFits
  <1>9. Held(s[1]) \cap HeldBy(t) = {} BY <1>8 DEF HeldBy
  <1>10. HeldBy(s) = Held(s[1]) \cup HeldBy(t)
    <2>1. ASSUME NEW i \in DOMAIN s
          PROVE  Held(s[i]) \subseteq Held(s[1]) \cup HeldBy(t)
      <3>1. CASE i = 1 BY <3>1
      <3>2. CASE i # 1
        <4>1. i - 1 \in DOMAIN t /\ t[i - 1] = s[i] BY <1>1, <3>2
        <4> QED BY <4>1 DEF HeldBy
      <3> QED BY <3>1, <3>2
    <2>2. Held(s[1]) \subseteq HeldBy(s) BY <1>1 DEF HeldBy
    <2>3. HeldBy(t) \subseteq HeldBy(s) BY <1>3 DEF HeldBy
    <2> QED BY <2>1, <2>2, <2>3 DEF HeldBy
  <1>11. t # << >> => Linked(s[1], t[1])
    <2> SUFFICES ASSUME t # << >> PROVE Linked(s[1], t[1]) OBVIOUS
    <2>1. 1 \in DOMAIN t BY <1>1
    <2>2. Linked(s[(1 + 1) - 1], s[1 + 1]) BY <1>3, <2>1 DEF StackFits
    <2>3. t[1] = s[1 + 1] /\ (1 + 1) - 1 = 1 BY <1>3, <2>1
    <2> QED BY <2>2, <2>3
  <1> QED BY <1>7, <1>9, <1>10, <1>11 DEF Atop, t

Pushed(g, s) == <<g>> \o s

\* A new innermost activation.
LEMMA FitsFront ==
  ASSUME NEW p, NEW s \in Seq(Frames), NEW g \in Frames, NEW fl \in BOOLEAN,
         NEW vis, NEW hp, NEW D,
         StackFits(p, s, vis, hp, D, g.save),
         FrameFits(p, g, fl, vis, hp, D), Atop(g, s),
         NEW t, t = Pushed(g, s)
  PROVE  StackFits(p, t, vis, hp, D, fl)
  <1>1. /\ t \in Seq(Frames) /\ DOMAIN t = 1..(Len(s) + 1) /\ Len(s) \in Nat
        /\ t[1] = g /\ \A i \in 2..(Len(s) + 1) : t[i] = s[i - 1]
    BY InFront DEF Pushed
  <1>2. DOMAIN s = 1..Len(s) OBVIOUS
  <1>3. ASSUME NEW i \in DOMAIN t, i # 1
        PROVE  i - 1 \in DOMAIN s /\ t[i] = s[i - 1] /\ i > 1
    BY <1>1, <1>2, <1>3
  <1>4. ASSUME NEW i \in DOMAIN t
        PROVE  FrameFits(p, t[i], flagOf(t, fl, i), vis, hp, D)
    <2>1. CASE i = 1 BY <1>1, <2>1 DEF flagOf
    <2>2. CASE i # 1
      <3>1. flagOf(t, fl, i) = flagOf(s, g.save, i - 1)
        <4>1. CASE i = 2 BY <1>1, <4>1 DEF flagOf
        <4>2. CASE i # 2
          <5>1. t[i - 1] = s[(i - 1) - 1] /\ i - 1 # 1
            BY <1>1, <1>3, <2>2, <4>2
          <5> QED BY <2>2, <5>1 DEF flagOf
        <4> QED BY <4>1, <4>2
      <3> QED BY <1>3, <2>2, <3>1 DEF StackFits
    <2> QED BY <2>1, <2>2
  <1>5. ASSUME NEW i \in DOMAIN t, i > 1 PROVE Linked(t[i - 1], t[i])
    <2>1. CASE i = 2
      <3>1. t[i - 1] = g /\ t[i] = s[1] /\ s # << >> BY <1>1, <1>2, <1>3, <2>1
      <3> QED BY <3>1 DEF Atop
    <2>2. CASE i # 2
      <3>1. /\ t[i - 1] = s[(i - 1) - 1] /\ t[i] = s[i - 1]
            /\ i - 1 \in DOMAIN s /\ i - 1 > 1
        BY <1>1, <1>2, <1>5, <2>2
      <3> QED BY <3>1 DEF StackFits
    <2> QED BY <2>1, <2>2
  <1>6. \A i \in DOMAIN s : Held(g) \cap Held(s[i]) = {} BY DEF Atop, HeldBy
  <1>7. ASSUME NEW i \in DOMAIN t, NEW j \in DOMAIN t, i # j
        PROVE  Held(t[i]) \cap Held(t[j]) = {}
    <2>1. CASE i = 1 BY <1>1, <1>3, <1>6, <1>7, <2>1
    <2>2. CASE j = 1 BY <1>1, <1>3, <1>6, <1>7, <2>2
    <2>3. CASE i # 1 /\ j # 1
      <3>1. i - 1 # j - 1 BY <1>1, <1>7
      <3> QED BY <1>3, <2>3, <3>1 DEF StackFits
    <2> QED BY <2>1, <2>2, <2>3
  <1> QED BY <1>4, <1>5, <1>7 DEF StackFits

\* It holds its nodes besides those held before.
LEMMA HeldFront ==
  ASSUME NEW s \in Seq(Frames), NEW g \in Frames
  PROVE  HeldBy(Pushed(g, s)) = Held(g) \cup HeldBy(s)
  <1> DEFINE t == Pushed(g, s)
  <1>A. /\ t \in Seq(Frames) /\ DOMAIN t = 1..(Len(s) + 1) /\ Len(s) \in Nat
        /\ t[1] = g /\ \A i \in 2..(Len(s) + 1) : t[i] = s[i - 1]
    BY InFront DEF Pushed
  <1>B. DOMAIN s = 1..Len(s) OBVIOUS
  <1> HIDE DEF t
  <1>C. ASSUME NEW i \in DOMAIN t, i # 1
        PROVE  i - 1 \in DOMAIN s /\ t[i] = s[i - 1] /\ i > 1
    BY <1>A, <1>B, <1>C
  <1>1. ASSUME NEW i \in DOMAIN t PROVE Held(t[i]) \subseteq Held(g) \cup HeldBy(s)
    <2>1. CASE i = 1 BY <1>A, <2>1
    <2>2. CASE i # 1 BY <1>C, <2>2 DEF HeldBy
    <2> QED BY <2>1, <2>2
  <1>2. Held(g) \subseteq HeldBy(t)
    <2>1. 1 \in DOMAIN t BY <1>A
    <2> QED BY <1>A, <2>1 DEF HeldBy
  <1>3. ASSUME NEW i \in DOMAIN s PROVE Held(s[i]) \subseteq HeldBy(t)
    <2>1. i + 1 \in DOMAIN t /\ t[i + 1] = s[(i + 1) - 1] /\ (i + 1) - 1 = i
      BY <1>A, <1>B
    <2> QED BY <2>1 DEF HeldBy
  <1> QED BY <1>1, <1>2, <1>3 DEF HeldBy, t

-----------------------------------------------------------------------------
(***************************************************************************)
(* The tracker follows the activations.                                    *)
(***************************************************************************)
\* What try_start is given.
MayStart(p, vis, S, h, n, once) ==
  /\ n \in 1..h /\ n \notin S /\ once \in BOOLEAN
  /\ Uniform(p) => once = p.visitDagOnce
  /\ Once(p) => n \notin DOMAIN vis

AfterStart(p, vis, v, S, h, lst, n) ==
  /\ TrackerFits(p, v, S \cup {n}, h, lst, {})
  /\ DoneKept(p, vis, v)
  /\ DOMAIN v = DOMAIN vis \cup {n}

\* A visit is started of a node that is not being visited.
LEMMA TrackerStart ==
  ASSUME NEW p, NEW vis, NEW S, NEW h \in Nat, NEW lst,
         TrackerFits(p, vis, S, h, lst, {}),
         NEW n, NEW once, MayStart(p, vis, S, h, n, once),
         NEW v, v = try_start(vis, n, once)
  PROVE  AfterStart(p, vis, v, S, h, lst, n)
  <1>0. /\ n \in 1..h /\ n \notin S /\ once \in BOOLEAN
        /\ Uniform(p) => once = p.visitDagOnce
        /\ Once(p) => n \notin DOMAIN vis
    BY DEF MayStart
  <1>1. VisTyped(vis, h) BY DEF TrackerFits
  <1>9. StartOf(vis, n, once, v) /\ VisTyped(v, h) BY <1>0, <1>1, TryStartIs, Zenon
  <1>2. /\ DOMAIN v = DOMAIN vis \cup {n}
        /\ \A m \in DOMAIN vis : m # n => v[m] = vis[m]
        /\ v[n].busy
        /\ n \in DOMAIN vis => v[n].once = vis[n].once /\ v[n].result = vis[n].result
        /\ n \notin DOMAIN vis => v[n].once = once /\ v[n].result = n
        /\ VisTyped(v, h)
    BY <1>9 DEF StartOf
  <1>3. BusyAre(v, S \cup {n}) BY <1>0, <1>2 DEF TrackerFits, BusyAre
  <1>4. Once(p) => \A a : IsDone(vis, a) => IsDone(v, a)
    BY <1>0, <1>2 DEF IsDone
  <1>5. Plainly(p, v, {})
    <2> SUFFICES ASSUME Uniform(p), NEW m \in DOMAIN v
                 PROVE  /\ v[m].once = p.visitDagOnce
                        /\ Once(p) /\ v[m].busy => v[m].result = m
                        /\ Once(p) /\ ~v[m].busy => \/ v[m].result \in {Null} \cup {}
                                                    \/ IsDone(v, v[m].result)
      BY DEF Plainly
    <2>1. CASE m = n BY <1>0, <1>2, <2>1 DEF TrackerFits, Plainly
    <2>2. CASE m # n
      <3>1. m \in DOMAIN vis /\ v[m] = vis[m] BY <1>2, <2>2
      <3> QED BY <1>4, <3>1 DEF TrackerFits, Plainly
    <2> QED BY <2>1, <2>2
  <1>6. Met(p, v, DOMAIN lst)
    <2> SUFFICES ASSUME NoOther(p), NEW m \in DOMAIN v
                 PROVE  /\ ~v[m].busy => Seen(p, m, DOMAIN lst)
                        /\ Seen(p, v[m].result, DOMAIN lst) \/ v[m].result = m
      BY DEF Met
    <2>1. CASE m = n BY <1>2, <2>1 DEF TrackerFits, Met
    <2>2. CASE m # n BY <1>2, <2>2 DEF TrackerFits, Met
    <2> QED BY <2>1, <2>2
  <1>7. Agrees(p, v, lst) BY <1>0, <1>2 DEF TrackerFits, Agrees
  <1> QED BY <1>2, <1>3, <1>4, <1>5, <1>6, <1>7 DEF TrackerFits, DoneKept, AfterStart

\* lst2 notes returns of nodes of S.
Noted(S, lst, lst2) ==
  /\ DOMAIN lst \subseteq DOMAIN lst2
  /\ \A n \in DOMAIN lst2 : n \in S \/ (n \in DOMAIN lst /\ lst2[n] = lst[n])

\* Returns of nodes that are being visited are noted, in a larger heap.
LEMMA TrackerNoted ==
  ASSUME NEW p, NEW vis, NEW S, NEW h \in Nat, NEW k \in Nat, h <= k, NEW lst, NEW lst2,
         TrackerFits(p, vis, S, h, lst, {}),
         Noted(S, lst, lst2), NEW X
  PROVE  TrackerFits(p, vis, S, k, lst2, X)
  <1>1. 0..h \subseteq 0..k /\ 1..h \subseteq 1..k OBVIOUS
  <1>2. VisTyped(vis, k)
    <2>1. VisTyped(vis, h) BY DEF TrackerFits
    <2>2. ASSUME NEW n \in DOMAIN vis
          PROVE  vis[n] \in [busy : BOOLEAN, once : BOOLEAN, result : 0..k]
      BY <1>1, <2>1 DEF VisTyped
    <2> QED BY <1>1, <2>1, <2>2 DEF VisTyped
  <1>3. Plainly(p, vis, X) BY DEF TrackerFits, Plainly
  <1>4. Met(p, vis, DOMAIN lst2) BY DEF TrackerFits, Met, Seen, Noted
  <1>5. Agrees(p, vis, lst2)
    BY DEF TrackerFits, Agrees, BusyAre, Noted
  <1> QED BY <1>2, <1>3, <1>4, <1>5 DEF TrackerFits

\* What finish is given: a final node that is not being visited, but for X.
MayFinish(p, vis, S, h, lst, X, orig, hp, final) ==
  LET changed == finish_changed(vis, hp, orig, final)
  IN  /\ changed => final \in 0..h
      /\ NoOther(p) => Seen(p, orig, DOMAIN lst) /\ (changed => Seen(p, final, DOMAIN lst))
      /\ Once(p) /\ changed => final = orig \/ final \notin S \/ final \in X
      /\ Once(p) => orig \in DOMAIN lst /\ lst[orig] = IF changed THEN final ELSE orig

AfterFinish(p, vis, v, S, h, lst, X, orig, hp, final) ==
  /\ TrackerFits(p, v, S \ {orig}, h, lst, X \ {orig})
  /\ DoneKept(p, vis, v)
  /\ DOMAIN vis \subseteq DOMAIN v /\ orig \in DOMAIN v
  /\ finish_changed(vis, hp, orig, final) => final = Null \/ final \in DOMAIN v

\* A visit is finished.
LEMMA TrackerFinish ==
  ASSUME NEW p, NEW vis, NEW S, NEW h \in Nat, NEW lst, NEW X,
         TrackerFits(p, vis, S, h, lst, X),
         NEW orig \in S, NEW hp, NEW final,
         MayFinish(p, vis, S, h, lst, X, orig, hp, final),
         NEW v, v = finish(vis, hp, orig, final)
  PROVE  AfterFinish(p, vis, v, S, h, lst, X, orig, hp, final)
  <1>0. PICK changed \in BOOLEAN : changed = finish_changed(vis, hp, orig, final)
    BY DEF finish_changed, Differs
  <1>1. VisTyped(vis, h) /\ BusyAre(vis, S) /\ orig \in DOMAIN vis /\ vis[orig].busy
    BY DEF TrackerFits, BusyAre
  <1>9. FinishOf(vis, orig, final, changed, v) /\ VisTyped(v, h)
    <2>1. changed => final \in 0..h BY <1>0 DEF MayFinish
    <2> QED BY <1>0, <1>1, <2>1, FinishIs, Zenon
  <1>2. /\ DOMAIN vis \subseteq DOMAIN v
        /\ \A m \in DOMAIN vis : m # orig => v[m] = vis[m]
        /\ ~v[orig].busy /\ v[orig].once = vis[orig].once
        /\ v[orig].result = IF changed THEN final ELSE vis[orig].result
        /\ \A m \in DOMAIN v \ DOMAIN vis :
             m = final /\ ~v[m].busy /\ v[m].once = vis[orig].once /\ v[m].result = m
        /\ changed => final = Null \/ final \in DOMAIN v
        /\ VisTyped(v, h)
    BY <1>9 DEF FinishOf
  <1>3. DOMAIN v \ DOMAIN vis # {} => changed
    BY <1>0 DEF finish, finish_changed
  <1>4. BusyAre(v, S \ {orig})
    <2> SUFFICES ASSUME NEW m
                 PROVE  m \in S \ {orig} <=> m \in DOMAIN v /\ v[m].busy
      BY DEF BusyAre
    <2>1. CASE m = orig BY <1>2, <2>1
    <2>2. CASE m # orig /\ m \in DOMAIN vis BY <1>1, <1>2, <2>2 DEF BusyAre
    <2>3. CASE m \notin DOMAIN vis BY <1>1, <1>2, <2>3 DEF BusyAre
    <2> QED BY <2>1, <2>2, <2>3
  <1>5. \A a : IsDone(vis, a) => IsDone(v, a)
    BY <1>1, <1>2 DEF IsDone
  <1>6. Plainly(p, v, X \ {orig})
    <2> SUFFICES ASSUME Uniform(p), NEW m \in DOMAIN v
                 PROVE  /\ v[m].once = p.visitDagOnce
                        /\ Once(p) /\ v[m].busy => v[m].result = m
                        /\ Once(p) /\ ~v[m].busy =>
                             \/ v[m].result \in {Null} \cup (X \ {orig})
                             \/ IsDone(v, v[m].result)
      BY DEF Plainly
    <2>1. Plainly(p, vis, X) BY DEF TrackerFits
    <2>2. IsDone(v, orig) BY <1>1, <1>2 DEF IsDone
    <2>3. CASE m = orig
      <3>1. v[m].once = p.visitDagOnce BY <1>1, <1>2, <2>1, <2>3 DEF Plainly
      <3>2. ~v[m].busy BY <1>2, <2>3
      <3>3. ASSUME Once(p)
            PROVE  \/ v[m].result \in {Null} \cup (X \ {orig})
                   \/ IsDone(v, v[m].result)
        <4>1. CASE ~changed
          <5>1. v[m].result = orig BY <1>1, <1>2, <2>1, <2>3, <3>3, <4>1 DEF Plainly
          <5> QED BY <2>2, <5>1
        <4>2. CASE changed
          <5>1. v[m].result = final BY <1>2, <2>3, <4>2
          <5>2. final = Null \/ final \in DOMAIN v BY <1>2, <4>2
          <5>3. CASE final = orig BY <2>2, <5>1, <5>3
          <5>4. CASE final # orig /\ final \in X BY <5>1, <5>4
          <5>5. CASE final # orig /\ final \notin X
            <6>1. final \notin S BY <1>0, <3>3, <4>2, <5>5 DEF MayFinish
            <6>2. final \in DOMAIN v => ~v[final].busy BY <1>4, <6>1 DEF BusyAre
            <6> QED BY <5>1, <5>2, <6>2 DEF IsDone
          <5> QED BY <5>3, <5>4, <5>5
        <4> QED BY <4>1, <4>2
      <3> QED BY <3>1, <3>2, <3>3
    <2>4. CASE m # orig /\ m \in DOMAIN vis
      <3>1. v[m] = vis[m] BY <1>2, <2>4
      <3>2. ASSUME Once(p), ~v[m].busy
            PROVE  \/ v[m].result \in {Null} \cup (X \ {orig})
                   \/ IsDone(v, v[m].result)
        <4>1. vis[m].result \in {Null} \cup X \/ IsDone(vis, vis[m].result)
          BY <2>1, <2>4, <3>1, <3>2 DEF Plainly
        <4> QED BY <1>5, <2>2, <3>1, <4>1
      <3> QED BY <2>1, <2>4, <3>1, <3>2 DEF Plainly
    <2>5. CASE m \notin DOMAIN vis
      <3>1. ~v[m].busy /\ v[m].once = vis[orig].once /\ v[m].result = m
        BY <1>2, <2>5
      <3>2. IsDone(v, v[m].result) BY <3>1 DEF IsDone
      <3>3. vis[orig].once = p.visitDagOnce BY <1>1, <2>1 DEF Plainly
      <3> QED BY <3>1, <3>2, <3>3
    <2> QED BY <2>3, <2>4, <2>5
  <1>7. Met(p, v, DOMAIN lst)
    <2> SUFFICES ASSUME NoOther(p), NEW m \in DOMAIN v
                 PROVE  /\ ~v[m].busy => Seen(p, m, DOMAIN lst)
                        /\ Seen(p, v[m].result, DOMAIN lst) \/ v[m].result = m
      BY DEF Met
    <2>1. Met(p, vis, DOMAIN lst) BY DEF TrackerFits
    <2>2. CASE m = orig BY <1>0, <1>1, <1>2, <2>1, <2>2 DEF Met, MayFinish
    <2>3. CASE m # orig /\ m \in DOMAIN vis BY <1>2, <2>1, <2>3 DEF Met
    <2>4. CASE m \notin DOMAIN vis BY <1>0, <1>2, <1>3, <2>4 DEF MayFinish
    <2> QED BY <2>2, <2>3, <2>4
  <1>8. Agrees(p, v, lst)
    <2> SUFFICES ASSUME Once(p)
                 PROVE  /\ DOMAIN lst \subseteq DOMAIN v
                        /\ \A m \in DOMAIN lst : ~v[m].busy => v[m].result = lst[m]
      BY DEF Agrees
    <2>1. Agrees(p, vis, lst) /\ Plainly(p, vis, X) BY DEF TrackerFits
    <2>2. DOMAIN lst \subseteq DOMAIN v BY <1>2, <2>1 DEF Agrees
    <2>3. v[orig].result = lst[orig]
      <3>1. vis[orig].result = orig BY <1>1, <2>1 DEF Plainly, Once
      <3> QED BY <1>0, <1>2, <3>1 DEF MayFinish
    <2> QED BY <1>2, <2>1, <2>2, <2>3 DEF Agrees
  <1> QED BY <1>0, <1>1, <1>2, <1>4, <1>5, <1>6, <1>7, <1>8
       DEF AfterFinish, TrackerFits, DoneKept

-----------------------------------------------------------------------------
(***************************************************************************)
(* The ends of visits.                                                     *)
(***************************************************************************)
\* What the innermost activation of s may be given: the result of the child c.
Result(p, s, vis, hp, D, ret) ==
  LET c == s[1].copy.kids[s[1].idx]
  IN  /\ Waiting(s[1])
      /\ ret \in 0..Len(hp)
      /\ NoOther(p) => Seen(p, ret, D) /\ Seen(p, c, D)
      /\ Once(p) => ret = Null \/ IsDone(vis, ret)
      /\ s[1].extra => c # s[1].pre

FitsLike(p, s, t, vis, hp, D, fl) ==
  /\ StackFits(p, t, vis, hp, D, fl) /\ HeldBy(t) = HeldBy(s)
  /\ t \in Seq(Frames) /\ t # << >>

\* The innermost activation of a stack is given a result.
LEMMA ResumeFits ==
  ASSUME NEW p \in Passes, NEW s \in Seq(Frames), s # << >>, NEW fl \in BOOLEAN,
         NEW vis, NEW hp \in Seq(AnyContent), NEW D, NEW ret,
         StackFits(p, s, vis, hp, D, fl), Result(p, s, vis, hp, D, ret),
         NEW t, t = Resume(s, ret)
  PROVE  FitsLike(p, s, t, vis, hp, D, fl)
  <1>0. PICK c : /\ c = s[1].copy.kids[s[1].idx] /\ Waiting(s[1])
                 /\ ret \in 0..Len(hp)
                 /\ NoOther(p) => Seen(p, ret, D) /\ Seen(p, c, D)
                 /\ Once(p) => ret = Null \/ IsDone(vis, ret)
                 /\ s[1].extra => c # s[1].pre
    BY DEF Result
  <1>1. PICK f, g : f = s[1] /\ g = Resumed(f, ret) OBVIOUS
  <1>2. /\ f \in Frames /\ Head(s) = f /\ 1 \in DOMAIN s /\ Tail(s) \in Seq(Frames)
    BY <1>1, TopAndRest
  <1>3. t = <<g>> \o Tail(s) BY <1>1, <1>2, ResumeIs
  <1>4. Len(hp) \in Nat /\ ret \in Nat BY <1>0
  <1>5. Grown(hp, hp) BY <1>4 DEF Grown
  <1>6. /\ StackFits(p, Tail(s), vis, hp, D, f.save)
        /\ HeldBy(s) = Held(f) \cup HeldBy(Tail(s))
        /\ Atop(f, Tail(s))
    <2>1. DoneKept(p, vis, vis) BY DEF DoneKept
    <2>2. D \subseteq D OBVIOUS
    <2>3. /\ StackFits(p, Tail(s), vis, hp, D, s[1].save)
          /\ HeldBy(s) = Held(s[1]) \cup HeldBy(Tail(s)) /\ Atop(s[1], Tail(s))
      BY <1>5, <2>1, <2>2, FitsTail, Zenon
    <2> QED BY <1>1, <2>3, Zenon
  <1>7. FrameFits(p, f, fl, vis, hp, D)
    BY <1>1, <1>2 DEF StackFits, flagOf
  <1>8. /\ g \in Frames
        /\ g.n = f.n /\ g.extra = f.extra /\ g.save = f.save
        /\ f.phase = "kids" => g.phase = "kids" /\ g.pre = f.pre
        /\ f.phase = "visit_kid" => g.phase = "returned" /\ g.pre = f.pre
        /\ f.phase = "transform_child" => g.phase = "transformed"
    BY <1>0, <1>1, <1>2, <1>4, ResumedFields
  <1>9. FrameOK(f, Len(hp)) /\ Waiting(f) BY <1>0, <1>1, <1>7 DEF FrameFits
  <1>10. FrameOK(g, Len(hp)) BY <1>0, <1>1, <1>2, <1>4, <1>9, ResumedFrame
  <1>11. Held(g) = Held(f) BY <1>8, <1>9 DEF Held, FrameOK
  <1>12. ASSUME NoOther(p), Walks(g, fl) PROVE KidsOK(p, g, D)
    <2>1. f.phase # "visit_kid"
      <3> SUFFICES ASSUME f.phase = "visit_kid" PROVE FALSE OBVIOUS
      <3>1. fl BY <1>7 DEF FrameFits
      <3> QED BY <1>8, <1>12, <3>1 DEF Walks
    <2>2. f.phase = "kids" BY <1>8, <1>9, <1>12, <2>1 DEF Walks, Waiting
    <2>3. KidsOK(p, f, D) BY <1>7, <1>12, <2>2 DEF FrameFits, Walks
    <2> QED BY <1>0, <1>1, <1>2, <1>4, <1>9, <1>12, <2>2, <2>3, ResumedKids
  <1>13. ASSUME Once(p) PROVE OnceOK(g, vis, hp)
    <2>1. OnceOK(f, vis, hp) BY <1>7, <1>13 DEF FrameFits
    <2>2. /\ ~f.extra /\ f.phase # "kids" => f.pre = Self
          /\ f.extra => f.phase = "kids"
      BY <1>9 DEF FrameOK, Waiting
    <2> QED BY <1>0, <1>1, <1>2, <1>4, <1>9, <1>13, <2>1, <2>2, ResumedOnce
  <1>14. FrameFits(p, g, fl, vis, hp, D)
    <2>1. g.phase # "visit_kid" BY <1>8, <1>9 DEF Waiting
    <2>2. g.phase = "returned" => fl /\ g.pre = Self
      BY <1>7, <1>8, <1>9 DEF Waiting, FrameFits, FrameOK
    <2> QED BY <1>10, <1>12, <1>13, <2>1, <2>2 DEF FrameFits
  <1>15. Atop(g, Tail(s)) BY <1>6, <1>8, <1>11 DEF Atop, Linked
  <1>16. StackFits(p, t, vis, hp, D, fl) /\ HeldBy(t) = Held(g) \cup HeldBy(Tail(s))
    <2>1. StackFits(p, Tail(s), vis, hp, D, g.save) BY <1>6, <1>8, Zenon
    <2>2. g \in Frames BY <1>8
    <2>3. t = Pushed(g, Tail(s)) BY <1>3 DEF Pushed
    <2>4. StackFits(p, t, vis, hp, D, fl)
      BY <1>2, <1>14, <1>15, <2>1, <2>2, <2>3, FitsFront, Zenon
    <2>5. HeldBy(t) = Held(g) \cup HeldBy(Tail(s))
      BY <1>2, <2>2, <2>3, HeldFront
    <2> QED BY <2>4, <2>5
  <1> QED BY <1>2, <1>3, <1>6, <1>8, <1>11, <1>16, InFront DEF FitsLike

\* What a visit that ends is given: the activation and the tracker, with the
\* node that preorder returned in it, and the final node in the heap or a clone.
Ending(f, vis, final, hp) ==
  /\ f.n = top.n /\ f.save = top.save /\ f.extra \in BOOLEAN
  /\ f.n \notin HeldBy(Tail(stack))
  /\ f.extra => f.pre \in 1..Len(heap) /\ f.pre # f.n /\ f.pre \notin HeldBy(Tail(stack))
  /\ TrackerFits(pass, vis, Held(f) \cup HeldBy(Tail(stack)), Len(heap), last, {})
  /\ DoneKept(pass, visited, vis)
  /\ \/ hp = heap /\ final \in 0..Len(heap)
     \/ \E c \in AnyContent : /\ hp = Append(heap, c) /\ Closed(c, Len(heap))
                              /\ final = Len(heap) + 1
  /\ NoOther(pass) => Seen(pass, final, DOMAIN last \cup Held(f))
  /\ Once(pass) /\ final \in DOMAIN vis =>
       IsDone(vis, final) \/ (f.extra /\ final = f.pre)
  /\ Once(pass) /\ f.extra /\ hp = heap /\ final \notin DOMAIN vis \cup {Null} =>
       heap[final] # heap[f.n] \/ heap[final] # heap[f.pre]

FinOf(f, final, hp) ==
  IF Len(hp) > Len(heap) /\ f.extra /\ hp[final] = heap[f.pre] THEN f.pre ELSE final

HeapOf(f, final, hp, fin, changed) ==
  IF Len(hp) > Len(heap) /\ fin = final /\ (changed \/ f.extra) THEN hp ELSE heap

FinalOK(f, vis, hp, fin, changed, hp2) ==
  /\ Grown(heap, hp2) /\ HeapOK(pass, hp2)
  /\ changed \/ f.extra => fin \in 0..Len(hp2)
  /\ NoOther(pass) => Seen(pass, fin, DOMAIN last \cup Held(f))
  /\ Once(pass) /\ fin \in DOMAIN vis =>
       IsDone(vis, fin) \/ (f.extra /\ fin = f.pre)
  /\ Once(pass) /\ f.extra =>
       changed \/ fin \in DOMAIN vis \/ Differs(hp, f.pre, fin)

\* The node that apply_visitor passes to finish, and the heap it leaves.
LEMMA FinalNode ==
  ASSUME IInv, stack # << >>, NEW f, NEW vis, NEW final, NEW hp,
         Ending(f, vis, final, hp),
         NEW fin, fin = FinOf(f, final, hp),
         NEW changed, changed = finish_changed(vis, hp, f.n, fin),
         NEW hp2, hp2 = HeapOf(f, final, hp, fin, changed)
  PROVE  FinalOK(f, vis, hp, fin, changed, hp2)
  <1> USE DEF FinOf, HeapOf, FinalOK
  <1>1. /\ pass \in Passes /\ heap \in Seq(AnyContent) /\ Len(heap) \in Nat
        /\ HeapOK(pass, heap)
    BY DEF IInv, VisitOK, Shape
  <1>2. Held(f) \subseteq DOMAIN vis /\ DOMAIN vis \subseteq 1..Len(heap)
    BY DEF Ending, TrackerFits, BusyAre, VisTyped
  <1>3. f.n \in DOMAIN vis /\ (f.extra => f.pre \in DOMAIN vis)
    BY <1>2 DEF Held
  <1>4. Grown(heap, heap) BY <1>1 DEF Grown
  <1>5. CASE hp = heap /\ final \in 0..Len(heap)
    <2>1. fin = final /\ hp2 = heap BY <1>1, <1>5
    <2>2. ASSUME Once(pass), f.extra, final \notin DOMAIN vis
          PROVE  changed \/ Differs(hp, f.pre, final)
      <3>1. CASE final = Null BY <2>1, <3>1 DEF finish_changed
      <3>2. CASE final # Null
        <4>1. heap[final] # heap[f.n] \/ heap[final] # heap[f.pre]
          BY <1>5, <2>2, <3>2 DEF Ending
        <4> QED BY <1>3, <1>5, <2>1, <2>2, <4>1 DEF finish_changed, Differs
      <3> QED BY <3>1, <3>2
    <2> QED BY <1>1, <1>4, <1>5, <2>1, <2>2 DEF Ending
  <1>6. CASE \E c \in AnyContent : /\ hp = Append(heap, c) /\ Closed(c, Len(heap))
                                   /\ final = Len(heap) + 1
    <2>1. PICK c \in AnyContent : /\ hp = Append(heap, c) /\ Closed(c, Len(heap))
                                  /\ final = Len(heap) + 1
      BY <1>6
    <2>2. /\ hp \in Seq(AnyContent) /\ Len(hp) = Len(heap) + 1 /\ hp[final] = c
          /\ \A a \in 1..Len(heap) : hp[a] = heap[a]
      BY <1>1, <2>1
    <2>3. Grown(heap, hp) /\ HeapOK(pass, hp) BY <1>1, <2>1, HeapAppended
    <2>5. final \notin 1..Len(heap) /\ final \in Nat BY <1>1, <2>1
    <2>6. CASE f.extra /\ hp[final] = heap[f.pre]
      <3>1. fin = f.pre /\ fin # final BY <1>1, <1>2, <1>3, <2>2, <2>5, <2>6
      <3>2. hp2 = heap BY <3>1
      <3>3. fin \in DOMAIN vis /\ fin \in Held(f) /\ fin \in 0..Len(heap)
        BY <1>2, <1>3, <2>6, <3>1 DEF Held
      <3>4. Seen(pass, fin, DOMAIN last \cup Held(f)) BY <3>3 DEF Seen
      <3> QED BY <1>1, <1>4, <2>6, <3>1, <3>2, <3>3, <3>4
    <2>7. CASE ~ (f.extra /\ hp[final] = heap[f.pre])
      <3>1. fin = final BY <2>7
      <3>2. hp2 = IF changed \/ f.extra THEN hp ELSE heap BY <1>1, <2>2, <3>1
      <3>3. fin \notin DOMAIN vis BY <1>2, <2>5, <3>1
      <3>4. changed \/ f.extra => fin \in 0..Len(hp2) BY <1>1, <2>1, <2>2, <3>1, <3>2
      <3>5. ASSUME f.extra PROVE Differs(hp, f.pre, fin)
        <4>1. hp[f.pre] = heap[f.pre] /\ fin # f.pre
          BY <1>2, <1>3, <2>2, <3>3, <3>5
        <4> QED BY <2>7, <3>1, <3>5, <4>1 DEF Differs
      <3>6. Seen(pass, fin, DOMAIN last \cup Held(f))
        <4>1. DOMAIN pass.kids = 1..Len(pass.kids) /\ Len(pass.kids) \in Nat
          BY <1>1, KidsTyped
        <4>2. Len(pass.kids) <= Len(heap) BY <1>1 DEF HeapOK
        <4> QED BY <1>1, <2>1, <3>1, <4>1, <4>2 DEF Seen
      <3>7. Grown(heap, hp2) /\ HeapOK(pass, hp2) BY <1>1, <1>4, <2>3, <3>2
      <3> QED BY <3>3, <3>4, <3>5, <3>6, <3>7
    <2> QED BY <2>6, <2>7
  <1> QED BY <1>5, <1>6 DEF Ending

\* The values that EndVisit computes.
EndValues(f, vis, final, hp, fin, changed, ret, hp2, lst, v1, v) ==
  /\ fin = FinOf(f, final, hp)
  /\ changed \in BOOLEAN /\ changed = finish_changed(vis, hp, f.n, fin)
  /\ ret = IF changed THEN fin ELSE f.n
  /\ hp2 = HeapOf(f, final, hp, fin, changed)
  /\ lst = Put(IF f.extra THEN Put(last, f.pre, fin) ELSE last, f.n, ret)
  /\ v1 = finish(vis, hp, f.n, fin)
  /\ v = IF f.extra THEN finish(v1, hp, f.pre, fin) ELSE v1

EndedOK(f, ret, hp2, lst, v) ==
  /\ TrackerFits(pass, v, HeldBy(Tail(stack)), Len(hp2), lst, {})
  /\ DoneKept(pass, visited, v)
  /\ DOMAIN lst = DOMAIN last \cup Held(f)
  /\ ret \in 0..Len(hp2)
  /\ NoOther(pass) => Seen(pass, ret, DOMAIN lst)
  /\ Once(pass) => ret = Null \/ IsDone(v, ret)

\* The tracker when apply_visitor has finished its nodes.
LEMMA EndTracker ==
  ASSUME IInv, stack # << >>, NEW f, NEW vis, NEW final, NEW hp,
         Ending(f, vis, final, hp),
         NEW fin, NEW changed, NEW ret, NEW hp2, NEW lst, NEW v1, NEW v,
         EndValues(f, vis, final, hp, fin, changed, ret, hp2, lst, v1, v)
  PROVE  EndedOK(f, ret, hp2, lst, v)
  <1>0. /\ fin = FinOf(f, final, hp)
        /\ changed = finish_changed(vis, hp, f.n, fin)
        /\ ret = IF changed THEN fin ELSE f.n
        /\ hp2 = HeapOf(f, final, hp, fin, changed)
        /\ lst = Put(IF f.extra THEN Put(last, f.pre, fin) ELSE last, f.n, ret)
        /\ v1 = finish(vis, hp, f.n, fin)
        /\ v = IF f.extra THEN finish(v1, hp, f.pre, fin) ELSE v1
    BY DEF EndValues
  <1>1. /\ Grown(heap, hp2)
        /\ changed \/ f.extra => fin \in 0..Len(hp2)
        /\ NoOther(pass) => Seen(pass, fin, DOMAIN last \cup Held(f))
        /\ Once(pass) /\ fin \in DOMAIN vis =>
             IsDone(vis, fin) \/ (f.extra /\ fin = f.pre)
        /\ Once(pass) /\ f.extra =>
             changed \/ fin \in DOMAIN vis \/ Differs(hp, f.pre, fin)
    <2>1. FinalOK(f, vis, hp, fin, changed, hp2) BY <1>0, FinalNode, Zenon
    <2> QED BY <2>1 DEF FinalOK
  <1>2. /\ Len(heap) \in Nat /\ Len(hp2) \in Nat /\ Len(heap) <= Len(hp2)
    BY <1>1 DEF IInv, VisitOK, Shape, Grown
  <1>3. changed \in BOOLEAN BY DEF EndValues
  <1> DEFINE R == HeldBy(Tail(stack))
             S == Held(f) \cup R
             X == IF f.extra THEN {f.pre} ELSE {}
  <1>4. TrackerFits(pass, vis, S, Len(heap), last, {}) BY DEF Ending
  <1>5. /\ f.n \notin R /\ f.extra \in BOOLEAN
        /\ f.extra => f.pre \notin R /\ f.pre # f.n
        /\ Held(f) = {f.n} \cup X
    BY DEF Ending, Held
  <1> HIDE DEF R, S, X
  <1>6. DOMAIN lst = DOMAIN last \cup Held(f)
    BY <1>0 DEF Put, Held
  <1>7. lst[f.n] = ret BY <1>0 DEF Put
  <1>8. f.extra => lst[f.pre] = fin BY <1>0, <1>5 DEF Put
  <1>9. \A n \in DOMAIN last : n \notin Held(f) => lst[n] = last[n]
    BY <1>0 DEF Put, Held
  <1>10. Noted(S, last, lst) BY <1>6, <1>9 DEF Noted, S
  <1>12. TrackerFits(pass, vis, S, Len(hp2), lst, X)
    <2>1. PICK h \in Nat, k \in Nat : h = Len(heap) /\ k = Len(hp2) /\ h <= k
      BY <1>2
    <2>2. TrackerFits(pass, vis, S, h, last, {}) BY <1>4, <2>1
    <2>3. TrackerFits(pass, vis, S, k, lst, X)
      BY <1>10, <2>1, <2>2, TrackerNoted
    <2> QED BY <2>1, <2>3
  <1>13. Once(pass) /\ fin \in S => f.extra /\ fin = f.pre
    <2> SUFFICES ASSUME Once(pass), fin \in S PROVE f.extra /\ fin = f.pre OBVIOUS
    <2>1. fin \in DOMAIN vis /\ vis[fin].busy
      BY <1>4 DEF TrackerFits, BusyAre
    <2> QED BY <1>1, <2>1 DEF IsDone
  <1>14. f.n \in S /\ (f.extra => f.pre \in S /\ X = {f.pre} /\ f.pre \in Held(f))
    BY <1>5 DEF S, X
  <1>15. f.n \in Held(f) BY DEF Held
  <1>16. /\ TrackerFits(pass, v1, S \ {f.n}, Len(hp2), lst, X \ {f.n})
         /\ DoneKept(pass, vis, v1)
         /\ DOMAIN vis \subseteq DOMAIN v1 /\ f.n \in DOMAIN v1
         /\ changed => fin = Null \/ fin \in DOMAIN v1
    <2>1. changed => fin \in 0..Len(hp2) BY <1>1
    <2>2. NoOther(pass) => Seen(pass, f.n, DOMAIN lst)
                           /\ (changed => Seen(pass, fin, DOMAIN lst))
      BY <1>1, <1>6, <1>15 DEF Seen
    <2>3. Once(pass) /\ changed => fin = f.n \/ fin \notin S \/ fin \in X
      BY <1>13, <1>14
    <2>4. Once(pass) => f.n \in DOMAIN lst /\ lst[f.n] = IF changed THEN fin ELSE f.n
      BY <1>0, <1>6, <1>7, <1>15
    <2>5. MayFinish(pass, vis, S, Len(hp2), lst, X, f.n, hp, fin)
      BY <1>0, <2>1, <2>2, <2>3, <2>4 DEF MayFinish
    <2>6. PICK k \in Nat : k = Len(hp2) BY <1>2
    <2>7. /\ TrackerFits(pass, vis, S, k, lst, X)
          /\ MayFinish(pass, vis, S, k, lst, X, f.n, hp, fin)
      BY <1>12, <2>5, <2>6
    <2>8. AfterFinish(pass, vis, v1, S, k, lst, X, f.n, hp, fin)
      BY <1>0, <1>14, <2>7, TrackerFinish, Zenon
    <2> QED BY <1>0, <2>6, <2>8 DEF AfterFinish
  <1>17. ASSUME ~f.extra
         PROVE  /\ TrackerFits(pass, v, R, Len(hp2), lst, {}) /\ DoneKept(pass, vis, v)
               /\ f.n \in DOMAIN v /\ (changed => fin = Null \/ fin \in DOMAIN v)
    <2>1. v = v1 /\ S \ {f.n} = R /\ X \ {f.n} = {}
      BY <1>0, <1>5, <1>17 DEF S, X
    <2>2. TrackerFits(pass, v, R, Len(hp2), lst, {}) /\ DoneKept(pass, vis, v)
      BY <1>16, <2>1
    <2>3. f.n \in DOMAIN v /\ (changed => fin = Null \/ fin \in DOMAIN v)
      BY <1>16, <2>1
    <2> QED BY <2>2, <2>3
  <1>18. ASSUME f.extra
         PROVE  /\ TrackerFits(pass, v, R, Len(hp2), lst, {}) /\ DoneKept(pass, vis, v)
               /\ f.n \in DOMAIN v /\ (changed => fin = Null \/ fin \in DOMAIN v)
    <2>1. PICK k \in Nat : k = Len(hp2) BY <1>2
    <2>2. PICK T, Y : T = S \ {f.n} /\ Y = X \ {f.n} OBVIOUS
    <2>3. f.pre \in T /\ Y = {f.pre} /\ T \ {f.pre} = R /\ Y \ {f.pre} = {}
      BY <1>5, <1>14, <1>18, <2>2 DEF S
    <2>4. TrackerFits(pass, v1, T, k, lst, Y) BY <1>16, <2>1, <2>2
    <2>5. PICK changed2 \in BOOLEAN : changed2 = finish_changed(v1, hp, f.pre, fin)
      BY DEF finish_changed, Differs
    <2>6. Once(pass) => changed2
      <3> SUFFICES ASSUME Once(pass) PROVE changed2 OBVIOUS
      <3>1. changed \/ fin \in DOMAIN vis \/ Differs(hp, f.pre, fin)
        BY <1>1, <1>18
      <3>2. fin = Null \/ fin \in DOMAIN v1 \/ Differs(hp, f.pre, fin)
        BY <1>16, <3>1
      <3> QED BY <2>5, <3>2 DEF finish_changed
    <2>7. MayFinish(pass, v1, T, k, lst, Y, f.pre, hp, fin)
      <3>1. changed2 => fin \in 0..k BY <1>1, <1>18, <2>1
      <3>2. NoOther(pass) => /\ Seen(pass, f.pre, DOMAIN lst)
                             /\ Seen(pass, fin, DOMAIN lst)
        BY <1>1, <1>6, <1>14, <1>18 DEF Seen
      <3>3. Once(pass) => fin = f.pre \/ fin \notin T BY <1>13, <2>2
      <3>4. Once(pass) => /\ f.pre \in DOMAIN lst
                          /\ lst[f.pre] = IF changed2 THEN fin ELSE f.pre
        BY <1>6, <1>8, <1>14, <1>18, <2>6
      <3> QED BY <2>5, <3>1, <3>2, <3>3, <3>4 DEF MayFinish
    <2>8. v = finish(v1, hp, f.pre, fin) BY <1>0, <1>18
    <2>9. AfterFinish(pass, v1, v, T, k, lst, Y, f.pre, hp, fin)
      BY <2>3, <2>4, <2>7, <2>8, TrackerFinish, Zenon
    <2>10. /\ TrackerFits(pass, v, R, Len(hp2), lst, {})
           /\ DoneKept(pass, v1, v) /\ DOMAIN v1 \subseteq DOMAIN v
      BY <2>1, <2>3, <2>9 DEF AfterFinish
    <2>11. DoneKept(pass, vis, v) BY <1>16, <2>10 DEF DoneKept
    <2> QED BY <1>16, <2>10, <2>11
  <1>19. /\ TrackerFits(pass, v, R, Len(hp2), lst, {}) /\ DoneKept(pass, vis, v)
         /\ f.n \in DOMAIN v /\ (changed => fin = Null \/ fin \in DOMAIN v)
    BY <1>5, <1>17, <1>18
  <1>20. DoneKept(pass, visited, v) BY <1>19 DEF Ending, DoneKept
  <1>21. ret \in 0..Len(hp2)
    <2>1. f.n \in 0..Len(hp2)
      BY <1>2, <1>14, <1>4 DEF TrackerFits, BusyAre, VisTyped
    <2> QED BY <1>0, <1>1, <2>1
  <1>22. NoOther(pass) => Seen(pass, ret, DOMAIN lst)
    BY <1>0, <1>1, <1>6, <1>15 DEF Seen
  <1>23. Once(pass) => ret = Null \/ IsDone(v, ret)
    <2> SUFFICES ASSUME Once(pass) PROVE ret = Null \/ IsDone(v, ret) OBVIOUS
    <2>1. ret \notin R
      <3>1. R \subseteq S BY DEF S
      <3> QED BY <1>0, <1>5, <1>13, <3>1
    <2>2. ret = Null \/ ret \in DOMAIN v BY <1>0, <1>19
    <2>3. ret \in DOMAIN v => ~v[ret].busy BY <1>19, <2>1 DEF TrackerFits, BusyAre
    <2> QED BY <2>2, <2>3 DEF IsDone
  <1> QED BY <1>6, <1>19, <1>20, <1>21, <1>22, <1>23 DEF EndedOK, R

\* What is known of the innermost activation and of the others.
LEMMA TopFits ==
  ASSUME IInv, stack # << >>
  PROVE  /\ top = stack[1] /\ top \in Frames /\ Tail(stack) \in Seq(Frames)
         /\ FrameFits(pass, top, prune_flag, visited, heap, DOMAIN last)
         /\ FrameOK(top, Len(heap))
         /\ StackFits(pass, Tail(stack), visited, heap, DOMAIN last, top.save)
         /\ HeldBy(stack) = Held(top) \cup HeldBy(Tail(stack))
         /\ Atop(top, Tail(stack))
         /\ TrackerFits(pass, visited, HeldBy(stack), Len(heap), last, {})
  <1>1. /\ stack \in Seq(Frames) /\ heap \in Seq(AnyContent) /\ prune_flag \in BOOLEAN
        /\ StackFits(pass, stack, visited, heap, DOMAIN last, prune_flag)
        /\ TrackerFits(pass, visited, HeldBy(stack), Len(heap), last, {})
    BY DEF IInv, VisitOK, Shape
  <1>2. top = stack[1] /\ top \in Frames /\ 1 \in DOMAIN stack /\ Tail(stack) \in Seq(Frames)
    BY <1>1, TopAndRest DEF top
  <1>3. Grown(heap, heap) BY <1>1 DEF Grown
  <1>4. DoneKept(pass, visited, visited) BY DEF DoneKept
  <1>5. PICK D : D = DOMAIN last OBVIOUS
  <1>6. D \subseteq D /\ StackFits(pass, stack, visited, heap, D, prune_flag)
    BY <1>1, <1>5
  <1>7. /\ StackFits(pass, Tail(stack), visited, heap, D, stack[1].save)
        /\ HeldBy(stack) = Held(stack[1]) \cup HeldBy(Tail(stack))
        /\ Atop(stack[1], Tail(stack))
    BY <1>1, <1>3, <1>4, <1>6, FitsTail, Zenon
  <1>8. FrameFits(pass, top, prune_flag, visited, heap, DOMAIN last)
    BY <1>1, <1>2 DEF StackFits, flagOf
  <1>9. FrameOK(top, Len(heap)) BY <1>8 DEF FrameFits
  <1> QED BY <1>1, <1>2, <1>5, <1>7, <1>8, <1>9

\* The end of a visit, from postorder or a preorder that pruned.
LEMMA EndVisitStep ==
  ASSUME IInv, stack # << >>, pass' = pass, NEW f, NEW vis, NEW final, NEW hp,
         Ending(f, vis, final, hp), EndVisit(f, vis, final, hp),
         bug' \in BOOLEAN, edits' \in 0..pass.max_edits,
         DOMAIN did' = {"pre", "post", "cut"}
  PROVE  VisitOK' /\ DOMAIN last' = DOMAIN last \cup Held(f)
  <1>1. PICK fin : fin = FinOf(f, final, hp) OBVIOUS
  <1>2. PICK changed \in BOOLEAN : changed = finish_changed(vis, hp, f.n, fin)
    BY DEF finish_changed, Differs
  <1>3. PICK ret, v1, rest : /\ ret = (IF changed THEN fin ELSE f.n)
                             /\ v1 = finish(vis, hp, f.n, fin)
                             /\ rest = Tail(stack)
    OBVIOUS
  <1>4. f.extra \in BOOLEAN /\ f.n = top.n /\ f.save = top.save BY DEF Ending
  <1>5. PICK v : v = (IF f.extra THEN finish(v1, hp, f.pre, fin) ELSE v1) OBVIOUS
  <1>6. PICK hp2 : hp2 = HeapOf(f, final, hp, fin, changed) OBVIOUS
  <1>7. PICK lst : lst = Put(IF f.extra THEN Put(last, f.pre, fin) ELSE last, f.n, ret)
    OBVIOUS
  <1>8. /\ heap' = hp2 /\ last' = lst /\ prune_flag' = f.save
        /\ stack' = Resume(rest, ret)
        /\ returned' = (IF rest = << >> THEN ret ELSE returned)
        /\ rest = << >> => visited' = << >>
        /\ rest # << >> => visited' = v
    BY <1>1, <1>2, <1>3, <1>4, <1>5, <1>6, <1>7 DEF EndVisit, FinOf, HeapOf
  <1>9. FinalOK(f, vis, hp, fin, changed, hp2)
    BY <1>1, <1>2, <1>6, FinalNode, Zenon
  <1>10. Grown(heap, hp2) /\ HeapOK(pass, hp2) BY <1>9 DEF FinalOK
  <1>11. /\ TrackerFits(pass, v, HeldBy(rest), Len(hp2), lst, {})
         /\ DoneKept(pass, visited, v)
         /\ DOMAIN lst = DOMAIN last \cup Held(f)
         /\ ret \in 0..Len(hp2)
         /\ NoOther(pass) => Seen(pass, ret, DOMAIN lst)
         /\ Once(pass) => ret = Null \/ IsDone(v, ret)
    <2>1. EndValues(f, vis, final, hp, fin, changed, ret, hp2, lst, v1, v)
      BY <1>1, <1>2, <1>3, <1>5, <1>6, <1>7 DEF EndValues
    <2>2. EndedOK(f, ret, hp2, lst, v) BY <2>1, EndTracker, Zenon
    <2> QED BY <1>3, <2>2 DEF EndedOK
  <1>12. /\ pass \in Passes /\ heap \in Seq(AnyContent) /\ hp2 \in Seq(AnyContent)
         /\ Len(heap) \in Nat /\ Len(hp2) \in Nat /\ Len(heap) <= Len(hp2)
         /\ rest \in Seq(Frames) /\ top \in Frames /\ top = stack[1]
         /\ stack \in Seq(Frames) /\ prune_flag \in BOOLEAN
         /\ StackFits(pass, stack, visited, heap, DOMAIN last, prune_flag)
    BY <1>3, <1>10, TopFits DEF Grown, IInv, VisitOK, Shape
  <1>13. prune_flag' = top.save /\ top.save \in BOOLEAN
    BY <1>4, <1>8, <1>12 DEF Frames
  <1>14. PICK D : D = DOMAIN lst OBVIOUS
  <1>15. StackFits(pass, rest, v, hp2, D, top.save) /\ Atop(top, rest)
    <2>1. PICK C : C = DOMAIN last OBVIOUS
    <2>2. C \subseteq D /\ StackFits(pass, stack, visited, heap, C, prune_flag)
      BY <1>11, <1>12, <1>14, <2>1
    <2>3. /\ StackFits(pass, Tail(stack), v, hp2, D, stack[1].save)
          /\ Atop(stack[1], Tail(stack))
      BY <1>10, <1>11, <1>12, <2>2, FitsTail, Zenon
    <2> QED BY <1>3, <1>12, <2>3
  <1>16. ASSUME rest = << >>
         PROVE  /\ stack' = << >> /\ visited' = << >> /\ returned' # Self
                /\ StackFits(pass, stack, visited, heap, DOMAIN last, prune_flag)'
    <2>1. stack' = << >> /\ visited' = << >> /\ returned' = ret
      BY <1>8, <1>16 DEF Resume
    <2>2. ret # Self BY <1>11, <1>12 DEF Self
    <2>3. DOMAIN (stack') = {} BY <2>1
    <2> QED BY <2>1, <2>2, <2>3 DEF StackFits
  <1>17. ASSUME rest # << >>
         PROVE  /\ stack' \in Seq(Frames) /\ stack' # << >>
                /\ StackFits(pass, stack, visited, heap, DOMAIN last, prune_flag)'
                /\ HeldBy(stack') = HeldBy(rest)
    <2>1. PICK c, t : c = rest[1].copy.kids[rest[1].idx] /\ t = Resume(rest, ret) OBVIOUS
    <2>2. Waiting(rest[1]) /\ c = f.n
      BY <1>4, <1>15, <1>17, <2>1 DEF Atop, Linked
    <2>3. Seen(pass, c, D)
      <3>1. c \in Held(f) BY <2>2 DEF Held
      <3> QED BY <1>11, <1>14, <3>1 DEF Seen
    <2>4. rest[1].extra => c # rest[1].pre
      <3>1. top.n \notin HeldBy(rest) BY <1>15 DEF Atop, Held
      <3>2. Held(rest[1]) \subseteq HeldBy(rest)
        <4>1. 1 \in DOMAIN rest BY <1>12, <1>17
        <4> QED BY <4>1 DEF HeldBy
      <3> QED BY <1>4, <2>2, <3>1, <3>2 DEF Held
    <2>5. NoOther(pass) => Seen(pass, ret, D) /\ Seen(pass, c, D)
      BY <1>11, <1>14, <2>3
    <2>6. Result(pass, rest, v, hp2, D, ret)
      BY <1>11, <2>1, <2>2, <2>4, <2>5 DEF Result
    <2>7. FitsLike(pass, rest, t, v, hp2, D, top.save)
      BY <1>12, <1>13, <1>15, <1>17, <2>1, <2>6, ResumeFits, Zenon
    <2> QED BY <1>8, <1>13, <1>14, <1>17, <2>1, <2>7 DEF FitsLike
  <1>18. Shape'
    <2>1. DOMAIN lst \subseteq DOMAIN hp2
      <3>1. DOMAIN last \subseteq DOMAIN heap BY DEF IInv, VisitOK, Shape, Address
      <3>2. Held(f) \subseteq 1..Len(heap)
        BY DEF Ending, TrackerFits, BusyAre, VisTyped
      <3>3. DOMAIN heap = 1..Len(heap) /\ DOMAIN hp2 = 1..Len(hp2) BY <1>12
      <3> QED BY <1>11, <1>12, <3>1, <3>2, <3>3
    <2>2. returned' \in 0..Len(hp2) \cup {Self}
      BY <1>8, <1>11, <1>12 DEF IInv, VisitOK, Shape
    <2>3. stack' \in Seq(Frames)
      <3>1. CASE rest = << >> BY <1>16, <3>1
      <3>2. CASE rest # << >> BY <1>17, <3>2
      <3> QED BY <3>1, <3>2
    <2>4. stack' = << >> => visited' = << >> /\ returned' # Self BY <1>16, <1>17
    <2> QED BY <1>8, <1>12, <1>13, <2>1, <2>2, <2>3, <2>4 DEF Shape, Address
  <1>19. ASSUME stack' # << >>
         PROVE  TrackerFits(pass, visited, HeldBy(stack), Len(heap), last, {})'
    BY <1>8, <1>11, <1>16, <1>17, <1>19
  <1> QED BY <1>8, <1>10, <1>11, <1>16, <1>17, <1>18, <1>19 DEF VisitOK

-----------------------------------------------------------------------------
(***************************************************************************)
(* Steps that start a visit or go on with one.                             *)
(***************************************************************************)
\* What a step within a visit leaves as it was.
Within ==
  /\ pass' = pass /\ last' = last /\ returned' = returned
  /\ bug' \in BOOLEAN /\ edits' \in 0..pass.max_edits /\ prune_flag' \in BOOLEAN
  /\ DOMAIN did' = {"pre", "post", "cut"}
  /\ Grown(heap, heap') /\ HeapOK(pass, heap')

\* The invariant after a step, part by part.
LEMMA WithinStep ==
  ASSUME IInv, Within, stack' \in Seq(Frames), stack' # << >>,
         NEW D, D = DOMAIN last,
         StackFits(pass, stack', visited', heap', D, prune_flag'),
         TrackerFits(pass, visited', HeldBy(stack'), Len(heap'), last, {})
  PROVE  VisitOK'
  <1>1. /\ pass \in Passes /\ heap \in Seq(AnyContent)
        /\ DOMAIN last \subseteq DOMAIN heap /\ returned \in 0..Len(heap) \cup {Self}
    BY DEF IInv, VisitOK, Shape, Address
  <1>2. /\ heap' \in Seq(AnyContent) /\ Len(heap') \in Nat /\ Len(heap) \in Nat
        /\ Len(heap) <= Len(heap')
    BY <1>1 DEF Within, Grown
  <1>3. DOMAIN heap = 1..Len(heap) /\ DOMAIN (heap') = 1..Len(heap') BY <1>1, <1>2
  <1>4. DOMAIN last \subseteq DOMAIN (heap') BY <1>1, <1>2, <1>3
  <1>5. returned \in 0..Len(heap') \cup {Self} BY <1>1, <1>2
  <1>6. Shape' BY <1>1, <1>2, <1>4, <1>5 DEF Shape, Address, Within
  <1>7. StackFits(pass, stack, visited, heap, DOMAIN last, prune_flag)' BY DEF Within
  <1>8. TrackerFits(pass, visited, HeldBy(stack), Len(heap), last, {})' BY DEF Within
  <1> QED BY <1>6, <1>7, <1>8 DEF VisitOK, Within

\* The innermost activation is replaced.
LEMMA SwapStep ==
  ASSUME IInv, Within, stack # << >>, NEW g \in Frames,
         stack' = <<g>> \o Tail(stack), g.n = top.n, g.save = top.save,
         DoneKept(pass, visited, visited'),
         Held(g) \cap HeldBy(Tail(stack)) = {},
         FrameFits(pass, g, prune_flag', visited', heap', DOMAIN last),
         TrackerFits(pass, visited', Held(g) \cup HeldBy(Tail(stack)), Len(heap'), last, {})
  PROVE  VisitOK'
  <1>1. PICK D, t, v, k, fl : /\ D = DOMAIN last /\ t = Tail(stack) /\ v = visited'
                              /\ k = heap' /\ fl = prune_flag'
    OBVIOUS
  <1>2. /\ heap \in Seq(AnyContent) /\ stack \in Seq(Frames) /\ prune_flag \in BOOLEAN
        /\ StackFits(pass, stack, visited, heap, D, prune_flag)
        /\ t \in Seq(Frames) /\ top = stack[1] /\ Atop(top, t)
    BY <1>1, TopFits DEF IInv, VisitOK, Shape
  <1>3. Grown(heap, k) /\ DoneKept(pass, visited, v) /\ D \subseteq D /\ fl \in BOOLEAN
    BY <1>1 DEF Within
  <1>4. StackFits(pass, Tail(stack), v, k, D, stack[1].save)
    BY <1>2, <1>3, FitsTail, Zenon
  <1>5. StackFits(pass, t, v, k, D, g.save) BY <1>1, <1>2, <1>4
  <1>6. FrameFits(pass, g, fl, v, k, D) BY <1>1
  <1>7. Atop(g, t) BY <1>1, <1>2 DEF Atop, Linked
  <1>8. PICK s : s = Pushed(g, t) OBVIOUS
  <1>9. StackFits(pass, s, v, k, D, fl)
    BY <1>2, <1>3, <1>5, <1>6, <1>7, <1>8, FitsFront, Zenon
  <1>10. stack' = s /\ s \in Seq(Frames) /\ s # << >>
    BY <1>1, <1>2, <1>8, InFront DEF Pushed
  <1>11. HeldBy(s) = Held(g) \cup HeldBy(t) BY <1>2, <1>8, HeldFront
  <1>12. StackFits(pass, stack', visited', heap', D, prune_flag') BY <1>1, <1>9, <1>10
  <1>13. TrackerFits(pass, visited', HeldBy(stack'), Len(heap'), last, {})
    BY <1>1, <1>10, <1>11
  <1> QED BY <1>1, <1>10, <1>12, <1>13, WithinStep, Zenon

\* What the tracker says of a node.
LEMMA StatusIs ==
  ASSUME NEW n, NEW h \in Nat, VisTyped(visited, h)
  PROVE  /\ Status(n) = "New" <=> n \notin DOMAIN visited
         /\ Status(n) = "Busy" <=> n \in DOMAIN visited /\ visited[n].busy
         /\ Status(n) = "Done" <=> IsDone(visited, n) /\ visited[n].once
         /\ Status(n) = "Revisit" <=> IsDone(visited, n) /\ ~visited[n].once
  <1>1. n \in DOMAIN visited => visited[n].busy \in BOOLEAN /\ visited[n].once \in BOOLEAN
    BY DEF VisTyped
  <1> QED BY <1>1 DEF Status, IsDone

\* A node that is done, its result and the nodes being visited.
DoneNode(n) ==
  /\ n \in DOMAIN visited /\ n \in 1..Len(heap)
  /\ visited[n].result \in 0..Len(heap)
  /\ NoOther(pass) =>
       Seen(pass, n, DOMAIN last) /\ Seen(pass, visited[n].result, DOMAIN last)
  /\ Once(pass) => visited[n].result = Null \/ IsDone(visited, visited[n].result)

\* What a node that is done was replaced by.
LEMMA DoneIs ==
  ASSUME NEW S, Len(heap) \in Nat,
         TrackerFits(pass, visited, S, Len(heap), last, {}),
         NEW n, Status(n) = "Done"
  PROVE  DoneNode(n) /\ n \notin S
  <1>1. VisTyped(visited, Len(heap)) BY DEF TrackerFits
  <1>2. IsDone(visited, n) /\ visited[n].once BY <1>1, StatusIs
  <1>3. n \in DOMAIN visited /\ ~visited[n].busy BY <1>2 DEF IsDone
  <1>4. n \in 1..Len(heap) /\ visited[n].result \in 0..Len(heap)
    BY <1>1, <1>3 DEF VisTyped
  <1>5. n \notin S BY <1>3 DEF TrackerFits, BusyAre
  <1>6. NoOther(pass) =>
          Seen(pass, n, DOMAIN last) /\ Seen(pass, visited[n].result, DOMAIN last)
    BY <1>3 DEF TrackerFits, Met
  <1>7. Once(pass) => visited[n].result = Null \/ IsDone(visited, visited[n].result)
    BY <1>3 DEF TrackerFits, Plainly, Once
  <1> QED BY <1>3, <1>4, <1>5, <1>6, <1>7 DEF DoneNode

\* A node that a visit may begin with.
LEMMA BeginIs ==
  ASSUME NEW S, Len(heap) \in Nat, pass \in Passes,
         TrackerFits(pass, visited, S, Len(heap), last, {}),
         NEW n \in 1..Len(heap), Status(n) # "Done", Status(n) # "Busy"
  PROVE  /\ n \notin S
         /\ Once(pass) => n \notin DOMAIN visited
  <1>1. VisTyped(visited, Len(heap)) BY DEF TrackerFits
  <1>2. ~ (n \in DOMAIN visited /\ visited[n].busy)
    BY <1>1, StatusIs
  <1>3. ~ (IsDone(visited, n) /\ visited[n].once) BY <1>1, StatusIs
  <1>4. n \notin S BY <1>2 DEF TrackerFits, BusyAre
  <1>5. ASSUME Once(pass) PROVE n \notin DOMAIN visited
    <2> SUFFICES ASSUME n \in DOMAIN visited PROVE FALSE OBVIOUS
    <2>1. visited[n].once = pass.visitDagOnce BY <1>5 DEF TrackerFits, Plainly, Once
    <2>2. visited[n].once BY <1>5, <2>1 DEF Once
    <2> QED BY <1>2, <1>3, <2>2 DEF IsDone
  <1> QED BY <1>4, <1>5

\* The children of a fresh clone: those of the node, or what they were
\* replaced by.
Forwarded(n, copy) ==
  /\ copy \in AnyContent /\ Len(copy.kids) = Len(heap[n].kids)
  /\ DOMAIN copy.kids = DOMAIN heap[n].kids
  /\ Closed(copy, Len(heap))
  /\ \A i \in DOMAIN copy.kids :
       \/ copy.kids[i] = heap[n].kids[i]
       \/ /\ DoneNode(heap[n].kids[i]) /\ copy.kids[i] # Null
          /\ copy.kids[i] = visited[heap[n].kids[i]].result

\* ForwardChildren.
LEMMA ForwardIs ==
  ASSUME NEW S, heap \in Seq(AnyContent), HeapOK(pass, heap),
         TrackerFits(pass, visited, S, Len(heap), last, {}),
         NEW n \in 1..Len(heap), NEW copy, copy = ForwardChildren(heap[n])
  PROVE  Forwarded(n, copy)
  <1>0. /\ Len(heap) \in Nat /\ DOMAIN heap = 1..Len(heap)
        /\ heap[n] \in AnyContent /\ Closed(heap[n], Len(heap))
    BY DEF HeapOK
  <1>1. /\ heap[n] \in AnyContent /\ heap[n].kids \in Seq(Nat)
        /\ DOMAIN heap[n].kids = 1..Len(heap[n].kids) /\ Len(heap[n].kids) \in Nat
        /\ Len(heap) \in Nat /\ Closed(heap[n], Len(heap))
    BY <1>0 DEF AnyContent
  <1> DEFINE K == heap[n].kids
             ks == [i \in DOMAIN K |->
                      IF K[i] # Null /\ finalResult(K[i]) # Null
                      THEN finalResult(K[i]) ELSE K[i]]
  <1>2. copy = [heap[n] EXCEPT !.kids = ks] BY DEF ForwardChildren
  <1>3. DOMAIN ks = DOMAIN K /\ DOMAIN K = 1..Len(K) /\ Len(K) \in Nat
        /\ \A i \in DOMAIN K : K[i] \in 0..Len(heap)
    BY <1>1 DEF Closed
  <1>4. ASSUME NEW i \in DOMAIN K
        PROVE  \/ ks[i] = K[i]
               \/ DoneNode(K[i]) /\ ks[i] # Null /\ ks[i] = visited[K[i]].result
    <2>1. CASE K[i] # Null /\ finalResult(K[i]) # Null
      <3>1. Status(K[i]) = "Done" /\ finalResult(K[i]) = visited[K[i]].result
        BY <2>1 DEF finalResult
      <3>2. DoneNode(K[i]) BY <1>1, <3>1, DoneIs
      <3> QED BY <2>1, <3>1, <3>2
    <2>2. CASE ~ (K[i] # Null /\ finalResult(K[i]) # Null) BY <2>2
    <2> QED BY <2>1, <2>2
  <1>5. ASSUME NEW i \in DOMAIN K PROVE ks[i] \in 0..Len(heap)
    BY <1>3, <1>4 DEF DoneNode
  <1> HIDE DEF ks
  <1>6. ks \in Seq(Nat) /\ Len(ks) = Len(K)
    <2>1. PICK m \in Nat : m = Len(K) BY <1>3
    <2>2. \A i \in 1..m : ks[i] \in Nat BY <1>1, <1>3, <1>5, <2>1
    <2>3. ks = [i \in 1..m |-> ks[i]] BY <1>3, <2>1 DEF ks
    <2>4. ks \in [1..m -> Nat] BY <2>2, <2>3
    <2>5. \A q \in [1..m -> Nat] : q \in Seq(Nat) /\ Len(q) = m OBVIOUS
    <2> QED BY <2>1, <2>4, <2>5
  <1>7. copy \in AnyContent /\ copy.kids = ks BY <1>1, <1>2, <1>6 DEF AnyContent
  <1>8. Closed(copy, Len(heap)) BY <1>3, <1>5, <1>7 DEF Closed
  <1> QED BY <1>3, <1>4, <1>6, <1>7, <1>8 DEF Forwarded

\* A visit that begins.
LEMMA NewFrame ==
  ASSUME IInv, NEW S, TrackerFits(pass, visited, S, Len(heap), last, {}),
         NEW n \in 1..Len(heap), NEW v, DoneKept(pass, visited, v),
         NEW g, g = Frame(n)
  PROVE  /\ g \in Frames /\ g.n = n /\ g.save = prune_flag /\ Held(g) = {n}
         /\ FrameFits(pass, g, FALSE, v, heap, DOMAIN last)
  <1>1. /\ pass \in Passes /\ heap \in Seq(AnyContent) /\ HeapOK(pass, heap)
        /\ Len(heap) \in Nat /\ prune_flag \in BOOLEAN
    BY DEF IInv, VisitOK, Shape
  <1>2. PICK co : co = ForwardChildren(heap[n]) OBVIOUS
  <1>3. Forwarded(n, co) BY <1>1, <1>2, ForwardIs
  <1>4. g = [n |-> n, copy |-> co, pre |-> Self, extra |-> FALSE, idx |-> 1,
             phase |-> "preorder", save |-> prune_flag]
    BY <1>2 DEF Frame
  <1>5. /\ g.n = n /\ g.copy = co /\ g.pre = Self /\ g.extra = FALSE /\ g.idx = 1
        /\ g.phase = "preorder" /\ g.save = prune_flag
    BY <1>4
  <1>6. g \in Frames
    <2>1. co \in AnyContent /\ "preorder" \in Phases /\ Self \in Int /\ n \in Nat
      BY <1>3 DEF Forwarded, Phases, Self
    <2> QED BY <1>1, <1>4, <2>1 DEF Frames
  <1>7. FrameOK(g, Len(heap)) BY <1>3, <1>5 DEF FrameOK, Forwarded
  <1>8. ASSUME NoOther(pass) PROVE KidsOK(pass, g, DOMAIN last)
    <2>1. object(g) = n /\ Reached(g) = 1 BY <1>5 DEF object, Reached
    <2>2. \A i \in DOMAIN co.kids : i \in Nat /\ i >= 1
      <3>1. co.kids \in Seq(Nat) BY <1>3 DEF Forwarded, AnyContent
      <3> QED BY <3>1
    <2>3. ASSUME n \in DOMAIN pass.kids
          PROVE  /\ Len(co.kids) = Len(pass.kids[n])
                 /\ \A i \in DOMAIN co.kids :
                      pass.kids[n][i] \in DOMAIN last \/ co.kids[i] = pass.kids[n][i]
      <3>1. heap[n].kids = pass.kids[n] BY <1>1, <2>3 DEF HeapOK
      <3>2. ASSUME NEW i \in DOMAIN co.kids, co.kids[i] # pass.kids[n][i]
            PROVE  pass.kids[n][i] \in DOMAIN last
        <4>1. DoneNode(pass.kids[n][i]) BY <1>3, <3>1, <3>2 DEF Forwarded
        <4>2. Seen(pass, pass.kids[n][i], DOMAIN last) BY <1>8, <4>1 DEF DoneNode
        <4>3. i \in DOMAIN pass.kids[n] BY <1>3, <3>1 DEF Forwarded
        <4>4. pass.kids[n][i] \in DOMAIN pass.kids BY <1>1, <2>3, <4>3, KidsTyped
        <4> QED BY <4>2, <4>4 DEF Seen
      <3> QED BY <1>3, <3>1, <3>2 DEF Forwarded
    <2> QED BY <1>5, <2>1, <2>2, <2>3 DEF KidsOK
  <1>9. ASSUME Once(pass) PROVE OnceOK(g, v, heap)
    <2>1. ASSUME NEW j \in DOMAIN co.kids
          PROVE  \/ j \in DOMAIN heap[n].kids /\ co.kids[j] = heap[n].kids[j]
                 \/ IsDone(v, co.kids[j])
      <3>1. CASE co.kids[j] = heap[n].kids[j] BY <1>3, <3>1 DEF Forwarded
      <3>2. CASE co.kids[j] # heap[n].kids[j]
        <4>1. /\ DoneNode(heap[n].kids[j]) /\ co.kids[j] # Null
              /\ co.kids[j] = visited[heap[n].kids[j]].result
          BY <1>3, <3>2 DEF Forwarded
        <4>2. IsDone(visited, co.kids[j]) BY <1>9, <4>1 DEF DoneNode
        <4> QED BY <1>9, <4>2 DEF DoneKept
      <3> QED BY <3>1, <3>2
    <2> QED BY <1>5, <2>1 DEF OnceOK, Null, Self
  <1>10. FrameFits(pass, g, FALSE, v, heap, DOMAIN last)
    BY <1>5, <1>7, <1>8, <1>9 DEF FrameFits
  <1> QED BY <1>5, <1>6, <1>10 DEF Held

\* apply_visitor is called, by the caller of the pass or for a child.
LEMMA BeginStep ==
  ASSUME IInv, Within, heap' = heap,
         TrackerFits(pass, visited, HeldBy(stack), Len(heap), last, {}),
         NEW n \in 1..Len(heap), Begin(n),
         stack # << >> =>
           Waiting(stack[1]) /\ n = stack[1].copy.kids[stack[1].idx],
         stack' = <<Frame(n)>> \o stack
  PROVE  VisitOK'
  <1>1. PICK D, v, g, S, h, once :
           /\ D = DOMAIN last /\ v = visited' /\ g = Frame(n) /\ S = HeldBy(stack)
           /\ h = Len(heap) /\ once = pass.visitDagOnce
    OBVIOUS
  <1>2. /\ heap \in Seq(AnyContent) /\ stack \in Seq(Frames) /\ prune_flag \in BOOLEAN
        /\ StackFits(pass, stack, visited, heap, D, prune_flag) /\ pass \in Passes
        /\ h \in Nat /\ once \in BOOLEAN
    BY <1>1, TransformAssumption DEF IInv, VisitOK, Shape
  <1>3. TrackerFits(pass, visited, S, h, last, {}) /\ n \in 1..h BY <1>1
  <1>4. /\ v = try_start(visited, n, once) /\ prune_flag' = FALSE
        /\ Status(n) # "Done" /\ Status(n) # "Busy"
    BY <1>1 DEF Begin
  <1>5. n \notin S /\ (Once(pass) => n \notin DOMAIN visited)
    BY <1>1, <1>2, <1>3, <1>4, BeginIs
  <1>6. TrackerFits(pass, v, S \cup {n}, h, last, {}) /\ DoneKept(pass, visited, v)
    <2>1. MayStart(pass, visited, S, h, n, once)
      BY <1>1, <1>2, <1>3, <1>5 DEF MayStart
    <2>2. AfterStart(pass, visited, v, S, h, last, n)
      BY <1>2, <1>3, <1>4, <2>1, TrackerStart, Zenon
    <2> QED BY <2>2 DEF AfterStart
  <1>7. /\ g \in Frames /\ g.n = n /\ g.save = prune_flag /\ Held(g) = {n}
        /\ FrameFits(pass, g, FALSE, v, heap, D)
    <2>1. TrackerFits(pass, visited, S, Len(heap), last, {}) BY <1>1
    <2>2. /\ g \in Frames /\ g.n = n /\ g.save = prune_flag /\ Held(g) = {n}
          /\ FrameFits(pass, g, FALSE, v, heap, DOMAIN last)
      BY <1>1, <1>6, <2>1, NewFrame, Zenon
    <2> QED BY <1>1, <2>2
  <1>8. Atop(g, stack) BY <1>1, <1>5, <1>7 DEF Atop, Linked
  <1>9. StackFits(pass, stack, v, heap, D, g.save)
    <2>1. ASSUME NEW i \in DOMAIN stack
          PROVE  FrameFits(pass, stack[i], flagOf(stack, prune_flag, i), v, heap, D)
      <3>1. PICK f, fl : f = stack[i] /\ fl = flagOf(stack, prune_flag, i) OBVIOUS
      <3>2. FrameFits(pass, f, fl, visited, heap, D) BY <1>2, <3>1 DEF StackFits
      <3>3. f \in Frames BY <1>2, <3>1
      <3>4. fl \in BOOLEAN
        <4>1. CASE i = 1 BY <1>2, <3>1, <4>1 DEF flagOf
        <4>2. CASE i # 1
          <5>1. i - 1 \in DOMAIN stack BY <1>2, <4>2
          <5>2. stack[i - 1] \in Frames BY <1>2, <5>1
          <5> QED BY <3>1, <4>2, <5>2 DEF flagOf, Frames
        <4> QED BY <4>1, <4>2
      <3>5. Grown(heap, heap) /\ D \subseteq D BY <1>2 DEF Grown
      <3>6. FrameFits(pass, f, fl, v, heap, D)
        BY <1>2, <1>6, <3>2, <3>3, <3>4, <3>5, FitsKept, Zenon
      <3> QED BY <3>1, <3>6
    <2>2. StackFits(pass, stack, v, heap, D, prune_flag) BY <1>2, <2>1 DEF StackFits
    <2> QED BY <1>7, <2>2
  <1>10. PICK s, fl : s = Pushed(g, stack) /\ fl = FALSE /\ fl \in BOOLEAN OBVIOUS
  <1>11. StackFits(pass, s, v, heap, D, fl)
    <2>1. FrameFits(pass, g, fl, v, heap, D) BY <1>7, <1>10
    <2> QED BY <1>2, <1>7, <1>8, <1>9, <1>10, <2>1, FitsFront, Zenon
  <1>12. stack' = s /\ s \in Seq(Frames) /\ s # << >>
    BY <1>1, <1>2, <1>7, <1>10, InFront DEF Pushed
  <1>13. HeldBy(s) = S \cup {n}
    <2>1. HeldBy(s) = Held(g) \cup HeldBy(stack) BY <1>2, <1>7, <1>10, HeldFront
    <2> QED BY <1>1, <1>7, <2>1
  <1>14. StackFits(pass, stack', visited', heap', D, prune_flag')
    BY <1>1, <1>4, <1>10, <1>11, <1>12
  <1>15. TrackerFits(pass, visited', HeldBy(stack'), Len(heap'), last, {})
    BY <1>1, <1>6, <1>12, <1>13
  <1> QED BY <1>1, <1>12, <1>14, <1>15, WithinStep, Zenon

-----------------------------------------------------------------------------
(***************************************************************************)
(* The kinds of step.                                                      *)
(***************************************************************************)
\* Nothing goes on: the pass calls the tracker, or a BUG is raised.
Idles ==
  /\ UNCHANGED <<pass, heap, stack, returned, did, last>>
  /\ Uniform(pass) => visited' = visited
  /\ \A n : IsDone(visited', n) =>
       IsDone(visited, n) /\ visited'[n].result = visited[n].result

\* A visit starts, of the root or of the child the innermost one waits for.
Starts(n) ==
  /\ UNCHANGED <<pass, heap, returned, did, last>>
  /\ n \in 1..Len(heap) /\ Begin(n) /\ stack' = Pushed(Frame(n), stack)
  /\ stack = << >> => returned = Self
  /\ stack # << >> => Waiting(top) /\ n = top.copy.kids[top.idx]

\* The tracker has the result of that child.
HandsOn(ret) ==
  /\ UNCHANGED <<pass, heap, visited, returned, did, last>>
  /\ stack # << >> /\ Waiting(top) /\ stack' = Pushed(Resumed(top, ret), Tail(stack))
  /\ \/ ret = Null /\ top.copy.kids[top.idx] = Null
     \/ /\ Status(top.copy.kids[top.idx]) = "Done"
        /\ ret = visited[top.copy.kids[top.idx]].result

\* What preorder may leave: it has returned, or waits for a child.
LeftByPreorder(g, hp, fl) ==
  /\ g \in Frames /\ g.n = top.n /\ g.save = top.save /\ ~g.extra
  /\ g.copy.kids = top.copy.kids
  /\ \/ /\ g.phase = "returned" /\ g.idx = 1
        /\ \/ g.pre \in {Self, Null}
           \/ g.pre = Len(heap) + 1 /\ g.pre <= Len(hp) /\ hp[g.pre].label = 1
           \/ \E i \in DOMAIN top.copy.kids : g.pre = top.copy.kids[i]
     \/ /\ g.phase \in {"visit_kid", "transform_child"}
        /\ g.phase = "visit_kid" => fl
        /\ g.pre = Self /\ g.idx \in DOMAIN top.copy.kids

PreorderLeaves(g, op) ==
  /\ UNCHANGED <<pass, visited, returned, last>>
  /\ stack # << >> /\ top.phase = "preorder" /\ stack' = Pushed(g, Tail(stack))
  /\ Grown(heap, heap') /\ LeftByPreorder(g, heap', prune_flag')
  /\ op \in pass.pre /\ \E arg : DidPre(op, arg)
  /\ op \in {"keep", "prune"} => g.phase = "returned" /\ g.pre = Self /\ g.copy = top.copy
  /\ op # "kid" => g.pre \in {Self, Null, Len(heap) + 1}

\* The visit of the children begins, of the clone or of the node that preorder
\* returned.
AtKids(g) ==
  /\ UNCHANGED <<pass, heap, returned, did, last>>
  /\ stack # << >> /\ top.phase = "returned" /\ stack' = Pushed(g, Tail(stack))
  /\ g \in Frames /\ g.n = top.n /\ g.pre = top.pre /\ g.phase = "kids" /\ g.idx = 1
  /\ \/ /\ top.pre = Self /\ ~g.extra /\ g.copy = top.copy /\ visited' = visited
     \/ /\ top.pre > Null /\ g.extra /\ g.copy = heap[top.pre]
        /\ Status(top.pre) \in {"New", "Revisit"}
        /\ visited' = try_start(visited, top.pre, visited[top.n].once)

\* A visit ends: a preorder pruned, or returned a node that is done or null; or
\* postorder has run.
Prunes(f, vis, final, hp) ==
  /\ did' = [did EXCEPT !.cut = @ \cup {f.n, last'[f.n]}]
  /\ \/ /\ f = top /\ vis = visited /\ ~f.extra /\ top.pre = Self
        /\ final = Len(heap) + 1 /\ hp = Append(heap, top.copy)
     \/ /\ f = [top EXCEPT !.extra = TRUE] /\ top.pre > Null
        /\ Status(top.pre) \in {"New", "Revisit"}
        /\ vis = try_start(visited, top.pre, visited[top.n].once)
        /\ final = top.pre /\ hp = heap

Replaces(f, vis, final, hp) ==
  /\ did' = did /\ f = top /\ vis = visited /\ ~f.extra /\ hp = heap
  /\ \/ top.pre = Null /\ final = Null
     \/ top.pre > Null /\ Status(top.pre) = "Done" /\ final = visited[top.pre].result

PostorderDoes(op, arg, final, hp) ==
  /\ did' = [did EXCEPT !.post = Put(@, object(top), <<op, arg>>)]
  /\ \/ /\ op \in {"keep", "edit"} /\ final = Len(heap) + 1
        /\ \E c \in AnyContent : /\ hp = Append(heap, c) /\ c.kids = top.copy.kids
                                 /\ op = "keep" => c = top.copy
     \/ op = "null" /\ final = Null /\ hp = heap
     \/ /\ op = "kid" /\ hp = heap
        /\ \E i \in DOMAIN top.copy.kids : final = top.copy.kids[i]
     \/ op = "other" /\ hp = heap

PostorderLeaves(f, vis, final, hp) ==
  /\ f = top /\ vis = visited /\ top.phase = "kids" /\ top.idx > Len(top.copy.kids)
  /\ \E op, arg : op \in pass.post /\ PostorderDoes(op, arg, final, hp)

Ends(f, vis, final, hp) ==
  /\ pass' = pass /\ stack # << >>
  /\ Ending(f, vis, final, hp) /\ EndVisit(f, vis, final, hp)
  /\ \/ top.phase \in {"returned", "transformed"} /\ Prunes(f, vis, final, hp)
     \/ top.phase \in {"returned", "transformed"} /\ Replaces(f, vis, final, hp)
     \/ PostorderLeaves(f, vis, final, hp)

-----------------------------------------------------------------------------
(***************************************************************************)
(* The actions.                                                            *)
(***************************************************************************)
\* Nothing but the tracker and the activations changes.
LEMMA WithinIs ==
  ASSUME IInv, pass' = pass, heap' = heap, last' = last, returned' = returned,
         bug' \in BOOLEAN, edits' \in 0..pass.max_edits, prune_flag' \in BOOLEAN,
         DOMAIN did' = {"pre", "post", "cut"}
  PROVE  Within
  <1>1. heap \in Seq(AnyContent) /\ HeapOK(pass, heap)
    BY DEF IInv, VisitOK, Shape
  <1> QED BY <1>1 DEF Within, Grown

\* The call of the pass.
LEMMA ApplyStep ==
  ASSUME IInv, Apply, pass' = pass
  PROVE  VisitOK' /\ Starts(Root)
  <1>1. /\ pass \in Passes /\ heap \in Seq(AnyContent) /\ HeapOK(pass, heap)
        /\ stack = << >> /\ visited = << >> /\ last = << >> /\ Len(heap) \in Nat
        /\ bug \in BOOLEAN /\ edits \in 0..pass.max_edits
        /\ DOMAIN did = {"pre", "post", "cut"}
    BY DEF IInv, VisitOK, Shape, Apply
  <1>2. Within BY <1>1, WithinIs DEF Apply, Begin
  <1>3. Root \in 1..Len(heap)
    <2>1. /\ Root \in DOMAIN pass.kids /\ DOMAIN pass.kids = 1..Len(pass.kids)
          /\ Len(pass.kids) \in Nat
      BY <1>1, KidsTyped
    <2> QED BY <1>1, <2>1 DEF HeapOK
  <1>4. TrackerFits(pass, visited, HeldBy(stack), Len(heap), last, {})
    <2>1. DOMAIN visited = {} /\ DOMAIN stack = {} /\ DOMAIN last = {} BY <1>1
    <2>2. HeldBy(stack) = {} BY <2>1 DEF HeldBy
    <2> QED BY <2>1, <2>2
         DEF TrackerFits, VisTyped, BusyAre, Plainly, Met, Agrees
  <1>5. stack' = <<Frame(Root)>> \o stack
    <2>1. stack' = <<Frame(Root)>> BY DEF Apply
    <2> QED BY <1>1, <2>1
  <1>6. VisitOK' BY <1>1, <1>2, <1>3, <1>4, <1>5, BeginStep DEF Apply
  <1>7. Starts(Root) BY <1>1, <1>3, <1>5 DEF Apply, Starts, Pushed
  <1> QED BY <1>6, <1>7

\* The tracker has the answer for the child the innermost activation waits for.
LEMMA ResumeStep ==
  ASSUME IInv, Within, stack # << >>, UNCHANGED <<heap, visited, prune_flag>>,
         NEW ret, Result(pass, stack, visited, heap, DOMAIN last, ret),
         stack' = Resume(stack, ret)
  PROVE  VisitOK'
  <1>1. PICK D, t : D = DOMAIN last /\ t = Resume(stack, ret) OBVIOUS
  <1>2. /\ pass \in Passes /\ heap \in Seq(AnyContent) /\ stack \in Seq(Frames)
        /\ prune_flag \in BOOLEAN /\ StackFits(pass, stack, visited, heap, D, prune_flag)
        /\ TrackerFits(pass, visited, HeldBy(stack), Len(heap), last, {})
    BY <1>1 DEF IInv, VisitOK, Shape
  <1>3. Result(pass, stack, visited, heap, D, ret) BY <1>1
  <1>4. FitsLike(pass, stack, t, visited, heap, D, prune_flag)
    BY <1>1, <1>2, <1>3, ResumeFits, Zenon
  <1>5. /\ stack' \in Seq(Frames) /\ stack' # << >>
        /\ StackFits(pass, stack', visited', heap', D, prune_flag')
        /\ TrackerFits(pass, visited', HeldBy(stack'), Len(heap'), last, {})
    BY <1>1, <1>2, <1>4 DEF FitsLike
  <1> QED BY <1>1, <1>5, WithinStep, Zenon

\* visit(child).
LEMMA VisitChildStep ==
  ASSUME IInv, stack # << >>, ~bug, pass' = pass, Waiting(top),
         VisitChild(top.copy.kids[top.idx]),
         UNCHANGED <<heap, returned, edits, did, last>>
  PROVE  VisitOK' /\ (Idles \/ (\E n : Starts(n)) \/ (\E ret : HandsOn(ret)))
  <1>1. PICK c : c = top.copy.kids[top.idx] OBVIOUS
  <1>2. /\ top = stack[1] /\ top \in Frames /\ FrameOK(top, Len(heap))
        /\ TrackerFits(pass, visited, HeldBy(stack), Len(heap), last, {})
        /\ HeldBy(stack) = Held(top) \cup HeldBy(Tail(stack))
    BY TopFits
  <1>3. /\ pass \in Passes /\ heap \in Seq(AnyContent) /\ Len(heap) \in Nat
        /\ stack \in Seq(Frames) /\ prune_flag \in BOOLEAN /\ bug \in BOOLEAN
        /\ edits \in 0..pass.max_edits /\ DOMAIN did = {"pre", "post", "cut"}
        /\ VisitOK
    BY DEF IInv, VisitOK, Shape
  <1>4. c \in 0..Len(heap) BY <1>1, <1>2 DEF FrameOK, Closed, Waiting
  <1>5. prune_flag' \in BOOLEAN /\ bug' \in BOOLEAN BY <1>3 DEF VisitChild, Begin
  <1>6. Within BY <1>3, <1>5, WithinIs
  <1>7. top.extra => top.pre \in HeldBy(stack) /\ top.pre \in 1..Len(heap)
    BY <1>2 DEF Held, FrameOK
  <1>8. CASE c = Null /\ stack' = Resume(stack, Null) /\ UNCHANGED <<visited, prune_flag, bug>>
    <2>1. \A D : Seen(pass, Null, D)
      BY <1>3, KidsTyped DEF Seen, Null
    <2>2. Result(pass, stack, visited, heap, DOMAIN last, Null)
      BY <1>1, <1>2, <1>3, <1>7, <1>8, <2>1 DEF Result, Null
    <2>3. HandsOn(Null)
      BY <1>1, <1>8, ResumeIs DEF HandsOn, Pushed, top
    <2> QED BY <1>6, <1>8, <2>2, <2>3, ResumeStep
  <1>9. CASE /\ c # Null /\ Status(c) = "Done"
             /\ stack' = Resume(stack, visited[c].result)
             /\ UNCHANGED <<visited, prune_flag, bug>>
    <2>1. DoneNode(c) /\ c \notin HeldBy(stack) BY <1>2, <1>3, <1>9, DoneIs
    <2>2. PICK r : r = visited[c].result OBVIOUS
    <2>3. Result(pass, stack, visited, heap, DOMAIN last, r)
      BY <1>1, <1>2, <1>7, <2>1, <2>2 DEF Result, DoneNode
    <2>4. HandsOn(r)
      BY <1>1, <1>9, <2>2, ResumeIs DEF HandsOn, Pushed, top
    <2> QED BY <1>6, <1>9, <2>2, <2>3, <2>4, ResumeStep
  <1>10. CASE c # Null /\ bug' = TRUE /\ UNCHANGED <<visited, prune_flag, stack>>
    <2>1. Shape' BY <1>3, <1>10 DEF VisitOK, Shape, Address
    <2>2. Idles BY <1>10 DEF Idles
    <2> QED BY <1>3, <1>10, <2>1, <2>2 DEF VisitOK
  <1>11. CASE c # Null /\ Begin(c) /\ stack' = <<Frame(c)>> \o stack /\ UNCHANGED bug
    <2>1. c \in 1..Len(heap) BY <1>4, <1>11 DEF Null
    <2>2. Waiting(stack[1]) /\ c = stack[1].copy.kids[stack[1].idx] BY <1>1, <1>2
    <2>3. Starts(c) BY <1>1, <1>11, <2>1 DEF Starts, Pushed
    <2> QED BY <1>2, <1>6, <1>11, <2>1, <2>2, <2>3, BeginStep
  <1> QED BY <1>1, <1>8, <1>9, <1>10, <1>11 DEF VisitChild

\* A visit of a child, of the clone or from preorder.
LEMMA ChildStep ==
  ASSUME IInv, VisitChildren \/ VisitInPreorder, pass' = pass
  PROVE  VisitOK' /\ (Idles \/ (\E n : Starts(n)) \/ (\E ret : HandsOn(ret)))
  <1>1. stack # << >> /\ ~bug BY DEF VisitChildren, VisitInPreorder, Running
  <1>2. top \in Frames /\ FrameOK(top, Len(heap)) BY <1>1, TopFits
  <1>3. Waiting(top)
    <2>1. /\ DOMAIN top.copy.kids = 1..Len(top.copy.kids) /\ top.idx \in Nat
          /\ Len(top.copy.kids) \in Nat
      <3>1. top.copy.kids \in Seq(Nat) /\ top.idx \in Nat BY <1>2 DEF Frames, AnyContent
      <3> QED BY <3>1
    <2>2. CASE VisitChildren
      BY <1>2, <2>1, <2>2 DEF VisitChildren, Running, Waiting, FrameOK
    <2>3. CASE VisitInPreorder
      BY <1>2, <2>3 DEF VisitInPreorder, Running, Waiting, FrameOK
    <2> QED BY <2>2, <2>3
  <1>4. /\ VisitChild(top.copy.kids[top.idx])
        /\ UNCHANGED <<heap, returned, edits, did, last>>
    BY DEF VisitChildren, VisitInPreorder
  <1> QED BY <1>1, <1>3, <1>4, VisitChildStep

\* visitOnce, visitAgain or revisit_visited.
LEMMA CallStep ==
  ASSUME IInv, CallTracker, pass' = pass
  PROVE  VisitOK' /\ Idles
  <1>1. /\ stack # << >> /\ pass.calls # {}
        /\ UNCHANGED <<heap, stack, prune_flag, returned, bug, did, last>>
    BY DEF CallTracker, Running
  <1>2. ~Uniform(pass) /\ ~Once(pass) BY <1>1 DEF Uniform, Once
  <1>3. /\ Shape /\ HeapOK(pass, heap) /\ Len(heap) \in Nat
        /\ StackFits(pass, stack, visited, heap, DOMAIN last, prune_flag)
        /\ TrackerFits(pass, visited, HeldBy(stack), Len(heap), last, {})
        /\ top.n \in DOMAIN visited /\ visited[top.n].busy
    <2>1. /\ Shape /\ HeapOK(pass, heap) /\ Len(heap) \in Nat
          /\ StackFits(pass, stack, visited, heap, DOMAIN last, prune_flag)
          /\ TrackerFits(pass, visited, HeldBy(stack), Len(heap), last, {})
      BY <1>1 DEF IInv, VisitOK, Shape
    <2>2. top.n \in HeldBy(stack)
      <3>1. HeldBy(stack) = Held(top) \cup HeldBy(Tail(stack)) BY <1>1, TopFits
      <3> QED BY <3>1 DEF Held
    <2> QED BY <2>1, <2>2 DEF TrackerFits, BusyAre
  <1>4. edits' \in 0..pass.max_edits
    <2>1. pass.max_edits \in Nat BY <1>3, TransformAssumption DEF Shape
    <2>2. PICK call : Edit(call) BY DEF CallTracker
    <2> QED BY <1>3, <2>1, <2>2 DEF Edit, Shape
  <1>5. Shape' BY <1>1, <1>3, <1>4 DEF Shape, Address
  <1>6. StackFits(pass, stack, visited, heap, DOMAIN last, prune_flag)'
    BY <1>1, <1>2, <1>3 DEF StackFits, FrameFits
  <1>7. /\ DOMAIN visited' \subseteq DOMAIN visited
        /\ \A n \in DOMAIN visited' :
             /\ visited'[n].busy = visited[n].busy
             /\ visited'[n].result = visited[n].result
             /\ visited'[n].once \in BOOLEAN
             /\ visited'[n] \in [busy : BOOLEAN, once : BOOLEAN, result : 0..Len(heap)]
        /\ \A n \in DOMAIN visited : visited[n].busy => n \in DOMAIN visited'
    <2>0. PICK v, vis, m, R : /\ v = visited' /\ vis = visited /\ m = top.n
                           /\ R = [busy : BOOLEAN, once : BOOLEAN, result : 0..Len(heap)]
      OBVIOUS
    <2>1. \A n \in DOMAIN vis : vis[n] \in R
      BY <1>3, <2>0 DEF TrackerFits, VisTyped
    <2>2. m \in DOMAIN vis BY <1>3, <2>0
    <2>3. ASSUME NEW b \in BOOLEAN, v = [vis EXCEPT ![m].once = b]
          PROVE  /\ DOMAIN v = DOMAIN vis
                 /\ \A n \in DOMAIN v :
                      /\ v[n].busy = vis[n].busy /\ v[n].result = vis[n].result
                      /\ v[n].once \in BOOLEAN /\ v[n] \in R
      <3>1. DOMAIN v = DOMAIN vis /\ v[m] = [vis[m] EXCEPT !.once = b]
        BY <2>2, <2>3
      <3>2. \A n \in DOMAIN v : n # m => v[n] = vis[n] BY <2>3
      <3>3. v[m] \in R /\ v[m].busy = vis[m].busy /\ v[m].result = vis[m].result
            /\ v[m].once \in BOOLEAN
        BY <2>0, <2>1, <2>2, <3>1
      <3>4. \A n \in DOMAIN vis : vis[n].once \in BOOLEAN BY <2>0, <2>1
      <3> QED BY <2>1, <3>1, <3>2, <3>3, <3>4
    <2>4. ASSUME v = [n \in {k \in DOMAIN vis : vis[k].busy} |-> vis[n]]
          PROVE  /\ DOMAIN v = {k \in DOMAIN vis : vis[k].busy}
                 /\ \A n \in DOMAIN v :
                      /\ v[n].busy = vis[n].busy /\ v[n].result = vis[n].result
                      /\ v[n].once \in BOOLEAN /\ v[n] \in R
      <3>1. DOMAIN v = {k \in DOMAIN vis : vis[k].busy} BY <2>4
      <3>2. \A n \in DOMAIN v : v[n] = vis[n] /\ n \in DOMAIN vis BY <2>4, <3>1
      <3>3. \A n \in DOMAIN vis : vis[n].once \in BOOLEAN BY <2>0, <2>1
      <3> QED BY <2>1, <3>1, <3>2, <3>3
    <2>5. \/ v = [vis EXCEPT ![m].once = TRUE]
          \/ v = [vis EXCEPT ![m].once = FALSE]
          \/ v = [n \in {k \in DOMAIN vis : vis[k].busy} |-> vis[n]]
      BY <2>0 DEF CallTracker
    <2>6. /\ DOMAIN v \subseteq DOMAIN vis
          /\ \A n \in DOMAIN v :
               /\ v[n].busy = vis[n].busy /\ v[n].result = vis[n].result
               /\ v[n].once \in BOOLEAN /\ v[n] \in R
          /\ \A n \in DOMAIN vis : vis[n].busy => n \in DOMAIN v
      <3>1. CASE v = [vis EXCEPT ![m].once = TRUE] BY <2>3, <3>1
      <3>2. CASE v = [vis EXCEPT ![m].once = FALSE] BY <2>3, <3>2
      <3>3. CASE v = [n \in {k \in DOMAIN vis : vis[k].busy} |-> vis[n]] BY <2>4, <3>3
      <3> QED BY <2>5, <3>1, <3>2, <3>3
    <2> QED BY <2>0, <2>6
  <1>8. TrackerFits(pass, visited, HeldBy(stack), Len(heap), last, {})'
    <2>1. VisTyped(visited', Len(heap)) BY <1>3, <1>7 DEF TrackerFits, VisTyped
    <2>2. BusyAre(visited', HeldBy(stack)) BY <1>3, <1>7 DEF TrackerFits, BusyAre
    <2>3. Met(pass, visited', DOMAIN last) BY <1>3, <1>7 DEF TrackerFits, Met
    <2>4. Plainly(pass, visited', {}) /\ Agrees(pass, visited', last)
      BY <1>2 DEF Plainly, Agrees
    <2> QED BY <1>1, <2>1, <2>2, <2>3, <2>4 DEF TrackerFits
  <1>9. Idles
    <2>1. ASSUME NEW n, IsDone(visited', n)
          PROVE  IsDone(visited, n) /\ visited'[n].result = visited[n].result
      BY <1>7, <2>1 DEF IsDone
    <2> QED BY <1>1, <1>2, <2>1 DEF Idles
  <1> QED BY <1>1, <1>3, <1>5, <1>6, <1>8, <1>9 DEF VisitOK

\* The activation g takes the place of the innermost one, which has made no
\* node, and holds the same node.
LEMMA SameNodeStep ==
  ASSUME IInv, Within, stack # << >>, visited' = visited, NEW g \in Frames,
         stack' = <<g>> \o Tail(stack), g.n = top.n, g.save = top.save,
         ~top.extra, ~g.extra,
         FrameFits(pass, g, prune_flag', visited, heap', DOMAIN last)
  PROVE  VisitOK'
  <1>1. /\ TrackerFits(pass, visited, HeldBy(stack), Len(heap), last, {})
        /\ HeldBy(stack) = Held(top) \cup HeldBy(Tail(stack)) /\ Atop(top, Tail(stack))
        /\ heap \in Seq(AnyContent)
    BY TopFits DEF IInv, VisitOK, Shape
  <1>2. Held(g) = Held(top) BY DEF Held
  <1>3. PICK h \in Nat, k \in Nat : h = Len(heap) /\ k = Len(heap') /\ h <= k
    BY <1>1 DEF Within, Grown
  <1>4. PICK S : S = Held(g) \cup HeldBy(Tail(stack)) OBVIOUS
  <1>5. TrackerFits(pass, visited, S, h, last, {}) /\ Noted(S, last, last)
    BY <1>1, <1>2, <1>3, <1>4 DEF Noted
  <1>6. TrackerFits(pass, visited, S, k, last, {})
    BY <1>3, <1>5, TrackerNoted, Zenon
  <1>7. TrackerFits(pass, visited', Held(g) \cup HeldBy(Tail(stack)), Len(heap'), last, {})
    BY <1>3, <1>4, <1>6
  <1>8. DoneKept(pass, visited, visited') BY DEF DoneKept
  <1>9. Held(g) \cap HeldBy(Tail(stack)) = {} BY <1>1, <1>2 DEF Atop
  <1>10. FrameFits(pass, g, prune_flag', visited', heap', DOMAIN last) OBVIOUS
  <1> QED BY <1>7, <1>8, <1>9, <1>10, SwapStep, Zenon

\* It fits as the activation in preorder did.
LEMMA PreorderFits ==
  ASSUME IInv, stack # << >>, top.phase = "preorder",
         NEW hp, Grown(heap, hp), NEW fl \in BOOLEAN,
         NEW g, LeftByPreorder(g, hp, fl)
  PROVE  FrameFits(pass, g, fl, visited, hp, DOMAIN last)
  <1>1. /\ top \in Frames /\ FrameOK(top, Len(heap)) /\ heap \in Seq(AnyContent)
        /\ FrameFits(pass, top, prune_flag, visited, heap, DOMAIN last)
        /\ Len(heap) \in Nat /\ Len(hp) \in Nat /\ Len(heap) <= Len(hp)
    BY TopFits DEF IInv, VisitOK, Shape, Grown
  <1>2. ~top.extra /\ top.pre = Self /\ top.idx = 1 /\ top.n \in 1..Len(heap)
    BY <1>1 DEF FrameOK
  <1>3. /\ g \in Frames /\ g.n = top.n /\ g.save = top.save /\ ~g.extra
        /\ g.copy.kids = top.copy.kids /\ g.phase # "transformed" /\ g.phase # "kids"
        /\ g.phase # "preorder" /\ (g.phase = "visit_kid" => fl)
    BY DEF LeftByPreorder
  <1>4. Closed(top.copy, Len(hp)) /\ \A i \in DOMAIN top.copy.kids : top.copy.kids[i] \in 0..Len(hp)
    BY <1>1 DEF FrameOK, Closed
  <1>5. g.pre \in 0..Len(hp) \cup {Self}
    BY <1>1, <1>4 DEF LeftByPreorder, Null
  <1>6. DOMAIN top.copy.kids \subseteq Nat \ {0}
    <2>1. top.copy.kids \in Seq(Nat) BY <1>1 DEF Frames, AnyContent
    <2> QED BY <2>1
  <1>7. g.idx >= 1 BY <1>6 DEF LeftByPreorder
  <1>8. FrameOK(g, Len(hp))
    <2>1. Closed(g.copy, Len(hp)) BY <1>3, <1>4 DEF Closed
    <2>2. g.phase \notin {"returned", "transformed"} => g.pre = Self
      BY <1>3 DEF LeftByPreorder
    <2>3. g.phase \in {"visit_kid", "transform_child"} => g.idx \in DOMAIN g.copy.kids
      BY <1>3 DEF LeftByPreorder
    <2> QED BY <1>1, <1>2, <1>3, <1>5, <1>7, <2>1, <2>2, <2>3 DEF FrameOK
  <1>9. ASSUME NoOther(pass), Walks(g, fl) PROVE KidsOK(pass, g, DOMAIN last)
    <2>1. KidsOK(pass, top, DOMAIN last) BY <1>1, <1>9 DEF FrameFits, Walks
    <2>2. g.phase = "returned" /\ g.idx = 1 BY <1>3, <1>9 DEF Walks, LeftByPreorder
    <2>3. object(g) = object(top) /\ Reached(g) = Reached(top)
      BY <1>2, <1>3, <2>2 DEF object, Reached
    <2> QED BY <1>3, <2>1, <2>2, <2>3 DEF KidsOK
  <1>10. ASSUME Once(pass) PROVE OnceOK(g, visited, hp)
    <2>1. hp[g.n] = heap[g.n] BY <1>2, <1>3 DEF Grown
    <2>2. \A j \in DOMAIN top.copy.kids :
            \/ j \in DOMAIN heap[top.n].kids /\ top.copy.kids[j] = heap[top.n].kids[j]
            \/ IsDone(visited, top.copy.kids[j])
      BY <1>1, <1>10 DEF FrameFits, OnceOK
    <2>3. ASSUME g.pre > Null
          PROVE  \/ hp[g.pre].label = 1
                 \/ \E j \in DOMAIN hp[g.n].kids : hp[g.n].kids[j] = g.pre
                 \/ IsDone(visited, g.pre)
      <3>1. \/ hp[g.pre].label = 1
            \/ \E i \in DOMAIN top.copy.kids : g.pre = top.copy.kids[i]
        BY <2>3 DEF LeftByPreorder, Null, Self
      <3> QED BY <1>3, <2>1, <2>2, <3>1
    <2>4. \A j \in DOMAIN g.copy.kids :
            \/ j \in DOMAIN hp[g.n].kids /\ g.copy.kids[j] = hp[g.n].kids[j]
            \/ IsDone(visited, g.copy.kids[j])
      BY <1>3, <2>1, <2>2
    <2> QED BY <1>3, <2>3, <2>4 DEF OnceOK
  <1>11. g.phase = "returned" => g.idx = 1 BY DEF LeftByPreorder
  <1> QED BY <1>3, <1>8, <1>9, <1>10, <1>11 DEF FrameFits

\* preorder.
LEMMA PreorderStep ==
  ASSUME IInv, Preorder, pass' = pass
  PROVE  /\ VisitOK' /\ did'.post = did.post /\ last' = last
         /\ \E g, op : PreorderLeaves(g, op)
  <1>1. /\ stack # << >> /\ top.phase = "preorder"
        /\ UNCHANGED <<visited, returned, bug, last>>
    BY DEF Preorder, Running
  <1>2. /\ top \in Frames /\ FrameOK(top, Len(heap)) /\ heap \in Seq(AnyContent)
        /\ Len(heap) \in Nat /\ pass \in Passes /\ HeapOK(pass, heap)
        /\ prune_flag \in BOOLEAN /\ bug \in BOOLEAN /\ edits \in 0..pass.max_edits
        /\ DOMAIN did = {"pre", "post", "cut"}
    BY <1>1, TopFits DEF IInv, VisitOK, Shape
  <1>3. ~top.extra /\ top.pre = Self /\ top.idx = 1 /\ Closed(top.copy, Len(heap))
    BY <1>1, <1>2 DEF FrameOK
  <1>4. /\ top.copy \in AnyContent /\ top.copy.kids \in Seq(Nat) /\ top.n \in Nat
        /\ DOMAIN top.copy.kids = 1..Len(top.copy.kids)
    BY <1>2 DEF Frames, AnyContent
  <1>5. \A i \in DOMAIN top.copy.kids : top.copy.kids[i] \in Int /\ i \in Nat BY <1>4
  <1>6. PICK op \in pass.pre :
       /\ Edit(op)
       /\ \/ /\ op \in {"keep", "edit"}
             /\ PreorderReturns([top EXCEPT !.phase = "returned",
                                  !.copy.label = IF op = "edit" THEN 1 ELSE @], op, 0)
             /\ UNCHANGED <<heap, prune_flag>>
          \/ /\ op = "prune"
             /\ prune_flag' = TRUE
             /\ PreorderReturns([top EXCEPT !.phase = "returned"], op, 0)
             /\ UNCHANGED heap
          \/ /\ op = "null"
             /\ PreorderReturns([top EXCEPT !.phase = "returned", !.pre = Null], op, 0)
             /\ UNCHANGED <<heap, prune_flag>>
          \/ /\ op = "fresh"
             /\ heap' = Append(heap, [top.copy EXCEPT !.label = 1])
             /\ PreorderReturns([top EXCEPT !.phase = "returned", !.pre = Len(heap) + 1],
                                op, Len(heap) + 1)
             /\ UNCHANGED prune_flag
          \/ /\ op = "kid"
             /\ \E i \in DOMAIN top.copy.kids :
                  PreorderReturns([top EXCEPT !.phase = "returned",
                                              !.pre = top.copy.kids[i]], op, i)
             /\ UNCHANGED <<heap, prune_flag>>
          \/ /\ op \in {"visit_kid", "transform_child"}
             /\ prune_flag' = (op = "visit_kid")
             /\ \E i \in DOMAIN top.copy.kids :
                  PreorderReturns([top EXCEPT !.phase = op, !.idx = i], op, i)
             /\ UNCHANGED heap
    BY DEF Preorder
  <1>7. edits' \in 0..pass.max_edits
    <2>1. pass.max_edits \in Nat BY <1>2, TransformAssumption
    <2>2. Edit(op) BY <1>6
    <2> QED BY <1>2, <2>1, <2>2 DEF Edit
  <1>8. DOMAIN did' = {"pre", "post", "cut"} /\ did'.post = did.post
    <2>1. \E a, b : DidPre(a, b) BY <1>6 DEF PreorderReturns
    <2> QED BY <1>2, <2>1 DEF DidPre
  <1>20. \E arg : DidPre(op, arg) BY <1>6 DEF PreorderReturns
  <1> DEFINE Left(g) == /\ LeftByPreorder(g, heap', prune_flag')
                        /\ op \in {"keep", "prune"} =>
                             g.phase = "returned" /\ g.pre = Self /\ g.copy = top.copy
                        /\ op # "kid" => g.pre \in {Self, Null, Len(heap) + 1}
  <1> SUFFICES VisitOK' /\ \E g : PreorderLeaves(g, op) BY <1>1, <1>8
  <1>9. prune_flag' \in BOOLEAN BY <1>2, <1>6
  <1>10. PICK fl : fl = prune_flag' OBVIOUS
  <1>11. ASSUME NEW g, stack' = <<g>> \o Tail(stack), Within, Left(g)
         PROVE  VisitOK' /\ \E h : PreorderLeaves(h, op)
    <2>1. PICK hp : hp = heap' OBVIOUS
    <2>2. Grown(heap, hp) /\ LeftByPreorder(g, hp, fl) /\ fl \in BOOLEAN
      BY <1>9, <1>10, <1>11, <2>1 DEF Within
    <2>3. FrameFits(pass, g, fl, visited, hp, DOMAIN last)
      BY <1>1, <2>2, PreorderFits, Zenon
    <2>4. FrameFits(pass, g, prune_flag', visited, heap', DOMAIN last)
      BY <1>10, <2>1, <2>3
    <2>5. g \in Frames /\ g.n = top.n /\ g.save = top.save /\ ~g.extra
      BY <2>2 DEF LeftByPreorder
    <2>6. VisitOK' BY <1>1, <1>3, <1>11, <2>4, <2>5, SameNodeStep, Zenon
    <2>7. PreorderLeaves(g, op)
      BY <1>1, <1>11, <1>20 DEF PreorderLeaves, Pushed, Within
    <2> QED BY <2>6, <2>7
  <1>12. heap' = heap => Within BY <1>1, <1>2, <1>7, <1>8, <1>9, WithinIs
  <1>13. CASE /\ op \in {"keep", "edit"}
              /\ PreorderReturns([top EXCEPT !.phase = "returned",
                                   !.copy.label = IF op = "edit" THEN 1 ELSE @], op, 0)
              /\ UNCHANGED <<heap, prune_flag>>
    <2>1. PICK co : co = [top.copy EXCEPT !.label = IF op = "edit" THEN 1 ELSE @]
      OBVIOUS
    <2>2. co \in AnyContent /\ co.kids = top.copy.kids BY <1>4, <2>1 DEF AnyContent
    <2>3. PICK g : g = [top EXCEPT !.phase = "returned", !.copy = co] OBVIOUS
    <2>4. stack' = <<g>> \o Tail(stack)
      BY <1>2, <1>13, <2>1, <2>3 DEF PreorderReturns, Frames
    <2>5. /\ g \in Frames /\ g.n = top.n /\ g.save = top.save /\ g.extra = top.extra
          /\ g.copy = co /\ g.phase = "returned" /\ g.idx = top.idx /\ g.pre = top.pre
      BY <1>2, <2>2, <2>3 DEF Frames, Phases
    <2>6. Left(g)
      <3>1. op = "keep" => co = top.copy BY <1>4, <2>1 DEF AnyContent
      <3> QED BY <1>3, <1>13, <2>2, <2>5, <3>1 DEF LeftByPreorder
    <2> QED BY <1>11, <1>12, <1>13, <2>4, <2>6
  <1>14. CASE /\ op = "prune"
              /\ prune_flag' = TRUE
              /\ PreorderReturns([top EXCEPT !.phase = "returned"], op, 0)
              /\ UNCHANGED heap
    <2>1. PICK g : g = [top EXCEPT !.phase = "returned"] OBVIOUS
    <2>2. stack' = <<g>> \o Tail(stack) BY <1>14, <2>1 DEF PreorderReturns
    <2>3. /\ g \in Frames /\ g.n = top.n /\ g.save = top.save /\ g.extra = top.extra
          /\ g.copy = top.copy /\ g.phase = "returned" /\ g.idx = top.idx
          /\ g.pre = top.pre
      BY <1>2, <2>1 DEF Frames, Phases
    <2>4. Left(g) BY <1>3, <1>14, <2>3 DEF LeftByPreorder
    <2> QED BY <1>11, <1>12, <1>14, <2>2, <2>4
  <1>15. ASSUME NEW pre \in Int, op \notin {"keep", "prune"},
                op # "kid" => pre \in {Null, Len(heap) + 1},
                stack' = <<[top EXCEPT !.phase = "returned", !.pre = pre]>> \o Tail(stack),
                Within,
                \/ pre = Null
                \/ pre = Len(heap) + 1 /\ pre <= Len(heap') /\ heap'[pre].label = 1
                \/ \E i \in DOMAIN top.copy.kids : pre = top.copy.kids[i]
         PROVE  VisitOK' /\ \E g : PreorderLeaves(g, op)
    <2>1. PICK g : g = [top EXCEPT !.phase = "returned", !.pre = pre] OBVIOUS
    <2>2. stack' = <<g>> \o Tail(stack) BY <1>15, <2>1
    <2>3. /\ g \in Frames /\ g.n = top.n /\ g.save = top.save /\ g.extra = top.extra
          /\ g.copy = top.copy /\ g.phase = "returned" /\ g.idx = top.idx
          /\ g.pre = pre
      BY <1>2, <2>1 DEF Frames, Phases
    <2>4. Left(g) BY <1>3, <1>15, <2>3 DEF LeftByPreorder
    <2> QED BY <1>11, <1>15, <2>2, <2>4
  <1>16. CASE /\ op = "null"
              /\ PreorderReturns([top EXCEPT !.phase = "returned", !.pre = Null], op, 0)
              /\ UNCHANGED <<heap, prune_flag>>
    <2>1. Null \in Int BY DEF Null
    <2>2. stack' = <<[top EXCEPT !.phase = "returned", !.pre = Null]>> \o Tail(stack)
      BY <1>16 DEF PreorderReturns
    <2> QED BY <1>12, <1>15, <1>16, <2>1, <2>2
  <1>17. CASE /\ op = "fresh"
              /\ heap' = Append(heap, [top.copy EXCEPT !.label = 1])
              /\ PreorderReturns([top EXCEPT !.phase = "returned", !.pre = Len(heap) + 1],
                                 op, Len(heap) + 1)
              /\ UNCHANGED prune_flag
    <2>1. PICK co, hp : co = [top.copy EXCEPT !.label = 1] /\ hp = heap' OBVIOUS
    <2>2. co \in AnyContent /\ co.kids = top.copy.kids /\ co.label = 1
      BY <1>4, <2>1 DEF AnyContent
    <2>3. hp = Append(heap, co) BY <1>17, <2>1
    <2>4. /\ hp \in Seq(AnyContent) /\ Len(hp) = Len(heap) + 1 /\ hp[Len(heap) + 1] = co
          /\ \A a \in 1..Len(heap) : hp[a] = heap[a]
      BY <1>2, <2>2, <2>3
    <2>5. Closed(co, Len(heap)) BY <1>3, <2>2 DEF Closed
    <2>6. Grown(heap, hp) /\ HeapOK(pass, hp) BY <1>2, <2>2, <2>3, <2>5, HeapAppended
    <2>7. Within BY <1>1, <1>2, <1>7, <1>8, <1>9, <2>1, <2>6 DEF Within
    <2>8. PICK pre \in Int : pre = Len(heap) + 1 BY <1>2
    <2>9. pre <= Len(heap') /\ heap'[pre].label = 1
      <3>1. pre <= Len(hp) /\ hp[pre].label = 1 BY <1>2, <2>2, <2>4, <2>8
      <3> QED BY <2>1, <3>1
    <2>10. stack' = <<[top EXCEPT !.phase = "returned", !.pre = pre]>> \o Tail(stack)
      BY <1>17, <2>8 DEF PreorderReturns
    <2> QED BY <1>15, <1>17, <2>7, <2>8, <2>9, <2>10
  <1>18. CASE /\ op = "kid"
              /\ \E i \in DOMAIN top.copy.kids :
                   PreorderReturns([top EXCEPT !.phase = "returned",
                                               !.pre = top.copy.kids[i]], op, i)
              /\ UNCHANGED <<heap, prune_flag>>
    <2>1. PICK i \in DOMAIN top.copy.kids :
             stack' = <<[top EXCEPT !.phase = "returned", !.pre = top.copy.kids[i]]>>
                        \o Tail(stack)
      BY <1>18 DEF PreorderReturns
    <2>2. PICK pre \in Int : pre = top.copy.kids[i] BY <1>5
    <2> QED BY <1>12, <1>15, <1>18, <2>1, <2>2
  <1>19. CASE /\ op \in {"visit_kid", "transform_child"}
              /\ prune_flag' = (op = "visit_kid")
              /\ \E i \in DOMAIN top.copy.kids :
                   PreorderReturns([top EXCEPT !.phase = op, !.idx = i], op, i)
              /\ UNCHANGED heap
    <2>1. PICK i \in DOMAIN top.copy.kids :
             stack' = <<[top EXCEPT !.phase = op, !.idx = i]>> \o Tail(stack)
      BY <1>19 DEF PreorderReturns
    <2>2. PICK g : g = [top EXCEPT !.phase = op, !.idx = i] OBVIOUS
    <2>3. /\ g \in Frames /\ g.n = top.n /\ g.save = top.save /\ g.extra = top.extra
          /\ g.copy = top.copy /\ g.phase = op /\ g.idx = i /\ g.pre = top.pre
      <3>1. op \in Phases /\ i \in Nat BY <1>5, <1>19 DEF Phases
      <3> QED BY <1>2, <2>2, <3>1 DEF Frames
    <2>4. Left(g) BY <1>3, <1>19, <2>3 DEF LeftByPreorder
    <2> QED BY <1>11, <1>12, <1>19, <2>1, <2>2, <2>4
  <1> QED BY <1>6, <1>13, <1>14, <1>16, <1>17, <1>18, <1>19

\* The innermost activation as a visit that ends: what it holds, and the rest.
TopEnding ==
  /\ top \in Frames /\ top.extra \in BOOLEAN
  /\ top.n \notin HeldBy(Tail(stack))
  /\ top.extra =>
       top.pre \in 1..Len(heap) /\ top.pre # top.n /\ top.pre \notin HeldBy(Tail(stack))
  /\ TrackerFits(pass, visited, Held(top) \cup HeldBy(Tail(stack)), Len(heap), last, {})
  /\ DoneKept(pass, visited, visited)

\* The tracker as it is.
LEMMA TopEnds ==
  ASSUME IInv, stack # << >>
  PROVE  TopEnding
  <1>1. /\ top \in Frames /\ FrameOK(top, Len(heap)) /\ Atop(top, Tail(stack))
        /\ HeldBy(stack) = Held(top) \cup HeldBy(Tail(stack))
        /\ TrackerFits(pass, visited, HeldBy(stack), Len(heap), last, {})
    BY TopFits
  <1>2. top.extra \in BOOLEAN BY <1>1 DEF Frames
  <1>3. DoneKept(pass, visited, visited) BY DEF DoneKept
  <1>4. top.n \notin HeldBy(Tail(stack)) BY <1>1 DEF Atop, Held
  <1>5. top.extra => /\ top.pre \in 1..Len(heap) /\ top.pre # top.n
                     /\ top.pre \notin HeldBy(Tail(stack))
    BY <1>1 DEF Atop, Held, FrameOK
  <1>6. TrackerFits(pass, visited, Held(top) \cup HeldBy(Tail(stack)), Len(heap), last, {})
    BY <1>1
  <1> QED BY <1>1, <1>2, <1>3, <1>4, <1>5, <1>6 DEF TopEnding

\* The clone is the final node.
LEMMA CloneEnds ==
  ASSUME IInv, stack # << >>, NEW c \in AnyContent, c.kids = top.copy.kids
  PROVE  Ending(top, visited, Len(heap) + 1, Append(heap, c))
  <1>1. TopEnding BY TopEnds
  <1>2. /\ pass \in Passes /\ heap \in Seq(AnyContent) /\ HeapOK(pass, heap)
        /\ Len(heap) \in Nat /\ FrameOK(top, Len(heap))
    BY TopFits DEF IInv, VisitOK, Shape
  <1>3. Closed(c, Len(heap)) BY <1>2 DEF FrameOK, Closed
  <1>4. PICK final, hp : final = Len(heap) + 1 /\ hp = Append(heap, c) OBVIOUS
  <1>5. hp # heap
    <2>1. Len(hp) = Len(heap) + 1 BY <1>2, <1>4
    <2> QED BY <1>2, <2>1
  <1>6. \A D : Seen(pass, final, D)
    <2>1. DOMAIN pass.kids = 1..Len(pass.kids) /\ Len(pass.kids) \in Nat
      BY <1>2, KidsTyped
    <2>2. Len(pass.kids) <= Len(heap) BY <1>2 DEF HeapOK
    <2> QED BY <1>2, <1>4, <2>1, <2>2 DEF Seen
  <1>7. final \notin DOMAIN visited
    <2>1. DOMAIN visited \subseteq 1..Len(heap)
      BY <1>1 DEF TopEnding, TrackerFits, VisTyped
    <2> QED BY <1>2, <1>4, <2>1
  <1>8. Ending(top, visited, final, hp)
    BY <1>1, <1>3, <1>4, <1>5, <1>6, <1>7 DEF Ending, TopEnding
  <1> QED BY <1>4, <1>8

\* What may be the final node if it is not the clone.
Replacing(final) ==
  /\ final \in 0..Len(heap)
  /\ NoOther(pass) => Seen(pass, final, DOMAIN last)
  /\ Once(pass) =>
       \/ final = Null
       \/ IsDone(visited, final)
       \/ /\ final \notin DOMAIN visited
          /\ top.extra => heap[final] # heap[top.n] \/ heap[final] # heap[top.pre]

\* Another node is the final node.
LEMMA OtherEnds ==
  ASSUME IInv, stack # << >>, NEW final, Replacing(final)
  PROVE  Ending(top, visited, final, heap)
  <1>1. TopEnding BY TopEnds
  <1>2. NoOther(pass) => Seen(pass, final, DOMAIN last \cup Held(top))
    BY DEF Replacing, Seen
  <1>3. Null \notin DOMAIN visited
    BY <1>1 DEF TopEnding, TrackerFits, VisTyped, Null
  <1>4. Once(pass) /\ final \in DOMAIN visited => IsDone(visited, final)
    BY <1>3 DEF Replacing
  <1>5. Once(pass) /\ top.extra /\ final \notin DOMAIN visited \cup {Null} =>
          heap[final] # heap[top.n] \/ heap[final] # heap[top.pre]
    BY DEF Replacing, IsDone
  <1>6. final \in 0..Len(heap) BY DEF Replacing
  <1> QED BY <1>1, <1>2, <1>4, <1>5, <1>6 DEF Ending, TopEnding

\* No node is taken for one of the IR.
LEMMA NullReplaces ==
  ASSUME IInv
  PROVE  Replacing(Null)
  <1>1. pass \in Passes /\ Len(heap) \in Nat BY DEF IInv, VisitOK, Shape
  <1>2. DOMAIN pass.kids = 1..Len(pass.kids) BY <1>1, KidsTyped
  <1> QED BY <1>1, <1>2 DEF Replacing, Seen, Null

\* PostOK is about nodes whose postorder has run.
LEMMA PostKept ==
  ASSUME IInv, pass' = pass, did'.post = did.post, DOMAIN last \subseteq DOMAIN last'
  PROVE  PostOK'
  BY DEF IInv, PostOK, Orig, Kids

\* A node that preorder returned, and that is neither done nor being visited.
LEMMA ExtraStarts ==
  ASSUME IInv, stack # << >>, top.phase \in {"returned", "transformed"},
         top.pre > Null, Status(top.pre) \in {"New", "Revisit"},
         NEW v, v = try_start(visited, top.pre, visited[top.n].once)
  PROVE  /\ top.pre \in 1..Len(heap) /\ top.pre # top.n /\ ~top.extra
         /\ top.pre \notin HeldBy(Tail(stack))
         /\ TrackerFits(pass, v, {top.n, top.pre} \cup HeldBy(Tail(stack)),
                        Len(heap), last, {})
         /\ DoneKept(pass, visited, v)
         /\ top.pre \in DOMAIN v
         /\ Once(pass) => top.pre \notin DOMAIN visited
  <1>1. TopEnding BY TopEnds
  <1>2. /\ pass \in Passes /\ Len(heap) \in Nat /\ FrameOK(top, Len(heap))
        /\ top \in Frames
    BY TopFits DEF IInv, VisitOK, Shape
  <1>3. PICK n, h, once, S : /\ n = top.pre /\ h = Len(heap) /\ once = visited[top.n].once
                             /\ S = Held(top) \cup HeldBy(Tail(stack))
    OBVIOUS
  <1>4. ~top.extra /\ n \in 1..h
    BY <1>2, <1>3 DEF FrameOK, Null, Self
  <1>5. Held(top) = {top.n} BY <1>4 DEF Held
  <1>6. TrackerFits(pass, visited, S, h, last, {}) BY <1>1, <1>3 DEF TopEnding
  <1>7. n \notin S /\ (Once(pass) => n \notin DOMAIN visited)
    BY <1>2, <1>3, <1>4, <1>6, BeginIs
  <1>8. top.n \in DOMAIN visited BY <1>3, <1>5, <1>6 DEF TrackerFits, BusyAre
  <1>9. once \in BOOLEAN BY <1>3, <1>6, <1>8 DEF TrackerFits, VisTyped
  <1>10. Uniform(pass) => once = pass.visitDagOnce
    BY <1>3, <1>6, <1>8 DEF TrackerFits, Plainly
  <1>11. h \in Nat /\ v = try_start(visited, n, once) BY <1>2, <1>3
  <1>12. /\ TrackerFits(pass, v, S \cup {n}, h, last, {})
         /\ DoneKept(pass, visited, v)
         /\ DOMAIN v = DOMAIN visited \cup {n}
    <2>1. MayStart(pass, visited, S, h, n, once)
      BY <1>4, <1>7, <1>9, <1>10 DEF MayStart
    <2>2. AfterStart(pass, visited, v, S, h, last, n)
      BY <1>6, <1>11, <2>1, TrackerStart, Zenon
    <2> QED BY <2>2 DEF AfterStart
  <1>13. S \cup {n} = {top.n, top.pre} \cup HeldBy(Tail(stack)) BY <1>3, <1>5
  <1>14. TrackerFits(pass, v, {top.n, top.pre} \cup HeldBy(Tail(stack)), Len(heap), last, {})
    BY <1>3, <1>12, <1>13
  <1>15. /\ top.pre \in 1..Len(heap) /\ top.pre # top.n /\ ~top.extra
         /\ top.pre \notin HeldBy(Tail(stack))
    BY <1>3, <1>4, <1>5, <1>7
  <1>16. top.pre \in DOMAIN v /\ (Once(pass) => top.pre \notin DOMAIN visited)
    BY <1>3, <1>7, <1>12
  <1> QED BY <1>12, <1>14, <1>15, <1>16

\* apply_visitor takes the node that preorder returned for its clone.
LEMMA ExtraFits ==
  ASSUME IInv, stack # << >>, top.phase = "returned", ~prune_flag,
         top.pre \in 1..Len(heap), top.pre # top.n, ~top.extra,
         NEW v, DoneKept(pass, visited, v), Once(pass) => top.pre \notin DOMAIN visited,
         NEW g, g = [top EXCEPT !.extra = TRUE, !.copy = heap[top.pre], !.phase = "kids"]
  PROVE  /\ g \in Frames /\ g.n = top.n /\ g.save = top.save
         /\ Held(g) = {top.n, top.pre}
         /\ FrameFits(pass, g, prune_flag, v, heap, DOMAIN last)
  <1>1. /\ heap \in Seq(AnyContent) /\ HeapOK(pass, heap) /\ Len(heap) \in Nat
        /\ top \in Frames /\ FrameOK(top, Len(heap)) /\ pass \in Passes
        /\ FrameFits(pass, top, prune_flag, visited, heap, DOMAIN last)
    BY TopFits DEF IInv, VisitOK, Shape
  <1>2. PICK co, m : co = heap[top.pre] /\ m = top.pre OBVIOUS
  <1>3. co \in AnyContent /\ DOMAIN heap = 1..Len(heap) BY <1>1, <1>2
  <1>4. /\ g \in Frames /\ g.n = top.n /\ g.save = top.save /\ g.extra
        /\ g.copy = co /\ g.phase = "kids" /\ g.idx = top.idx /\ g.pre = m
    BY <1>1, <1>2, <1>3 DEF Frames, Phases
  <1>5. g.idx = 1 BY <1>1, <1>4 DEF FrameFits
  <1>6. FrameOK(g, Len(heap))
    <2>1. Closed(co, Len(heap)) BY <1>1, <1>2, <1>3 DEF HeapOK
    <2>2. top.n \in 1..Len(heap) BY <1>1 DEF FrameOK
    <2> QED BY <1>2, <1>4, <1>5, <2>1, <2>2 DEF FrameOK
  <1>7. co.kids \in Seq(Nat) /\ \A j \in DOMAIN co.kids : j \in Nat /\ j >= 1
    <2>1. co.kids \in Seq(Nat) BY <1>3 DEF AnyContent
    <2> QED BY <2>1
  <1>8. KidsOK(pass, g, DOMAIN last)
    <2>1. object(g) = m /\ Reached(g) = 1 BY <1>4, <1>5 DEF object, Reached
    <2>2. m \in DOMAIN pass.kids => co.kids = pass.kids[m] BY <1>1, <1>2 DEF HeapOK
    <2> QED BY <1>4, <1>5, <1>7, <2>1, <2>2 DEF KidsOK
  <1>9. ASSUME Once(pass) PROVE OnceOK(g, v, heap)
    <2>1. \/ heap[m].label = 1
          \/ \E j \in DOMAIN heap[top.n].kids : heap[top.n].kids[j] = m
      <3>1. OnceOK(top, visited, heap) BY <1>1, <1>9 DEF FrameFits
      <3>2. m > Null /\ ~IsDone(visited, m) BY <1>2, <1>9 DEF Null, IsDone
      <3> QED BY <1>2, <3>1, <3>2 DEF OnceOK
    <2>2. \A j \in DOMAIN co.kids : ~ (j < 1) BY <1>7
    <2> QED BY <1>2, <1>4, <1>5, <2>1, <2>2 DEF OnceOK
  <1>10. FrameFits(pass, g, prune_flag, v, heap, DOMAIN last)
    BY <1>4, <1>6, <1>8, <1>9 DEF FrameFits
  <1>11. Held(g) = {top.n, top.pre} BY <1>2, <1>4 DEF Held
  <1> QED BY <1>4, <1>10, <1>11

\* apply_visitor goes on after preorder.
LEMMA ReturnedStep ==
  ASSUME IInv, PreorderReturned, pass' = pass
  PROVE  /\ VisitOK' /\ did'.post = did.post /\ DOMAIN last \subseteq DOMAIN last'
         /\ \/ Idles \/ (\E g : AtKids(g))
            \/ \E f, vis, final, hp : Ends(f, vis, final, hp)
  <1>1. stack # << >> /\ top.phase \in {"returned", "transformed"} /\ UNCHANGED edits
    BY DEF PreorderReturned, Running
  <1>2. /\ pass \in Passes /\ heap \in Seq(AnyContent) /\ Len(heap) \in Nat
        /\ top \in Frames /\ FrameOK(top, Len(heap))
        /\ FrameFits(pass, top, prune_flag, visited, heap, DOMAIN last)
        /\ prune_flag \in BOOLEAN /\ bug \in BOOLEAN /\ edits \in 0..pass.max_edits
        /\ DOMAIN did = {"pre", "post", "cut"} /\ VisitOK
        /\ HeldBy(stack) = Held(top) \cup HeldBy(Tail(stack)) /\ Atop(top, Tail(stack))
        /\ TrackerFits(pass, visited, HeldBy(stack), Len(heap), last, {})
    BY <1>1, TopFits DEF IInv, VisitOK, Shape
  <1>3. ~top.extra /\ top.copy \in AnyContent BY <1>1, <1>2 DEF FrameOK, Frames
  <1>4. ASSUME NEW f, NEW vis, NEW final, NEW hp,
               Ending(f, vis, final, hp), EndVisit(f, vis, final, hp),
               Prunes(f, vis, final, hp) \/ Replaces(f, vis, final, hp),
               UNCHANGED bug, did'.post = did.post, DOMAIN did' = {"pre", "post", "cut"}
        PROVE  /\ VisitOK' /\ did'.post = did.post /\ DOMAIN last \subseteq DOMAIN last'
               /\ Ends(f, vis, final, hp)
    <2>1. VisitOK' /\ DOMAIN last' = DOMAIN last \cup Held(f)
      BY <1>1, <1>2, <1>4, EndVisitStep
    <2>2. Ends(f, vis, final, hp) BY <1>1, <1>4 DEF Ends
    <2> QED BY <1>4, <2>1, <2>2
  <1>5. ASSUME NEW S, did' = [did EXCEPT !.cut = @ \cup S]
        PROVE  did'.post = did.post /\ DOMAIN did' = {"pre", "post", "cut"}
    BY <1>2, <1>5
  <1>6. CASE /\ top.pre = Self /\ ~ (prune_flag \/ top.phase = "transformed")
             /\ stack' = <<[top EXCEPT !.phase = "kids"]>> \o Tail(stack)
             /\ UNCHANGED <<heap, visited, prune_flag, returned, bug, did, last>>
    <2>1. PICK g : g = [top EXCEPT !.phase = "kids"] OBVIOUS
    <2>2. /\ g \in Frames /\ g.n = top.n /\ g.save = top.save /\ g.extra = top.extra
          /\ g.copy = top.copy /\ g.phase = "kids" /\ g.idx = top.idx
          /\ g.pre = top.pre
      BY <1>2, <2>1 DEF Frames, Phases
    <2>3. top.phase = "returned" /\ top.idx = 1 BY <1>1, <1>2, <1>6 DEF FrameFits
    <2>4. FrameOK(g, Len(heap)) BY <1>2, <1>3, <1>6, <2>2 DEF FrameOK
    <2>5. ASSUME NoOther(pass) PROVE KidsOK(pass, g, DOMAIN last)
      <3>1. KidsOK(pass, top, DOMAIN last)
        BY <1>2, <1>6, <2>3, <2>5 DEF FrameFits, Walks
      <3>2. object(g) = object(top) /\ Reached(g) = Reached(top)
        BY <2>2, <2>3 DEF object, Reached
      <3> QED BY <2>2, <3>1, <3>2 DEF KidsOK
    <2>6. OnceOK(g, visited, heap)
      <3>1. \A j \in DOMAIN top.copy.kids : ~ (j < 1)
        <4>1. top.copy.kids \in Seq(Nat) BY <1>3 DEF AnyContent
        <4> QED BY <4>1
      <3> QED BY <1>3, <1>6, <2>2, <2>3, <3>1 DEF OnceOK, Null, Self
    <2>7. FrameFits(pass, g, prune_flag, visited, heap, DOMAIN last)
      BY <2>2, <2>4, <2>5, <2>6 DEF FrameFits
    <2>8. Within BY <1>1, <1>2, <1>6, WithinIs
    <2>9. FrameFits(pass, g, prune_flag', visited, heap', DOMAIN last) BY <1>6, <2>7
    <2>10. stack' = <<g>> \o Tail(stack) /\ visited' = visited /\ ~g.extra
      BY <1>3, <1>6, <2>1, <2>2
    <2>11. VisitOK' BY <1>1, <1>3, <2>2, <2>8, <2>9, <2>10, SameNodeStep
    <2>12. AtKids(g)
      BY <1>1, <1>6, <2>2, <2>3, <2>10 DEF AtKids, Pushed
    <2> QED BY <1>6, <2>11, <2>12
  <1>7. CASE /\ top.pre = Self
             /\ Pruned(top, visited, Len(heap) + 1, Append(heap, top.copy))
             /\ UNCHANGED bug
    <2>1. Ending(top, visited, Len(heap) + 1, Append(heap, top.copy))
      BY <1>1, <1>3, CloneEnds
    <2>2. did'.post = did.post /\ DOMAIN did' = {"pre", "post", "cut"}
      BY <1>5, <1>7 DEF Pruned
    <2>3. EndVisit(top, visited, Len(heap) + 1, Append(heap, top.copy)) /\ UNCHANGED bug
      BY <1>7 DEF Pruned
    <2>4. Prunes(top, visited, Len(heap) + 1, Append(heap, top.copy))
      BY <1>3, <1>7 DEF Pruned, Prunes
    <2> QED BY <1>4, <2>1, <2>2, <2>3, <2>4, Zenon
  <1>8. CASE top.pre = Null /\ EndVisit(top, visited, Null, heap) /\ UNCHANGED <<bug, did>>
    <2>1. Ending(top, visited, Null, heap) BY <1>1, OtherEnds, NullReplaces
    <2>2. Replaces(top, visited, Null, heap) BY <1>3, <1>8 DEF Replaces
    <2> QED BY <1>2, <1>4, <1>8, <2>1, <2>2
  <1>9. CASE /\ top.pre > Null /\ Status(top.pre) = "Done"
             /\ EndVisit(top, visited, visited[top.pre].result, heap)
             /\ UNCHANGED <<bug, did>>
    <2>1. PICK r : r = visited[top.pre].result OBVIOUS
    <2>2. DoneNode(top.pre) BY <1>2, <1>9, DoneIs
    <2>3. Replacing(r) BY <2>1, <2>2 DEF Replacing, DoneNode
    <2>4. Ending(top, visited, r, heap) BY <1>1, <2>3, OtherEnds
    <2>5. EndVisit(top, visited, r, heap) BY <1>9, <2>1
    <2>6. Replaces(top, visited, r, heap) BY <1>3, <1>9, <2>1 DEF Replaces
    <2> QED BY <1>2, <1>4, <1>9, <2>4, <2>5, <2>6
  <1>10. CASE /\ bug' = TRUE
              /\ UNCHANGED <<heap, visited, stack, prune_flag, returned, did, last>>
    <2>1. Shape' BY <1>1, <1>2, <1>10 DEF VisitOK, Shape, Address
    <2>2. VisitOK' BY <1>2, <1>10, <2>1 DEF VisitOK
    <2>3. Idles BY <1>10 DEF Idles
    <2> QED BY <1>10, <2>2, <2>3
  <1>11. CASE /\ top.pre > Null /\ Status(top.pre) \in {"New", "Revisit"}
              /\ Pruned([top EXCEPT !.extra = TRUE],
                        try_start(visited, top.pre, visited[top.n].once), top.pre, heap)
              /\ UNCHANGED bug
    <2>1. PICK f, v : /\ f = [top EXCEPT !.extra = TRUE]
                      /\ v = try_start(visited, top.pre, visited[top.n].once)
      OBVIOUS
    <2>2. /\ f.n = top.n /\ f.save = top.save /\ f.extra /\ f.extra \in BOOLEAN
          /\ f.pre = top.pre
      BY <1>2, <2>1 DEF Frames
    <2>3. Held(f) = {top.n, top.pre} BY <2>2 DEF Held
    <2>4. /\ top.pre \in 1..Len(heap) /\ top.pre # top.n
          /\ top.pre \notin HeldBy(Tail(stack))
          /\ TrackerFits(pass, v, {top.n, top.pre} \cup HeldBy(Tail(stack)),
                         Len(heap), last, {})
          /\ DoneKept(pass, visited, v) /\ top.pre \in DOMAIN v
      BY <1>1, <1>11, <2>1, ExtraStarts
    <2>5. top.n \notin HeldBy(Tail(stack)) BY <1>2 DEF Atop, Held
    <2>6. Seen(pass, top.pre, DOMAIN last \cup Held(f)) BY <2>3 DEF Seen
    <2>7. TrackerFits(pass, v, Held(f) \cup HeldBy(Tail(stack)), Len(heap), last, {})
      BY <2>3, <2>4
    <2>8. top.pre \in 0..Len(heap) BY <1>2, <2>4
    <2>9. Ending(f, v, top.pre, heap)
      BY <2>2, <2>4, <2>5, <2>6, <2>7, <2>8 DEF Ending
    <2>10. /\ EndVisit(f, v, top.pre, heap)
           /\ did'.post = did.post /\ DOMAIN did' = {"pre", "post", "cut"}
      BY <1>5, <1>11, <2>1 DEF Pruned
    <2>11. Prunes(f, v, top.pre, heap) BY <1>11, <2>1 DEF Pruned, Prunes
    <2> QED BY <1>4, <1>11, <2>9, <2>10, <2>11
  <1>12. CASE /\ top.pre > Null /\ Status(top.pre) \in {"New", "Revisit"}
              /\ ~ (prune_flag \/ top.phase = "transformed")
              /\ visited' = try_start(visited, top.pre, visited[top.n].once)
              /\ stack' = <<[top EXCEPT !.extra = TRUE, !.copy = heap[top.pre],
                                        !.phase = "kids"]>> \o Tail(stack)
              /\ UNCHANGED <<heap, prune_flag, returned, bug, did, last>>
    <2>1. PICK g, v : /\ g = [top EXCEPT !.extra = TRUE, !.copy = heap[top.pre],
                                         !.phase = "kids"]
                      /\ v = visited'
      OBVIOUS
    <2>2. /\ top.pre \in 1..Len(heap) /\ top.pre # top.n /\ ~top.extra
          /\ top.pre \notin HeldBy(Tail(stack))
          /\ TrackerFits(pass, v, {top.n, top.pre} \cup HeldBy(Tail(stack)),
                         Len(heap), last, {})
          /\ DoneKept(pass, visited, v)
          /\ Once(pass) => top.pre \notin DOMAIN visited
      BY <1>1, <1>12, <2>1, ExtraStarts
    <2>3. top.phase = "returned" /\ ~prune_flag BY <1>1, <1>12
    <2>4. /\ g \in Frames /\ g.n = top.n /\ g.save = top.save
          /\ Held(g) = {top.n, top.pre}
          /\ FrameFits(pass, g, prune_flag, v, heap, DOMAIN last)
      BY <1>1, <2>1, <2>2, <2>3, ExtraFits, Zenon
    <2>5. Within BY <1>1, <1>2, <1>12, WithinIs
    <2>6. top.n \notin HeldBy(Tail(stack)) BY <1>2 DEF Atop, Held
    <2>7. Held(g) \cap HeldBy(Tail(stack)) = {} BY <2>2, <2>4, <2>6
    <2>8. /\ FrameFits(pass, g, prune_flag', visited', heap', DOMAIN last)
          /\ DoneKept(pass, visited, visited')
          /\ TrackerFits(pass, visited', Held(g) \cup HeldBy(Tail(stack)),
                         Len(heap'), last, {})
      BY <1>12, <2>1, <2>2, <2>4
    <2>9. stack' = <<g>> \o Tail(stack) BY <1>12, <2>1
    <2>10. VisitOK' BY <1>1, <2>4, <2>5, <2>7, <2>8, <2>9, SwapStep, Zenon
    <2>11. AtKids(g)
      <3>1. /\ g.extra /\ g.copy = heap[top.pre] /\ g.phase = "kids" /\ g.idx = top.idx
            /\ g.pre = top.pre
        BY <1>2, <2>1 DEF Frames
      <3>2. top.idx = 1 BY <1>2, <2>2, <2>3 DEF FrameFits
      <3> QED BY <1>1, <1>12, <2>3, <2>4, <2>9, <3>1, <3>2 DEF AtKids, Pushed
    <2> QED BY <1>12, <2>10, <2>11
  <1> QED
    BY <1>6, <1>7, <1>8, <1>9, <1>10, <1>11, <1>12 DEF PreorderReturned

\* A child of the clone, when all children are visited.
LEMMA KidReplaces ==
  ASSUME IInv, stack # << >>, top.phase = "kids", top.idx > Len(top.copy.kids),
         NEW i \in DOMAIN top.copy.kids, top.copy.kids[i] # Null
  PROVE  Replacing(top.copy.kids[i])
  <1>1. /\ top \in Frames /\ FrameOK(top, Len(heap))
        /\ FrameFits(pass, top, prune_flag, visited, heap, DOMAIN last)
    BY TopFits
  <1>2. top.copy.kids[i] \in 0..Len(heap) BY <1>1 DEF FrameOK, Closed
  <1>3. i < top.idx
    <2>1. top.copy.kids \in Seq(Nat) /\ top.idx \in Nat BY <1>1 DEF Frames, AnyContent
    <2> QED BY <2>1
  <1>4. NoOther(pass) => Seen(pass, top.copy.kids[i], DOMAIN last)
    BY <1>1, <1>3 DEF FrameFits, Walks, KidsOK, Reached
  <1>5. Once(pass) => IsDone(visited, top.copy.kids[i])
    BY <1>1, <1>3 DEF FrameFits, OnceOK
  <1> QED BY <1>2, <1>4, <1>5 DEF Replacing

\* Some node of the IR that the tracker does not know: it cannot be equal both
\* to the node and to the one preorder returned, which would be its own child.
LEMMA OtherReplaces ==
  ASSUME IInv, stack # << >>, top.phase = "kids", top.idx > Len(top.copy.kids),
         "other" \in pass.post, NEW a \in Orig, a \notin DOMAIN visited
  PROVE  Replacing(a)
  <1>1. /\ top \in Frames /\ pass \in Passes /\ HeapOK(pass, heap) /\ Len(heap) \in Nat
        /\ FrameFits(pass, top, prune_flag, visited, heap, DOMAIN last)
        /\ FrameOK(top, Len(heap))
    BY TopFits DEF IInv, VisitOK, Shape
  <1>2. a \in 0..Len(heap) /\ heap[a].label = 0
    <2>1. DOMAIN pass.kids = 1..Len(pass.kids) /\ Len(pass.kids) \in Nat
      BY <1>1, KidsTyped
    <2> QED BY <1>1, <2>1 DEF Orig, Kids, HeapOK
  <1>3. ~NoOther(pass) BY DEF NoOther
  <1>4. ASSUME Once(pass), top.extra, heap[a] = heap[top.n], heap[a] = heap[top.pre]
        PROVE  FALSE
    <2>1. OnceOK(top, visited, heap) BY <1>1, <1>4 DEF FrameFits
    <2>2. top.pre > Null BY <1>1, <1>4 DEF FrameOK, Null
    <2>3. PICK j \in DOMAIN heap[top.n].kids : heap[top.n].kids[j] = top.pre
      BY <1>2, <1>4, <2>1, <2>2 DEF OnceOK
    <2>4. j \in DOMAIN heap[top.pre].kids /\ heap[top.pre].kids[j] = top.pre
      BY <1>4, <2>3
    <2>5. j \in DOMAIN top.copy.kids BY <1>4, <2>1, <2>4 DEF OnceOK
    <2>6. j < top.idx
      <3>1. top.copy.kids \in Seq(Nat) /\ top.idx \in Nat BY <1>1 DEF Frames, AnyContent
      <3> QED BY <2>5, <3>1
    <2> QED BY <1>4, <2>1, <2>4, <2>5, <2>6 DEF OnceOK
  <1> QED BY <1>2, <1>3, <1>4 DEF Replacing

\* postorder.
LEMMA PostorderStep ==
  ASSUME IInv, Postorder, pass' = pass
  PROVE  /\ VisitOK' /\ PostOK'
         /\ \E f, vis, final, hp : Ends(f, vis, final, hp)
  <1>1. /\ stack # << >> /\ top.phase = "kids" /\ top.idx > Len(top.copy.kids)
        /\ UNCHANGED bug
    BY DEF Postorder, Running
  <1>2. PICK op \in pass.post, arg \in 0..Len(heap) :
       /\ Edit(op)
       /\ did' = [did EXCEPT !.post =
                    Put(@, IF top.extra THEN top.pre ELSE top.n, <<op, arg>>)]
       /\ \/ /\ op = "keep" /\ arg = 0
             /\ EndVisit(top, visited, Len(heap) + 1, Append(heap, top.copy))
          \/ /\ op = "edit" /\ arg = 0
             /\ EndVisit(top, visited, Len(heap) + 1,
                         Append(heap, [top.copy EXCEPT !.label = 1]))
          \/ /\ op = "null" /\ arg = 0
             /\ EndVisit(top, visited, Null, heap)
          \/ /\ op = "kid" /\ arg \in DOMAIN top.copy.kids
             /\ top.copy.kids[arg] # Null
             /\ EndVisit(top, visited, top.copy.kids[arg], heap)
          \/ /\ op = "other" /\ arg \in Orig
             /\ arg \notin DOMAIN visited
             /\ EndVisit(top, visited, arg, heap)
    BY DEF Postorder
  <1>3. /\ pass \in Passes /\ top \in Frames /\ bug \in BOOLEAN
        /\ edits \in 0..pass.max_edits /\ DOMAIN did = {"pre", "post", "cut"} /\ PostOK
        /\ FrameFits(pass, top, prune_flag, visited, heap, DOMAIN last)
    BY <1>1, TopFits DEF IInv, VisitOK, Shape
  <1>4. edits' \in 0..pass.max_edits
    <2>1. pass.max_edits \in Nat BY <1>3, TransformAssumption
    <2>2. Edit(op) BY <1>2
    <2> QED BY <1>3, <2>1, <2>2 DEF Edit
  <1>5. /\ DOMAIN did' = {"pre", "post", "cut"}
        /\ DOMAIN did'.post = DOMAIN did.post \cup {object(top)}
    BY <1>2, <1>3 DEF Put, object
  <1>6. \E final, hp : /\ Ending(top, visited, final, hp)
                       /\ EndVisit(top, visited, final, hp)
                       /\ PostorderLeaves(top, visited, final, hp)
    <2>0. did' = [did EXCEPT !.post = Put(@, object(top), <<op, arg>>)]
      BY <1>2 DEF object
    <2>1. CASE /\ op = "keep"
               /\ EndVisit(top, visited, Len(heap) + 1, Append(heap, top.copy))
      <3>1. top.copy \in AnyContent BY <1>3 DEF Frames
      <3>2. Ending(top, visited, Len(heap) + 1, Append(heap, top.copy))
        BY <1>1, <3>1, CloneEnds
      <3>3. PostorderLeaves(top, visited, Len(heap) + 1, Append(heap, top.copy))
        BY <1>1, <2>0, <2>1, <3>1 DEF PostorderLeaves, PostorderDoes
      <3> QED BY <2>1, <3>2, <3>3, Zenon
    <2>2. CASE /\ op = "edit"
               /\ EndVisit(top, visited, Len(heap) + 1,
                           Append(heap, [top.copy EXCEPT !.label = 1]))
      <3>1. PICK c : c = [top.copy EXCEPT !.label = 1] OBVIOUS
      <3>2. c \in AnyContent /\ c.kids = top.copy.kids
        BY <1>3, <3>1 DEF Frames, AnyContent
      <3>3. Ending(top, visited, Len(heap) + 1, Append(heap, c))
        BY <1>1, <3>2, CloneEnds
      <3>4. EndVisit(top, visited, Len(heap) + 1, Append(heap, c)) BY <2>2, <3>1
      <3>5. PostorderLeaves(top, visited, Len(heap) + 1, Append(heap, c))
        BY <1>1, <2>0, <2>2, <3>2 DEF PostorderLeaves, PostorderDoes
      <3> QED BY <3>3, <3>4, <3>5, Zenon
    <2>3. CASE op = "null" /\ EndVisit(top, visited, Null, heap)
      <3>1. Ending(top, visited, Null, heap) BY <1>1, OtherEnds, NullReplaces
      <3>2. PostorderLeaves(top, visited, Null, heap)
        BY <1>1, <2>0, <2>3 DEF PostorderLeaves, PostorderDoes
      <3> QED BY <2>3, <3>1, <3>2, Zenon
    <2>4. CASE /\ op = "kid" /\ arg \in DOMAIN top.copy.kids /\ top.copy.kids[arg] # Null
               /\ EndVisit(top, visited, top.copy.kids[arg], heap)
      <3>1. Replacing(top.copy.kids[arg]) BY <1>1, <2>4, KidReplaces
      <3>2. Ending(top, visited, top.copy.kids[arg], heap) BY <1>1, <3>1, OtherEnds
      <3>3. PostorderLeaves(top, visited, top.copy.kids[arg], heap)
        BY <1>1, <2>0, <2>4 DEF PostorderLeaves, PostorderDoes
      <3> QED BY <2>4, <3>2, <3>3, Zenon
    <2>5. CASE /\ op = "other" /\ arg \in Orig /\ arg \notin DOMAIN visited
               /\ EndVisit(top, visited, arg, heap)
      <3>1. Replacing(arg) BY <1>1, <2>5, OtherReplaces
      <3>2. Ending(top, visited, arg, heap) BY <1>1, <3>1, OtherEnds
      <3>3. PostorderLeaves(top, visited, arg, heap)
        BY <1>1, <2>0, <2>5 DEF PostorderLeaves, PostorderDoes
      <3> QED BY <2>5, <3>2, <3>3, Zenon
    <2> QED BY <1>2, <2>1, <2>2, <2>3, <2>4, <2>5
  <1>7. /\ VisitOK' /\ DOMAIN last' = DOMAIN last \cup Held(top)
        /\ \E f, vis, final, hp : Ends(f, vis, final, hp)
    <2>1. PICK final, hp : /\ Ending(top, visited, final, hp)
                           /\ EndVisit(top, visited, final, hp)
                           /\ PostorderLeaves(top, visited, final, hp)
      BY <1>6
    <2>2. bug' \in BOOLEAN BY <1>1, <1>3
    <2>3. Ends(top, visited, final, hp) BY <1>1, <2>1 DEF Ends
    <2>4. VisitOK' /\ DOMAIN last' = DOMAIN last \cup Held(top)
      BY <1>1, <1>4, <1>5, <2>1, <2>2, EndVisitStep
    <2> QED BY <2>3, <2>4
  <1>8. PostOK'
    <2> SUFFICES ASSUME NoOther(pass), NEW n \in DOMAIN pass.kids \cap DOMAIN did'.post,
                        NEW i \in DOMAIN pass.kids[n]
                 PROVE  pass.kids[n][i] \in DOMAIN last'
      BY DEF PostOK, Orig, Kids
    <2>1. CASE n \in DOMAIN did.post
      BY <1>3, <1>7, <2>1 DEF PostOK, Orig, Kids
    <2>2. CASE n = object(top)
      <3>1. KidsOK(pass, top, DOMAIN last) BY <1>1, <1>3 DEF FrameFits, Walks
      <3>2. /\ Len(top.copy.kids) = Len(pass.kids[n])
            /\ \A j \in DOMAIN top.copy.kids :
                 pass.kids[n][j] \in DOMAIN last \/ j >= top.idx
        BY <1>1, <2>2, <3>1 DEF KidsOK, Reached
      <3>3. /\ DOMAIN top.copy.kids = 1..Len(top.copy.kids) /\ top.idx \in Nat
            /\ Len(top.copy.kids) \in Nat
        <4>1. top.copy.kids \in Seq(Nat) /\ top.idx \in Nat BY <1>3 DEF Frames, AnyContent
        <4> QED BY <4>1
      <3>4. DOMAIN pass.kids[n] = 1..Len(pass.kids[n])
        <4>1. pass.kids[n] \in Seq(DOMAIN pass.kids) BY <1>3, KidsTyped
        <4> QED BY <4>1
      <3>5. i \in DOMAIN top.copy.kids /\ ~ (i >= top.idx) BY <1>1, <3>2, <3>3, <3>4
      <3> QED BY <1>7, <3>2, <3>5
    <2> QED BY <1>5, <2>1, <2>2
  <1> QED BY <1>7, <1>8

-----------------------------------------------------------------------------
(***************************************************************************)
(* The invariant.                                                          *)
(***************************************************************************)
\* At the start nothing is visited and the heap holds the IR.
LEMMA InitOK ==
  ASSUME Init
  PROVE  IInv
  <1>1. /\ pass \in Passes /\ heap = [n \in DOMAIN pass.kids |->
                                        [label |-> 0, kids |-> pass.kids[n]]]
        /\ visited = << >> /\ stack = << >> /\ last = << >> /\ returned = Self
    BY DEF Init, Orig, Kids
  <1>2. PICK ks, O, N : /\ ks = pass.kids /\ O = DOMAIN pass.kids /\ N = Len(pass.kids)
                        /\ O = 1..N /\ N \in Nat
                        /\ \A n \in O : ks[n] \in Seq(O)
                        /\ \A n \in O : \A i \in DOMAIN ks[n] : ks[n][i] \in O
    BY <1>1, KidsTyped
  <1>3. /\ \A n \in O : heap[n].kids = ks[n] /\ heap[n].label = 0
        /\ \A n \in O : heap[n] = [label |-> 0, kids |-> ks[n]]
        /\ DOMAIN heap = O
    BY <1>1, <1>2
  <1>4. \A n \in O : heap[n] \in AnyContent
    <2> TAKE n \in O
    <2>1. ks[n] \in Seq(Nat)
      <3>1. PICK q, m : q = ks[n] /\ m = Len(ks[n]) OBVIOUS
      <3>2. q \in Seq(O) /\ m = Len(q) BY <1>2, <3>1
      <3>3. m \in Nat /\ DOMAIN q = 1..m /\ \A i \in 1..m : q[i] \in O BY <3>2
      <3>4. \A i \in 1..m : q[i] \in Nat BY <1>2, <3>3
      <3>5. q = [i \in 1..m |-> q[i]] BY <3>2, <3>3
      <3>6. q \in [1..m -> Nat] BY <3>4, <3>5
      <3>7. \A r \in [1..m -> Nat] : r \in Seq(Nat) BY <3>3
      <3> QED BY <3>1, <3>6, <3>7
    <2> QED BY <1>3, <2>1 DEF AnyContent
  <1>5. heap \in Seq(AnyContent) /\ Len(heap) = N
    <2>1. heap = [n \in 1..N |-> heap[n]] BY <1>1, <1>2
    <2>2. heap \in [1..N -> AnyContent] BY <1>2, <1>4, <2>1
    <2>3. \A q \in [1..N -> AnyContent] : q \in Seq(AnyContent) /\ Len(q) = N
      BY <1>2
    <2> QED BY <2>2, <2>3
  <1>6. HeapOK(pass, heap)
    <2>1. \A n \in O : Closed(heap[n], N) BY <1>2, <1>3 DEF Closed
    <2> QED BY <1>2, <1>3, <1>5, <2>1 DEF HeapOK
  <1>7. /\ DOMAIN visited = {} /\ DOMAIN stack = {} /\ DOMAIN last = {}
        /\ stack \in Seq(Frames)
    BY <1>1
  <1>8. pass.max_edits \in Nat BY <1>1, TransformAssumption
  <1>9. DOMAIN did = {"pre", "post", "cut"} /\ DOMAIN did.post = {} BY DEF Init
  <1>10. Shape
    <2>1. DOMAIN last \subseteq Address BY <1>7
    <2>2. edits \in 0..pass.max_edits BY <1>8 DEF Init
    <2>3. prune_flag \in BOOLEAN /\ bug \in BOOLEAN BY DEF Init
    <2> QED BY <1>1, <1>5, <1>7, <1>9, <2>1, <2>2, <2>3 DEF Shape
  <1>11. StackFits(pass, stack, visited, heap, DOMAIN last, prune_flag)
    BY <1>7 DEF StackFits
  <1>12. VisitOK BY <1>1, <1>6, <1>10, <1>11 DEF VisitOK
  <1>13. PostOK BY <1>9 DEF PostOK
  <1> QED BY <1>12, <1>13 DEF IInv

\* The kinds of steps.
SomeStep ==
  \/ Idles
  \/ \E n : Starts(n)
  \/ \E ret : HandsOn(ret)
  \/ \E g, op : PreorderLeaves(g, op)
  \/ \E g : AtKids(g)
  \/ \E f, vis, final, hp : Ends(f, vis, final, hp)

\* Every step keeps the invariant, and is of one of these kinds.
LEMMA NextOK ==
  ASSUME IInv, [Next]_vars
  PROVE  IInv' /\ SomeStep
  <1>1. CASE UNCHANGED vars
    <2>1. VisitOK' BY <1>1 DEF vars, IInv, VisitOK, Shape, Address
    <2>2. PostOK' BY <1>1 DEF vars, IInv, PostOK, Orig, Kids
    <2>3. Idles BY <1>1 DEF vars, Idles
    <2> QED BY <2>1, <2>2, <2>3 DEF IInv, SomeStep
  <1>2. CASE Apply /\ pass' = pass
    <2>1. VisitOK' /\ Starts(Root) BY <1>2, ApplyStep
    <2>2. PostOK' BY <1>2, PostKept DEF Apply
    <2> QED BY <2>1, <2>2 DEF IInv, SomeStep
  <1>3. CASE Preorder /\ pass' = pass
    <2>1. /\ VisitOK' /\ did'.post = did.post /\ last' = last
          /\ \E g, op : PreorderLeaves(g, op)
      BY <1>3, PreorderStep
    <2>2. PostOK' BY <1>3, <2>1, PostKept
    <2> QED BY <2>1, <2>2 DEF IInv, SomeStep
  <1>4. CASE CallTracker /\ pass' = pass
    <2>1. VisitOK' /\ Idles BY <1>4, CallStep
    <2>2. PostOK' BY <1>4, PostKept DEF CallTracker
    <2> QED BY <2>1, <2>2 DEF IInv, SomeStep
  <1>5. CASE (VisitInPreorder \/ VisitChildren) /\ pass' = pass
    <2>1. VisitOK' /\ (Idles \/ (\E n : Starts(n)) \/ (\E ret : HandsOn(ret)))
      BY <1>5, ChildStep
    <2>2. PostOK' BY <1>5, PostKept DEF VisitInPreorder, VisitChildren
    <2> QED BY <2>1, <2>2 DEF IInv, SomeStep
  <1>6. CASE PreorderReturned /\ pass' = pass
    <2>1. /\ VisitOK' /\ did'.post = did.post /\ DOMAIN last \subseteq DOMAIN last'
          /\ \/ Idles \/ (\E g : AtKids(g))
             \/ \E f, vis, final, hp : Ends(f, vis, final, hp)
      BY <1>6, ReturnedStep
    <2>2. PostOK' BY <1>6, <2>1, PostKept
    <2> QED BY <2>1, <2>2 DEF IInv, SomeStep
  <1>7. CASE Postorder /\ pass' = pass BY <1>7, PostorderStep DEF IInv, SomeStep
  <1> QED BY <1>1, <1>2, <1>3, <1>4, <1>5, <1>6, <1>7 DEF Next, Step

\* The invariant gives the property.
LEMMA InvImplies ==
  ASSUME IInv
  PROVE  TrackerRight
  <1>1. /\ Shape /\ pass \in Passes /\ heap \in Seq(AnyContent) /\ stack \in Seq(Frames)
        /\ HeapOK(pass, heap) /\ Len(heap) \in Nat /\ DOMAIN heap = 1..Len(heap)
        /\ stack = << >> => visited = << >>
    BY DEF IInv, VisitOK, Shape
  <1>2. stack # << >> => TrackerFits(pass, visited, HeldBy(stack), Len(heap), last, {})
    BY DEF IInv, VisitOK
  <1>3. visited = << >> => DOMAIN visited = {} OBVIOUS
  <1>4. VisTyped(visited, Len(heap))
    <2>1. CASE stack = << >> BY <1>1, <1>3, <2>1 DEF VisTyped
    <2>2. CASE stack # << >> BY <1>2, <2>2 DEF TrackerFits
    <2> QED BY <2>1, <2>2
  <1>5. Address \cup {Null} = 0..Len(heap) BY <1>1 DEF Address, Null
  <1>6. ASSUME NEW c \in AnyContent, Closed(c, Len(heap)) PROVE c \in Content
    <2>1. c.kids \in Seq(Nat) /\ c = [label |-> c.label, kids |-> c.kids]
          /\ c.label \in {0, 1}
      BY DEF AnyContent
    <2>2. \A i \in 1..Len(c.kids) : c.kids[i] \in 0..Len(heap)
      BY <1>6, <2>1 DEF Closed
    <2>3. c.kids \in Seq(0..Len(heap))
      <3>1. PICK K, m, H : K = c.kids /\ m = Len(c.kids) /\ H = 0..Len(heap) OBVIOUS
      <3>2. m \in Nat /\ K = [i \in 1..m |-> K[i]] /\ \A i \in 1..m : K[i] \in H
        BY <2>1, <2>2, <3>1
      <3>3. K \in [1..m -> H] BY <3>2
      <3>4. \A q \in [1..m -> H] : q \in Seq(H) BY <3>2
      <3> QED BY <3>1, <3>3, <3>4
    <2> QED BY <1>5, <2>1, <2>3 DEF Content
  <1>7. TypeOK
    <2>1. \A a \in Address : heap[a] \in Content BY <1>1, <1>6 DEF HeapOK, Address
    <2>2. DOMAIN visited \subseteq Address BY <1>1, <1>4 DEF VisTyped, Address
    <2>3. \A n \in DOMAIN visited :
            visited[n] \in [busy : BOOLEAN, once : BOOLEAN, result : Address \cup {Null}]
      BY <1>4, <1>5 DEF VisTyped
    <2>4. ASSUME NEW i \in DOMAIN stack
          PROVE  /\ stack[i].n \in Address /\ stack[i].copy \in Content
                 /\ stack[i].pre \in Address \cup {Null, Self}
      <3>1. FrameOK(stack[i], Len(heap)) BY DEF IInv, VisitOK, StackFits, FrameFits
      <3>2. stack[i].copy \in AnyContent
        <4>1. stack[i] \in Frames BY <1>1
        <4> QED BY <4>1 DEF Frames
      <3>3. stack[i].copy \in Content BY <1>6, <3>1, <3>2 DEF FrameOK
      <3>4. stack[i].pre \in Address \cup {Null, Self} BY <1>5, <3>1 DEF FrameOK
      <3>5. stack[i].n \in Address BY <1>1, <3>1 DEF FrameOK, Address
      <3> QED BY <3>3, <3>4, <3>5
    <2>5. returned \in Address \cup {Null, Self} BY <1>1, <1>5 DEF Shape
    <2>6. prune_flag \in BOOLEAN /\ bug \in BOOLEAN /\ edits \in 0..pass.max_edits
      BY <1>1 DEF Shape
    <2> QED BY <2>1, <2>2, <2>3, <2>4, <2>5, <2>6 DEF TypeOK
  <1>8. BusyIsOnStack
    <2>1. {n \in DOMAIN visited : visited[n].busy} = HeldBy(stack)
      <3>1. CASE stack = << >>
        <4>1. DOMAIN stack = {} /\ DOMAIN visited = {} BY <1>1, <1>3, <3>1
        <4> QED BY <4>1 DEF HeldBy
      <3>2. CASE stack # << >> BY <1>2, <3>2 DEF TrackerFits, BusyAre
      <3> QED BY <3>1, <3>2
    <2> QED BY <2>1 DEF BusyIsOnStack, HeldBy, Held
  <1>9. ResultOfLastVisit
    <2> SUFFICES ASSUME pass.calls = {}, NEW n \in DOMAIN visited \cap DOMAIN last,
                        Status(n) = "Done"
                 PROVE  visited[n].result = last[n]
      BY DEF ResultOfLastVisit
    <2>1. stack # << >> BY <1>1, <1>3
    <2>2. TrackerFits(pass, visited, HeldBy(stack), Len(heap), last, {}) BY <1>2, <2>1
    <2>3. IsDone(visited, n) /\ visited[n].once BY <1>1, <1>4, StatusIs
    <2>4. Uniform(pass) BY DEF Uniform
    <2>5. Once(pass) BY <2>2, <2>3, <2>4 DEF TrackerFits, Plainly, Once
    <2> QED BY <2>2, <2>3, <2>5 DEF TrackerFits, Agrees, IsDone
  <1>10. VisitsEveryChild BY DEF IInv, PostOK, NoOther, VisitsEveryChild
  <1> QED BY <1>7, <1>8, <1>9, <1>10 DEF TrackerRight

(***************************************************************************)
(* The inductive invariant: what the activations of apply_visitor hold and *)
(* wait for is what the tracker says, on every IR and for every pass.      *)
(***************************************************************************)
THEOREM TransformInductive == Spec => []IInv
  <1>1. Init => IInv BY InitOK
  <1>2. IInv /\ [Next]_vars => IInv' BY NextOK
  <1> QED BY <1>1, <1>2, PTL DEF Spec

(***************************************************************************)
(* The ChangeTracker is right at each moment: the nodes it holds as busy   *)
(* are those of unfinished calls of apply_visitor, the result of a node    *)
(* that is done is what its last visit returned, and the postorder of a    *)
(* node only runs when its children were visited.                          *)
(***************************************************************************)
THEOREM TrackerIsRight == Spec => []TrackerRight
  <1>1. IInv => TrackerRight BY InvImplies
  <1> QED BY <1>1, TransformInductive, PTL

-----------------------------------------------------------------------------
(***************************************************************************)
(* What can be reached in the heap: the function Grow in the definition of *)
(* Below exists, and a set that is closed under children holds all of it.  *)
(***************************************************************************)
Onward(hp, cut, S) ==
  S \cup UNION {{hp[a].kids[i] : i \in DOMAIN hp[a].kids} : a \in S \ (cut \cup {Null})}

\* f is what Grow is, up to m.
Grows(f, hp, cut, n, m) ==
  /\ DOMAIN f = 0..m
  /\ \A i \in 0..m : f[i] = IF i = 0 THEN {n} ELSE Onward(hp, cut, f[i - 1])

\* There is such a function for every m.
LEMMA GrowsFar ==
  ASSUME NEW hp, NEW cut, NEW n, NEW m \in Nat
  PROVE  \E f : Grows(f, hp, cut, n, m)
  <1> DEFINE Bad == {k \in Nat : ~ \E f : Grows(f, hp, cut, n, k)}
  <1> SUFFICES ASSUME Bad # {} PROVE FALSE OBVIOUS
  <1>1. Bad \in SUBSET Nat OBVIOUS
  <1>2. PICK k \in Bad : \A d \in Bad : k <= d BY <1>1, LeastOf
  <1>3. k \in Nat /\ ~ \E f : Grows(f, hp, cut, n, k) OBVIOUS
  <1>4. CASE k = 0
    <2> DEFINE g == [i \in 0..0 |-> {n}]
    <2>1. Grows(g, hp, cut, n, 0) BY DEF Grows
    <2> QED BY <1>3, <1>4, <2>1
  <1>5. CASE k # 0
    <2>1. k - 1 \in Nat /\ ~ (k <= k - 1) BY <1>3, <1>5
    <2>2. k - 1 \notin Bad BY <1>2, <2>1
    <2>3. PICK f : Grows(f, hp, cut, n, k - 1) BY <2>1, <2>2
    <2> DEFINE g == [i \in 0..k |-> IF i = k THEN Onward(hp, cut, f[k - 1]) ELSE f[i]]
    <2>4. DOMAIN g = 0..k /\ g[k] = Onward(hp, cut, f[k - 1])
          /\ \A i \in 0..(k - 1) : g[i] = f[i]
      BY <1>3, <1>5
    <2> HIDE DEF g
    <2>5. \A i \in 0..k : g[i] = IF i = 0 THEN {n} ELSE Onward(hp, cut, g[i - 1])
      <3> TAKE i \in 0..k
      <3>1. CASE i = k
        <4>1. g[i - 1] = f[k - 1] BY <1>3, <1>5, <2>4, <3>1
        <4> QED BY <1>5, <2>4, <3>1, <4>1
      <3>2. CASE i # k
        <4>1. i \in 0..(k - 1) BY <1>3, <3>2
        <4>2. f[i] = IF i = 0 THEN {n} ELSE Onward(hp, cut, f[i - 1])
          BY <2>3, <4>1 DEF Grows
        <4>3. i # 0 => g[i - 1] = f[i - 1]
          <5>1. i # 0 => i - 1 \in 0..(k - 1) BY <1>3, <4>1
          <5> QED BY <2>4, <5>1
        <4> QED BY <2>4, <4>1, <4>2, <4>3
      <3> QED BY <3>1, <3>2
    <2>6. Grows(g, hp, cut, n, k) BY <2>4, <2>5 DEF Grows
    <2> QED BY <1>3, <2>6
  <1> QED BY <1>4, <1>5

\* Below is the last value of Grow.
IsGrow(f, n, cut) ==
  /\ Below(n, cut) = f[Len(heap)] \ {Null}
  /\ f[0] = {n}
  /\ \A i \in 1..Len(heap) : f[i] = Onward(heap, cut, f[i - 1])

\* Below is defined from a function that exists.
LEMMA BelowIs ==
  ASSUME Len(heap) \in Nat, NEW n, NEW cut
  PROVE  \E f : IsGrow(f, n, cut)
  <1> DEFINE L == Len(heap)
             Solves(f) == f = [i \in 0..L |-> IF i = 0 THEN {n}
                                              ELSE Onward(heap, cut, f[i - 1])]
  <1>1. PICK f : Grows(f, heap, cut, n, L) BY GrowsFar
  <1>2. f = [i \in 0..L |-> f[i]] BY <1>1 DEF Grows
  <1>3. Solves(f) BY <1>1, <1>2 DEF Grows
  <1> DEFINE g == CHOOSE g : Solves(g)
  <1>4. Solves(g) BY <1>3, ZenonT(30)
  <1>5. Below(n, cut) = g[L] \ {Null} BY DEF Below, Onward
  <1> HIDE DEF g
  <1>6. /\ g[0] = {n}
        /\ \A i \in 1..L : g[i] = Onward(heap, cut, g[i - 1])
    <2>1. 0 \in 0..L /\ \A i \in 1..L : i \in 0..L /\ i # 0 OBVIOUS
    <2> HIDE DEF L
    <2> QED BY <1>4, <2>1
  <1> QED BY <1>5, <1>6 DEF IsGrow

\* A set that holds n, and the children of its nodes outside cut, holds all
\* nodes below n.
LEMMA BelowIn ==
  ASSUME Len(heap) \in Nat, NEW n, NEW cut, NEW G, n \in G \cup {Null},
         \A a \in G \ cut : \A i \in DOMAIN heap[a].kids : heap[a].kids[i] \in G \cup {Null}
  PROVE  Below(n, cut) \subseteq G
  <1>0. PICK f : IsGrow(f, n, cut) BY BelowIs
  <1>1. /\ Below(n, cut) = f[Len(heap)] \ {Null}
        /\ f[0] = {n}
        /\ \A i \in 1..Len(heap) : f[i] = Onward(heap, cut, f[i - 1])
    BY <1>0 DEF IsGrow
  <1>2. PICK L \in Nat : L = Len(heap) OBVIOUS
  <1> DEFINE Bad == {k \in 0..L : ~ (f[k] \subseteq G \cup {Null})}
  <1>3. Bad = {}
    <2> SUFFICES ASSUME Bad # {} PROVE FALSE OBVIOUS
    <2>1. PICK k \in Bad : \A d \in Bad : k <= d
      <3>1. Bad \in SUBSET Nat OBVIOUS
      <3> HIDE DEF Bad
      <3> QED BY <3>1, LeastOf
    <2>2. k # 0 BY <1>1
    <2>3. k \in 1..L /\ k - 1 \in 0..L /\ ~ (k <= k - 1) BY <2>2
    <2>4. f[k - 1] \subseteq G \cup {Null} BY <2>1, <2>3
    <2>5. f[k] = Onward(heap, cut, f[k - 1]) BY <1>1, <1>2, <2>3
    <2>6. \A x \in Onward(heap, cut, f[k - 1]) : x \in G \cup {Null}
      <3> TAKE x \in Onward(heap, cut, f[k - 1])
      <3>1. \/ x \in f[k - 1]
            \/ \E a \in f[k - 1] \ (cut \cup {Null}) :
                 x \in {heap[a].kids[i] : i \in DOMAIN heap[a].kids}
        BY DEF Onward
      <3>2. ASSUME NEW a \in f[k - 1] \ (cut \cup {Null}), NEW i \in DOMAIN heap[a].kids,
                   x = heap[a].kids[i]
            PROVE  x \in G \cup {Null}
        <4>1. a \in G \ cut BY <2>4, <3>2
        <4> QED BY <3>2, <4>1
      <3> QED BY <2>4, <3>1, <3>2
    <2> QED BY <2>5, <2>6
  <1>4. f[L] \subseteq G \cup {Null} BY <1>2, <1>3
  <1> QED BY <1>1, <1>2, <1>4

-----------------------------------------------------------------------------
(***************************************************************************)
(* The nodes that visits have returned and that the tracker, an activation *)
(* or the caller still has.                                                *)
(***************************************************************************)
Results(vis) == {vis[n].result : n \in {m \in DOMAIN vis : ~vis[m].busy}}

Has(f) ==
  CASE f.phase = "kids" -> {f.copy.kids[j] : j \in {k \in DOMAIN f.copy.kids : k < f.idx}}
    [] f.phase = "transformed" -> {f.pre}
    [] OTHER -> {}

HasAny(stk) == UNION {Has(stk[i]) : i \in DOMAIN stk}

InUse(vis, stk, ret) == Results(vis) \cup HasAny(stk) \cup ({ret} \ {Self})

\* An activation in front of others.
LEMMA HasFront ==
  ASSUME NEW s \in Seq(Frames), NEW g \in Frames
  PROVE  HasAny(Pushed(g, s)) = Has(g) \cup HasAny(s)
  <1> DEFINE t == Pushed(g, s)
  <1>1. /\ DOMAIN t = 1..(Len(s) + 1) /\ t[1] = g /\ Len(s) \in Nat
        /\ \A i \in 2..(Len(s) + 1) : t[i] = s[i - 1]
    BY InFront DEF Pushed
  <1>2. DOMAIN s = 1..Len(s) OBVIOUS
  <1> HIDE DEF t
  <1>3. ASSUME NEW x \in HasAny(t) PROVE x \in Has(g) \cup HasAny(s)
    <2>1. PICK i \in DOMAIN t : x \in Has(t[i]) BY <1>3 DEF HasAny
    <2>2. CASE i = 1 BY <1>1, <2>1, <2>2
    <2>3. CASE i # 1
      <3>1. i - 1 \in DOMAIN s /\ t[i] = s[i - 1] BY <1>1, <1>2, <2>3
      <3> QED BY <2>1, <3>1 DEF HasAny
    <2> QED BY <2>2, <2>3
  <1>4. ASSUME NEW x \in Has(g) PROVE x \in HasAny(t)
    <2>1. 1 \in DOMAIN t BY <1>1
    <2> QED BY <1>1, <1>4, <2>1 DEF HasAny
  <1>5. ASSUME NEW x \in HasAny(s) PROVE x \in HasAny(t)
    <2>1. PICK i \in DOMAIN s : x \in Has(s[i]) BY <1>5 DEF HasAny
    <2>2. PICK j : j = i + 1 OBVIOUS
    <2>3. j \in DOMAIN t /\ t[j] = s[i] BY <1>1, <1>2, <2>2
    <2> QED BY <2>1, <2>3 DEF HasAny
  <1>6. HasAny(t) = Has(g) \cup HasAny(s) BY <1>3, <1>4, <1>5
  <1> QED BY <1>6 DEF t

\* The innermost one and the others.
LEMMA HasRest ==
  ASSUME NEW s \in Seq(Frames), s # << >>
  PROVE  HasAny(s) = Has(s[1]) \cup HasAny(Tail(s))
  <1>1. /\ s[1] \in Frames /\ Tail(s) \in Seq(Frames) /\ Len(s) \in Nat \ {0}
        /\ DOMAIN s = 1..Len(s) /\ Len(Tail(s)) = Len(s) - 1
        /\ \A i \in 1..(Len(s) - 1) : Tail(s)[i] = s[i + 1]
    BY TopAndRest
  <1>2. PICK t : t = Pushed(s[1], Tail(s)) OBVIOUS
  <1>3. /\ DOMAIN t = 1..Len(s) /\ t[1] = s[1] /\ t \in Seq(Frames)
        /\ \A i \in 2..Len(s) : t[i] = Tail(s)[i - 1]
    BY <1>1, <1>2, InFront DEF Pushed
  <1>4. ASSUME NEW i \in 2..Len(s) PROVE t[i] = s[i]
    <2>1. PICK j \in 1..(Len(s) - 1) : j = i - 1 BY <1>1
    <2> QED BY <1>1, <1>3, <2>1
  <1>5. \A i \in 1..Len(s) : t[i] = s[i]
    <2> TAKE i \in 1..Len(s)
    <2>1. i = 1 \/ i \in 2..Len(s) BY <1>1
    <2> QED BY <1>3, <1>4, <2>1
  <1>6. HasAny(t) = HasAny(s) BY <1>1, <1>3, <1>5, Zenon DEF HasAny
  <1> QED BY <1>1, <1>2, <1>6, HasFront

\* What the tracker holds as a result.
LEMMA ResultsAre ==
  ASSUME NEW vis, NEW x
  PROVE  x \in Results(vis) <=> \E n : IsDone(vis, n) /\ x = vis[n].result
  BY DEF Results, IsDone

\* The tracker fits the activations, before the run too.
LEMMA TrackerAlways ==
  ASSUME IInv, stack = << >> => returned = Self
  PROVE  /\ TrackerFits(pass, visited, HeldBy(stack), Len(heap), last, {})
         /\ VisTyped(visited, Len(heap)) /\ Len(heap) \in Nat
  <1>1. TrackerFits(pass, visited, HeldBy(stack), Len(heap), last, {})
    <2>1. CASE stack # << >> BY <2>1 DEF IInv, VisitOK
    <2>2. CASE stack = << >>
      <3>1. visited = << >> /\ last = << >> BY <2>2 DEF IInv, VisitOK, Shape
      <3>2. DOMAIN visited = {} /\ DOMAIN stack = {} /\ DOMAIN last = {} BY <2>2, <3>1
      <3>3. HeldBy(stack) = {} BY <3>2 DEF HeldBy
      <3> QED BY <3>2, <3>3 DEF TrackerFits, VisTyped, BusyAre, Plainly, Met, Agrees
    <2> QED BY <2>1, <2>2
  <1>2. Len(heap) \in Nat BY DEF IInv, VisitOK, Shape
  <1> QED BY <1>1, <1>2 DEF TrackerFits

\* A node that a visit is started of is not done.
LEMMA TryDone ==
  ASSUME NEW vis, NEW h \in Nat, VisTyped(vis, h), NEW n \in 1..h, NEW once \in BOOLEAN,
         NEW v, v = try_start(vis, n, once)
  PROVE  \A m : IsDone(v, m) => IsDone(vis, m) /\ m # n /\ v[m] = vis[m]
  <1>1. StartOf(vis, n, once, v) BY TryStartIs
  <1> QED BY <1>1 DEF StartOf, IsDone

\* An activation has nothing before and after preorder, and at its first child.
LEMMA HasNone ==
  ASSUME NEW f \in Frames,
         \/ f.phase \notin {"kids", "transformed"}
         \/ f.phase = "kids" /\ f.idx = 1
  PROVE  Has(f) = {}
  <1>1. CASE f.phase \notin {"kids", "transformed"} BY <1>1 DEF Has
  <1>2. CASE f.phase = "kids" /\ f.idx = 1
    <2>1. f.copy.kids \in Seq(Nat) BY DEF Frames, AnyContent
    <2>2. \A k \in DOMAIN f.copy.kids : ~ (k < f.idx) BY <1>2, <2>1
    <2> QED BY <1>2, <2>2 DEF Has
  <1> QED BY <1>1, <1>2

\* It is given a result.
LEMMA HasResumed ==
  ASSUME NEW f \in Frames, Waiting(f), NEW ret \in Nat, NEW g, g = Resumed(f, ret)
  PROVE  g \in Frames /\ Has(g) \subseteq Has(f) \cup {ret}
  <1>1. /\ g \in Frames /\ DOMAIN g.copy.kids = DOMAIN f.copy.kids
        /\ \A i \in DOMAIN f.copy.kids :
             /\ g.copy.kids[i] \in {f.copy.kids[i], ret}
             /\ i # f.idx => g.copy.kids[i] = f.copy.kids[i]
        /\ f.phase = "kids" => /\ g.phase = "kids" /\ g.idx = f.idx + 1
                               /\ g.copy.kids[f.idx] = ret
        /\ f.phase = "visit_kid" => g.phase = "returned"
        /\ f.phase = "transform_child" => g.phase = "transformed" /\ g.pre = ret
    BY ResumedFields
  <1>2. CASE f.phase = "kids"
    <2>1. ASSUME NEW k \in DOMAIN g.copy.kids, k < g.idx
          PROVE  g.copy.kids[k] \in Has(f) \cup {ret}
      <3>1. f.idx \in Nat /\ k \in Nat
        <4>1. f.copy.kids \in Seq(Nat) /\ f.idx \in Nat BY DEF Frames, AnyContent
        <4> QED BY <1>1, <4>1
      <3>2. CASE k = f.idx BY <1>1, <1>2, <3>2
      <3>3. CASE k # f.idx
        <4>1. k < f.idx BY <1>1, <1>2, <2>1, <3>1, <3>3
        <4> QED BY <1>1, <1>2, <3>3, <4>1 DEF Has
      <3> QED BY <3>2, <3>3
    <2>2. Has(g) = {g.copy.kids[j] : j \in {k \in DOMAIN g.copy.kids : k < g.idx}}
      BY <1>1, <1>2 DEF Has
    <2> QED BY <1>1, <2>1, <2>2
  <1>3. CASE f.phase = "visit_kid" BY <1>1, <1>3, HasNone
  <1>4. CASE f.phase = "transform_child" BY <1>1, <1>4 DEF Has
  <1> QED BY <1>2, <1>3, <1>4 DEF Waiting

-----------------------------------------------------------------------------
(***************************************************************************)
(* How the nodes in use change with each kind of step.                     *)
(***************************************************************************)
UsesOnly(S) == InUse(visited', stack', returned') \subseteq InUse(visited, stack, returned) \cup S

\* An activation takes the place of the innermost one, or comes in front of it.
LEMMA UsedWithin ==
  ASSUME IInv, returned' = returned, NEW g \in Frames, NEW t \in Seq(Frames),
         t = stack \/ (stack # << >> /\ t = Tail(stack)), stack' = Pushed(g, t),
         NEW S, Has(g) \subseteq HasAny(stack) \cup S,
         \A m : IsDone(visited', m) =>
           IsDone(visited, m) /\ visited'[m].result = visited[m].result
  PROVE  UsesOnly(S)
  <1>1. stack \in Seq(Frames) BY DEF IInv, VisitOK, Shape
  <1>2. HasAny(t) \subseteq HasAny(stack) BY <1>1, HasRest
  <1>3. HasAny(Pushed(g, t)) = Has(g) \cup HasAny(t) BY HasFront
  <1>4. HasAny(stack') \subseteq HasAny(stack) \cup S BY <1>2, <1>3
  <1>5. Results(visited') \subseteq Results(visited) BY ResultsAre
  <1> QED BY <1>4, <1>5 DEF UsesOnly, InUse

\* A step that leaves the activations as they are.
LEMMA UsedIdle ==
  ASSUME IInv, Idles
  PROVE  UsesOnly({})
  <1>1. Results(visited') \subseteq Results(visited) BY ResultsAre DEF Idles
  <1>2. stack' = stack /\ returned' = returned BY DEF Idles
  <1> QED BY <1>1, <1>2 DEF UsesOnly, InUse

\* A new activation: its clone forwards children that are done to their results.
LEMMA UsedStart ==
  ASSUME IInv, NEW n, Starts(n)
  PROVE  UsesOnly({})
  <1>1. /\ n \in 1..Len(heap) /\ Begin(n) /\ stack' = Pushed(Frame(n), stack)
        /\ returned' = returned /\ stack \in Seq(Frames)
        /\ stack = << >> => returned = Self
    BY DEF Starts, IInv, VisitOK, Shape
  <1>2. /\ TrackerFits(pass, visited, HeldBy(stack), Len(heap), last, {})
        /\ VisTyped(visited, Len(heap)) /\ Len(heap) \in Nat
    BY <1>1, TrackerAlways
  <1>3. PICK g : g = Frame(n) OBVIOUS
  <1>4. g \in Frames
    <2>1. DoneKept(pass, visited, visited) BY DEF DoneKept
    <2> QED BY <1>1, <1>2, <1>3, <2>1, NewFrame
  <1>5. Has(g) = {}
    <2>1. g.phase = "preorder" BY <1>3 DEF Frame
    <2> QED BY <1>4, <2>1, HasNone
  <1>6. \A m : IsDone(visited', m) =>
          IsDone(visited, m) /\ visited'[m].result = visited[m].result
    <2>1. PICK v : v = visited' OBVIOUS
    <2>2. v = try_start(visited, n, pass.visitDagOnce) /\ pass.visitDagOnce \in BOOLEAN
      BY <1>1, <2>1, TransformAssumption DEF Begin, IInv, VisitOK, Shape
    <2>3. \A m : IsDone(v, m) => IsDone(visited, m) /\ v[m] = visited[m]
      BY <1>1, <1>2, <2>2, TryDone
    <2> QED BY <2>1, <2>3
  <1> QED BY <1>1, <1>3, <1>4, <1>5, <1>6, UsedWithin

\* The result of a child is handed on.
LEMMA UsedHandedOn ==
  ASSUME IInv, NEW ret, HandsOn(ret)
  PROVE  UsesOnly({Null})
  <1>1. /\ stack # << >> /\ Waiting(top) /\ stack' = Pushed(Resumed(top, ret), Tail(stack))
        /\ visited' = visited /\ returned' = returned
    BY DEF HandsOn
  <1>2. /\ top = stack[1] /\ top \in Frames /\ Tail(stack) \in Seq(Frames)
        /\ stack \in Seq(Frames)
        /\ TrackerFits(pass, visited, HeldBy(stack), Len(heap), last, {})
    BY <1>1, TopFits DEF IInv, VisitOK, Shape
  <1>3. ret \in Nat /\ ret \in Results(visited) \cup {Null}
    <2>1. CASE ret = Null BY <2>1 DEF Null
    <2>2. ASSUME NEW c, Status(c) = "Done", ret = visited[c].result
          PROVE  ret \in Nat /\ ret \in Results(visited)
      <3>1. VisTyped(visited, Len(heap)) /\ Len(heap) \in Nat
        BY <1>2 DEF TrackerFits, IInv, VisitOK, Shape
      <3>2. IsDone(visited, c) BY <2>2, <3>1, StatusIs
      <3>3. visited[c].result \in Nat BY <3>1, <3>2 DEF VisTyped, IsDone
      <3> QED BY <2>2, <3>2, <3>3, ResultsAre
    <2> QED BY <2>1, <2>2 DEF HandsOn
  <1>4. PICK g : g = Resumed(top, ret) OBVIOUS
  <1>5. g \in Frames /\ Has(g) \subseteq Has(top) \cup {ret}
    BY <1>1, <1>2, <1>3, <1>4, HasResumed
  <1>6. HasAny(stack) = Has(top) \cup HasAny(Tail(stack)) BY <1>1, <1>2, HasRest
  <1>7. HasAny(stack') = Has(g) \cup HasAny(Tail(stack))
    BY <1>1, <1>2, <1>4, <1>5, HasFront
  <1> QED BY <1>1, <1>3, <1>5, <1>6, <1>7 DEF UsesOnly, InUse

\* Preorder uses no child yet.
LEMMA UsedPreorder ==
  ASSUME IInv, NEW g, NEW op, PreorderLeaves(g, op)
  PROVE  UsesOnly({})
  <1>1. /\ stack # << >> /\ stack' = Pushed(g, Tail(stack)) /\ g \in Frames
        /\ visited' = visited /\ returned' = returned
        /\ g.phase \notin {"kids", "transformed"}
    BY DEF PreorderLeaves, LeftByPreorder
  <1>2. Tail(stack) \in Seq(Frames) BY <1>1, TopFits
  <1>3. Has(g) = {} BY <1>1, HasNone
  <1> QED BY <1>1, <1>2, <1>3, UsedWithin

\* The children of the clone are yet to be visited.
LEMMA UsedAtKids ==
  ASSUME IInv, NEW g, AtKids(g)
  PROVE  UsesOnly({})
  <1>1. /\ stack # << >> /\ stack' = Pushed(g, Tail(stack)) /\ g \in Frames
        /\ returned' = returned /\ g.phase = "kids" /\ g.idx = 1
    BY DEF AtKids
  <1>2. /\ Tail(stack) \in Seq(Frames) /\ top \in Frames /\ FrameOK(top, Len(heap))
        /\ TrackerFits(pass, visited, HeldBy(stack), Len(heap), last, {})
        /\ HeldBy(stack) = Held(top) \cup HeldBy(Tail(stack))
        /\ Len(heap) \in Nat
    BY <1>1, TopFits DEF IInv, VisitOK, Shape
  <1>3. Has(g) = {} BY <1>1, HasNone
  <1>4. \A m : IsDone(visited', m) =>
          IsDone(visited, m) /\ visited'[m].result = visited[m].result
    <2>1. CASE visited' = visited BY <2>1
    <2>2. CASE /\ top.pre > Null
               /\ visited' = try_start(visited, top.pre, visited[top.n].once)
      <3>1. PICK v, h, n, once : /\ v = visited' /\ h = Len(heap) /\ n = top.pre
                                 /\ once = visited[top.n].once
        OBVIOUS
      <3>2. top.n \in DOMAIN visited BY <1>2 DEF TrackerFits, BusyAre, Held
      <3>3. VisTyped(visited, h) /\ once \in BOOLEAN
        BY <1>2, <3>1, <3>2 DEF TrackerFits, VisTyped
      <3>4. n \in 1..h /\ h \in Nat BY <1>2, <2>2, <3>1 DEF FrameOK, Null, Self
      <3>5. \A m : IsDone(v, m) => IsDone(visited, m) /\ v[m] = visited[m]
        BY <2>2, <3>1, <3>3, <3>4, TryDone
      <3> QED BY <3>1, <3>5
    <2> QED BY <2>1, <2>2 DEF AtKids
  <1> QED BY <1>1, <1>2, <1>3, <1>4, UsedWithin

-----------------------------------------------------------------------------
(***************************************************************************)
(* The nodes in use when a visit ends.                                     *)
(***************************************************************************)
\* The tracker has the result of a visit, not of an earlier one.
Settled(p) == Once(p) \/ p.forceClone

\* The nodes a visit ends with: what it returns, and the result of the node that
\* preorder returned.
Outcome(f, ret, fin) == {ret} \cup (IF f.extra THEN {fin} ELSE {})

\* finish enters a node only if it takes it for a change.
LEMMA EntersChanged ==
  ASSUME NEW vis, NEW hp, NEW orig, NEW final, NEW v, v = finish(vis, hp, orig, final),
         NEW m \in DOMAIN v \ DOMAIN vis
  PROVE  m = final /\ finish_changed(vis, hp, orig, final)
  <1> DEFINE new == IF final # Null /\ Differs(hp, orig, final)
                    THEN {final} \ DOMAIN vis ELSE {}
  <1>1. DOMAIN v = DOMAIN vis \cup new BY DEF finish
  <1>2. m \in new BY <1>1
  <1> QED BY <1>2 DEF finish_changed

\* What finish is called with at the end of a visit.
FinishedWith(f, vis, hp, fin, changed, ret, v1, v, h) ==
  /\ h \in Nat /\ VisTyped(vis, h)
  /\ changed = finish_changed(vis, hp, f.n, fin)
  /\ ret = IF changed THEN fin ELSE f.n
  /\ v1 = finish(vis, hp, f.n, fin)
  /\ v = IF f.extra THEN finish(v1, hp, f.pre, fin) ELSE v1
  /\ f.n \in DOMAIN vis /\ (Once(pass) => vis[f.n].result = f.n)
  /\ f.extra => f.pre \in DOMAIN vis /\ f.pre # f.n
  /\ changed \/ f.extra => fin \in 0..h
  /\ Once(pass) /\ f.extra =>
       changed \/ fin \in DOMAIN vis \/ Differs(hp, f.pre, fin)

\* What is done afterwards was done before, or has what the visit ended with.
LEMMA EndResults ==
  ASSUME Settled(pass), NEW f, NEW vis, NEW hp, NEW fin, NEW changed, NEW ret, NEW v1,
         NEW v, NEW h, FinishedWith(f, vis, hp, fin, changed, ret, v1, v, h)
  PROVE  \A m : IsDone(v, m) => \/ IsDone(vis, m) /\ v[m].result = vis[m].result
                                \/ v[m].result \in Outcome(f, ret, fin)
  <1>0. /\ h \in Nat /\ VisTyped(vis, h)
        /\ changed = finish_changed(vis, hp, f.n, fin)
        /\ ret = IF changed THEN fin ELSE f.n
        /\ v1 = finish(vis, hp, f.n, fin)
        /\ v = IF f.extra THEN finish(v1, hp, f.pre, fin) ELSE v1
        /\ f.n \in DOMAIN vis /\ (Once(pass) => vis[f.n].result = f.n)
        /\ f.extra => f.pre \in DOMAIN vis /\ f.pre # f.n
        /\ changed \/ f.extra => fin \in 0..h
        /\ Once(pass) /\ f.extra =>
             changed \/ fin \in DOMAIN vis \/ Differs(hp, f.pre, fin)
    BY DEF FinishedWith
  <1>1. PICK n : n = f.n OBVIOUS
  <1>2. FinishOf(vis, n, fin, changed, v1) /\ VisTyped(v1, h) BY <1>0, <1>1, FinishIs
  <1>3. v1[n].result = ret
    <2>1. pass.forceClone => changed BY <1>0, <1>1 DEF finish_changed, Differs
    <2> QED BY <1>0, <1>1, <1>2, <2>1 DEF FinishOf, Settled
  <1>4. ASSUME NEW m \in DOMAIN v1
        PROVE  v1[m].result = ret \/ (m \in DOMAIN vis /\ m # n /\ v1[m] = vis[m])
    <2>1. CASE m \in DOMAIN vis BY <1>2, <1>3, <2>1 DEF FinishOf
    <2>2. CASE m \notin DOMAIN vis
      <3>1. m = fin /\ changed BY <1>0, <1>1, <2>2, EntersChanged
      <3>2. v1[m].result = m BY <1>2, <2>2 DEF FinishOf
      <3> QED BY <1>0, <3>1, <3>2
    <2> QED BY <2>1, <2>2
  <1>5. CASE ~f.extra
    <2>1. v = v1 BY <1>0, <1>5
    <2> QED BY <1>4, <2>1 DEF IsDone, Outcome
  <1>6. CASE f.extra
    <2>1. PICK q : q = f.pre OBVIOUS
    <2>2. v = finish(v1, hp, q, fin) BY <1>0, <1>6, <2>1
    <2>3. q \in DOMAIN v1 BY <1>0, <1>2, <1>6, <2>1 DEF FinishOf
    <2>4. PICK changed2 : changed2 = finish_changed(v1, hp, q, fin) OBVIOUS
    <2>5. FinishOf(v1, q, fin, changed2, v)
      <3>1. h \in Nat /\ fin \in 0..h BY <1>0, <1>6
      <3> QED BY <1>2, <2>2, <2>3, <2>4, <3>1, FinishIs
    <2>6. changed2
      <3>1. pass.forceClone => changed2 BY <2>4 DEF finish_changed, Differs
      <3>2. fin = Null \/ fin \in DOMAIN v1 \/ Differs(hp, q, fin) => changed2
        BY <2>4 DEF finish_changed
      <3>3. Once(pass) => changed \/ fin \in DOMAIN vis \/ Differs(hp, q, fin)
        BY <1>0, <1>6, <2>1
      <3>4. changed => fin = Null \/ fin \in DOMAIN v1 BY <1>2 DEF FinishOf
      <3>5. DOMAIN vis \subseteq DOMAIN v1 BY <1>2 DEF FinishOf
      <3> QED BY <3>1, <3>2, <3>3, <3>4, <3>5 DEF Settled
    <2>7. fin \in Outcome(f, ret, fin) /\ ret \in Outcome(f, ret, fin)
      BY <1>6 DEF Outcome
    <2>8. ASSUME NEW m, IsDone(v, m)
          PROVE  \/ IsDone(vis, m) /\ v[m].result = vis[m].result
                 \/ v[m].result \in Outcome(f, ret, fin)
      <3>1. CASE m \in DOMAIN v1 /\ m # q
        <4>1. v[m] = v1[m] BY <2>5, <3>1 DEF FinishOf
        <4> QED BY <1>4, <2>7, <2>8, <3>1, <4>1 DEF IsDone
      <3>2. CASE m = q
        <4>1. v[m].result = fin BY <2>5, <2>6, <3>2 DEF FinishOf
        <4> QED BY <2>7, <4>1
      <3>3. CASE m \notin DOMAIN v1
        <4>1. m \in DOMAIN v BY <2>8 DEF IsDone
        <4>2. m = fin /\ v[m].result = m BY <2>5, <3>3, <4>1 DEF FinishOf
        <4> QED BY <2>7, <4>2
      <3> QED BY <3>1, <3>2, <3>3
    <2> QED BY <2>8
  <1> QED BY <1>5, <1>6

\* The tracker at the end of a visit: no more is done than before.
LEMMA DoneAtEnd ==
  ASSUME IInv, NEW f, NEW vis, NEW final, NEW hp, Ends(f, vis, final, hp)
  PROVE  \A m : IsDone(vis, m) => IsDone(visited, m) /\ vis[m] = visited[m]
  <1>1. stack # << >> BY DEF Ends
  <1>2. /\ top \in Frames /\ FrameOK(top, Len(heap)) /\ Len(heap) \in Nat
        /\ TrackerFits(pass, visited, HeldBy(stack), Len(heap), last, {})
        /\ HeldBy(stack) = Held(top) \cup HeldBy(Tail(stack))
    BY <1>1, TopFits DEF IInv, VisitOK, Shape
  <1>3. CASE vis = visited BY <1>3
  <1>4. CASE /\ top.pre > Null
             /\ vis = try_start(visited, top.pre, visited[top.n].once)
    <2>1. PICK h, n, once : h = Len(heap) /\ n = top.pre /\ once = visited[top.n].once
      OBVIOUS
    <2>2. top.n \in DOMAIN visited BY <1>2 DEF TrackerFits, BusyAre, Held
    <2>3. VisTyped(visited, h) /\ once \in BOOLEAN
      BY <1>2, <2>1, <2>2 DEF TrackerFits, VisTyped
    <2>4. n \in 1..h /\ h \in Nat BY <1>2, <1>4, <2>1 DEF FrameOK, Null, Self
    <2>5. vis = try_start(visited, n, once) BY <1>4, <2>1
    <2> QED BY <2>3, <2>4, <2>5, TryDone
  <1> QED BY <1>3, <1>4 DEF Ends, Prunes, Replaces, PostorderLeaves

\* What apply_visitor leaves behind when it returns.
EndsWith(f, vis, final, hp, fin, ret) ==
  /\ fin = FinOf(f, final, hp)
  /\ ret = IF finish_changed(vis, hp, f.n, fin) THEN fin ELSE f.n
  /\ heap' = HeapOf(f, final, hp, fin, finish_changed(vis, hp, f.n, fin))
  /\ last' = Put(IF f.extra THEN Put(last, f.pre, fin) ELSE last, f.n, ret)
  /\ Grown(heap, heap') /\ Outcome(f, ret, fin) \subseteq 0..Len(heap')
  /\ UsesOnly(Outcome(f, ret, fin))
  /\ stack' = Resume(Tail(stack), ret)
  /\ DOMAIN last' = DOMAIN last \cup Held(f)
  /\ Once(pass) /\ stack' # << >> =>
       \A a : IsDone(visited, a) \/ a \in Held(f) => IsDone(visited', a)
  /\ stack' # << >> => DOMAIN visited \subseteq DOMAIN visited'

\* The end of every visit is of this form.
LEMMA EndUse ==
  ASSUME IInv, Settled(pass), NEW f, NEW vis, NEW final, NEW hp, Ends(f, vis, final, hp)
  PROVE  \E fin, ret : EndsWith(f, vis, final, hp, fin, ret)
  <1>1. PICK fin : fin = FinOf(f, final, hp) OBVIOUS
  <1>2. PICK changed \in BOOLEAN : changed = finish_changed(vis, hp, f.n, fin)
    BY DEF finish_changed, Differs
  <1>3. PICK ret, v1, rest : /\ ret = (IF changed THEN fin ELSE f.n)
                             /\ v1 = finish(vis, hp, f.n, fin)
                             /\ rest = Tail(stack)
    OBVIOUS
  <1>4. PICK v : v = (IF f.extra THEN finish(v1, hp, f.pre, fin) ELSE v1) OBVIOUS
  <1>5. PICK hp2 : hp2 = HeapOf(f, final, hp, fin, changed) OBVIOUS
  <1>6. PICK lst : lst = Put(IF f.extra THEN Put(last, f.pre, fin) ELSE last, f.n, ret)
    OBVIOUS
  <1>7. /\ Ending(f, vis, final, hp) /\ EndVisit(f, vis, final, hp) /\ stack # << >>
        /\ f.extra \in BOOLEAN
    BY DEF Ends, Ending
  <1>8. /\ heap' = hp2 /\ last' = lst
        /\ stack' = Resume(rest, ret)
        /\ returned' = (IF rest = << >> THEN ret ELSE returned)
        /\ rest = << >> => visited' = << >>
        /\ rest # << >> => visited' = v
    BY <1>1, <1>2, <1>3, <1>4, <1>5, <1>6, <1>7 DEF EndVisit, FinOf, HeapOf
  <1>9. FinalOK(f, vis, hp, fin, changed, hp2)
    BY <1>1, <1>2, <1>5, <1>7, FinalNode, Zenon
  <1>10. EndedOK(f, ret, hp2, lst, v)
    <2>1. EndValues(f, vis, final, hp, fin, changed, ret, hp2, lst, v1, v)
      BY <1>1, <1>2, <1>3, <1>4, <1>5, <1>6 DEF EndValues
    <2> QED BY <1>7, <2>1, EndTracker, Zenon
  <1>11. Grown(heap, hp2) /\ Outcome(f, ret, fin) \subseteq 0..Len(hp2)
    BY <1>9, <1>10 DEF FinalOK, EndedOK, Outcome
  <1>12. /\ rest \in Seq(Frames) /\ stack \in Seq(Frames)
         /\ HasAny(stack) = Has(stack[1]) \cup HasAny(rest) /\ Atop(top, rest)
    BY <1>3, <1>7, TopFits, HasRest
  <1>13. HasAny(stack') \subseteq HasAny(stack) \cup {ret}
    <2>1. CASE rest = << >>
      <3>1. DOMAIN (stack') = {} BY <1>8, <2>1 DEF Resume
      <3> QED BY <3>1 DEF HasAny
    <2>2. CASE rest # << >>
      <3>1. PICK q : q = rest[1] OBVIOUS
      <3>2. Waiting(q) /\ q \in Frames /\ q = Head(rest) /\ Tail(rest) \in Seq(Frames)
        BY <1>12, <2>2, <3>1, TopAndRest DEF Atop, Linked
      <3>3. ret \in Nat BY <1>10, <1>11 DEF EndedOK, Grown
      <3>4. PICK g : g = Resumed(q, ret) OBVIOUS
      <3>5. g \in Frames /\ Has(g) \subseteq Has(q) \cup {ret}
        BY <3>2, <3>3, <3>4, HasResumed
      <3>6. stack' = Pushed(g, Tail(rest)) BY <1>8, <2>2, <3>2, <3>4, ResumeIs DEF Pushed
      <3>7. HasAny(stack') = Has(g) \cup HasAny(Tail(rest)) BY <3>2, <3>5, <3>6, HasFront
      <3>8. HasAny(rest) = Has(q) \cup HasAny(Tail(rest)) BY <1>12, <2>2, <3>1, HasRest
      <3> QED BY <1>12, <3>5, <3>7, <3>8
    <2> QED BY <2>1, <2>2
  <1>14. Results(visited') \subseteq Results(visited) \cup Outcome(f, ret, fin)
    <2>1. CASE rest = << >>
      <3>1. DOMAIN (visited') = {} BY <1>8, <2>1
      <3> QED BY <3>1 DEF Results
    <2>2. CASE rest # << >>
      <3>1. /\ TrackerFits(pass, vis, Held(f) \cup HeldBy(rest), Len(heap), last, {})
            /\ f.extra => f.pre # f.n
        BY <1>3, <1>7 DEF Ending
      <3>2. VisTyped(vis, Len(heap)) /\ Len(heap) \in Nat
        BY <3>1 DEF TrackerFits, IInv, VisitOK, Shape
      <3>3. /\ f.n \in DOMAIN vis /\ vis[f.n].busy
            /\ f.extra => f.pre \in DOMAIN vis
        BY <3>1 DEF TrackerFits, BusyAre, Held
      <3>4. Once(pass) => vis[f.n].result = f.n
        BY <3>1, <3>3 DEF TrackerFits, Plainly, Once
      <3>5. PICK h \in Nat : h = Len(hp2) BY <1>9 DEF FinalOK, Grown
      <3>6. VisTyped(vis, h)
        <4>1. Len(heap) <= h BY <1>11, <3>5 DEF Grown
        <4>2. 0..Len(heap) \subseteq 0..h /\ 1..Len(heap) \subseteq 1..h
          BY <3>2, <4>1
        <4>3. ASSUME NEW n \in DOMAIN vis
              PROVE  vis[n] \in [busy : BOOLEAN, once : BOOLEAN, result : 0..h]
          BY <3>2, <4>2 DEF VisTyped
        <4> QED BY <3>2, <4>2, <4>3 DEF VisTyped
      <3>7. changed \/ f.extra => fin \in 0..h BY <1>9, <3>5 DEF FinalOK
      <3>8. Once(pass) /\ f.extra =>
              changed \/ fin \in DOMAIN vis \/ Differs(hp, f.pre, fin)
        BY <1>9 DEF FinalOK
      <3>9. \A m : IsDone(v, m) => \/ IsDone(vis, m) /\ v[m].result = vis[m].result
                                   \/ v[m].result \in Outcome(f, ret, fin)
        <4>1. FinishedWith(f, vis, hp, fin, changed, ret, v1, v, h)
          BY <1>2, <1>3, <1>4, <3>1, <3>3, <3>4, <3>6, <3>7, <3>8 DEF FinishedWith
        <4> QED BY <4>1, EndResults
      <3>10. \A m : IsDone(vis, m) => IsDone(visited, m) /\ vis[m] = visited[m]
        BY DoneAtEnd
      <3>11. ASSUME NEW x \in Results(v)
             PROVE  x \in Results(visited) \cup Outcome(f, ret, fin)
        <4>1. PICK m : IsDone(v, m) /\ x = v[m].result BY <3>11, ResultsAre
        <4> QED BY <3>9, <3>10, <4>1, ResultsAre
      <3> QED BY <1>8, <2>2, <3>11
    <2> QED BY <2>1, <2>2
  <1>15. UsesOnly(Outcome(f, ret, fin))
    <2>1. ret \in Outcome(f, ret, fin) BY DEF Outcome
    <2> QED BY <1>8, <1>13, <1>14, <2>1 DEF UsesOnly, InUse
  <1>16. ASSUME Once(pass), stack' # << >>, NEW a, IsDone(visited, a) \/ a \in Held(f)
         PROVE  IsDone(visited', a)
    <2>1. visited' = v BY <1>8, <1>16 DEF Resume
    <2>2. CASE IsDone(visited, a) BY <1>10, <1>16, <2>1, <2>2 DEF EndedOK, DoneKept
    <2>3. CASE a \in Held(f)
      <3>1. a \in DOMAIN v /\ (a \notin HeldBy(Tail(stack)) => ~v[a].busy)
        BY <1>10, <1>16, <2>3 DEF EndedOK, TrackerFits, Agrees, BusyAre
      <3>2. a \notin HeldBy(Tail(stack)) BY <1>7, <2>3 DEF Ending, Held
      <3> QED BY <2>1, <3>1, <3>2 DEF IsDone
    <2> QED BY <1>16, <2>2, <2>3
  <1>17. DOMAIN last' = DOMAIN last \cup Held(f) BY <1>8, <1>10 DEF EndedOK
  <1>18. ASSUME stack' # << >> PROVE DOMAIN visited \subseteq DOMAIN visited'
    <2>1. visited' = v BY <1>8, <1>18 DEF Resume
    <2>2. DOMAIN visited \subseteq DOMAIN vis
      BY DEF Ends, Prunes, Replaces, PostorderLeaves, try_start
    <2>3. DOMAIN vis \subseteq DOMAIN v1 BY <1>3 DEF finish
    <2>4. DOMAIN v1 \subseteq DOMAIN v BY <1>4 DEF finish
    <2> QED BY <2>1, <2>2, <2>3, <2>4
  <1>19. EndsWith(f, vis, final, hp, fin, ret)
    BY <1>1, <1>2, <1>3, <1>5, <1>6, <1>8, <1>11, <1>15, <1>16, <1>17, <1>18
    DEF EndsWith
  <1> QED BY <1>19

\* What is noted of the pass when a visit ends.
LEMMA DidAtEnd ==
  ASSUME IInv, NEW f, NEW vis, NEW final, NEW hp, Ends(f, vis, final, hp)
  PROVE  /\ did'.pre = did.pre /\ did.cut \subseteq did'.cut
         /\ ~PostorderLeaves(f, vis, final, hp) => did'.post = did.post
         /\ \A op, arg : PostorderDoes(op, arg, final, hp) =>
              did'.post = Put(did.post, object(top), <<op, arg>>)
  <1>1. PICK d : d = did OBVIOUS
  <1>2. DOMAIN d = {"pre", "post", "cut"} BY <1>1 DEF IInv, VisitOK, Shape
  <1>3. ASSUME Prunes(f, vis, final, hp)
        PROVE  did'.pre = did.pre /\ did.cut \subseteq did'.cut /\ did'.post = did.post
    <2>1. PICK C : C = did.cut \cup {f.n, last'[f.n]} OBVIOUS
    <2>2. did' = [d EXCEPT !.cut = C] BY <1>1, <1>3, <2>1 DEF Prunes
    <2>3. [d EXCEPT !.cut = C].cut = C /\ [d EXCEPT !.cut = C].pre = d.pre
          /\ [d EXCEPT !.cut = C].post = d.post
      BY <1>2
    <2> QED BY <1>1, <2>1, <2>2, <2>3
  <1>4. ASSUME Replaces(f, vis, final, hp)
        PROVE  did'.pre = did.pre /\ did.cut \subseteq did'.cut /\ did'.post = did.post
    BY <1>4 DEF Replaces
  <1>5. ASSUME NEW op, NEW arg, PostorderDoes(op, arg, final, hp)
        PROVE  /\ did'.pre = did.pre /\ did.cut \subseteq did'.cut
               /\ did'.post = Put(did.post, object(top), <<op, arg>>)
    <2>1. PICK P : P = Put(did.post, object(top), <<op, arg>>) OBVIOUS
    <2>2. did' = [d EXCEPT !.post = P] BY <1>1, <1>5, <2>1 DEF PostorderDoes
    <2>3. [d EXCEPT !.post = P].cut = d.cut /\ [d EXCEPT !.post = P].pre = d.pre
          /\ [d EXCEPT !.post = P].post = P
      BY <1>2
    <2> QED BY <1>1, <2>1, <2>2, <2>3
  <1> QED BY <1>3, <1>4, <1>5 DEF Ends, PostorderLeaves

-----------------------------------------------------------------------------
(***************************************************************************)
(* A set of nodes that holds what is in use, and is closed under children  *)
(* but for the nodes where the pass pruned.                                *)
(***************************************************************************)
KeptIn(G) ==
  /\ G \subseteq Address
  /\ \A a \in G \ did.cut :
       \A i \in DOMAIN heap[a].kids : heap[a].kids[i] \in G \cup {Null}
  /\ InUse(visited, stack, returned) \subseteq G \cup {Null}

\* A node that may be added to G.
Safe(G, x, hp, cut) ==
  \/ x \in G \cup {Null} \/ x \in cut
  \/ \A i \in DOMAIN hp[x].kids : hp[x].kids[i] \in G \cup {Null}

\* It is known to be, or was started with this visit, or is new.
Known(G, f, x) == x \in G \cup {Null} \/ (f.extra /\ x = f.pre) \/ x \notin Address

OutcomeSafe(G, f, ret, fin) ==
  /\ Known(G, f, fin)
  /\ \A x \in Outcome(f, ret, fin) : Safe(G, x, heap', did'.cut)

\* A preorder that pruned: the nodes the visit ends with are noted.
LEMMA SafePruned ==
  ASSUME IInv, NEW G, NEW f, NEW vis, NEW final, NEW hp, Ends(f, vis, final, hp),
         Prunes(f, vis, final, hp), NEW fin, NEW ret,
         EndsWith(f, vis, final, hp, fin, ret)
  PROVE  OutcomeSafe(G, f, ret, fin)
  <1>1. did'.cut = did.cut \cup {f.n, last'[f.n]}
    <2>1. PICK C, d : C = did.cut \cup {f.n, last'[f.n]} /\ d = did OBVIOUS
    <2>2. did' = [d EXCEPT !.cut = C] BY <2>1 DEF Prunes
    <2>3. "cut" \in DOMAIN d BY <2>1 DEF IInv, VisitOK, Shape
    <2>4. [d EXCEPT !.cut = C].cut = C BY <2>3
    <2> QED BY <2>1, <2>2, <2>4
  <1>2. last'[f.n] = ret
    <2>1. PICK g, n : g = (IF f.extra THEN Put(last, f.pre, fin) ELSE last) /\ n = f.n
      OBVIOUS
    <2>2. last' = Put(g, n, ret) BY <2>1 DEF EndsWith
    <2>3. Put(g, n, ret)[n] = ret BY DEF Put
    <2> QED BY <2>1, <2>2, <2>3
  <1>3. \A x \in Outcome(f, ret, fin) : x = ret
    <2>1. CASE ~f.extra BY <2>1 DEF Outcome
    <2>2. CASE f.extra
      <3>1. hp = heap /\ final = f.pre
        <4>1. f = [top EXCEPT !.extra = TRUE] /\ hp = heap /\ final = top.pre
          BY <2>2 DEF Prunes
        <4>2. f.pre = top.pre
          <5>1. top \in Frames BY TopFits DEF Ends
          <5> QED BY <4>1, <5>1 DEF Frames
        <4> QED BY <4>1, <4>2
      <3>2. Len(heap) \in Nat BY DEF IInv, VisitOK, Shape
      <3>3. fin = f.pre BY <3>1, <3>2 DEF EndsWith, FinOf
      <3>4. f.pre \in DOMAIN vis
        <4>1. TrackerFits(pass, vis, Held(f) \cup HeldBy(Tail(stack)), Len(heap), last, {})
          BY DEF Ends, Ending
        <4> QED BY <2>2, <4>1 DEF TrackerFits, BusyAre, Held
      <3>5. finish_changed(vis, hp, f.n, fin) BY <3>3, <3>4 DEF finish_changed
      <3>6. ret = fin BY <3>5 DEF EndsWith
      <3> QED BY <3>6 DEF Outcome
    <2> QED BY <2>1, <2>2 DEF Ends, Ending
  <1>4. Known(G, f, fin)
    <2>1. heap \in Seq(AnyContent) /\ Len(heap) \in Nat /\ top \in Frames
      BY TopFits DEF IInv, VisitOK, Shape, Ends
    <2>2. CASE ~f.extra /\ final = Len(heap) + 1
      <3>1. fin = final BY <2>2 DEF EndsWith, FinOf
      <3> QED BY <2>1, <2>2, <3>1 DEF Known, Address
    <2>3. CASE f = [top EXCEPT !.extra = TRUE] /\ final = top.pre /\ hp = heap
      <3>1. f.extra /\ f.pre = top.pre BY <2>1, <2>3 DEF Frames
      <3>2. fin = final BY <2>1, <2>3 DEF EndsWith, FinOf
      <3> QED BY <2>3, <3>1, <3>2 DEF Known
    <2> QED BY <2>2, <2>3 DEF Prunes
  <1> QED BY <1>1, <1>2, <1>3, <1>4 DEF OutcomeSafe, Safe

\* A preorder that returned null or a node that is done.
LEMMA SafeReplaced ==
  ASSUME IInv, Settled(pass), NEW G, KeptIn(G), NEW f, NEW vis, NEW final, NEW hp,
         Ends(f, vis, final, hp), Replaces(f, vis, final, hp), NEW fin, NEW ret,
         EndsWith(f, vis, final, hp, fin, ret)
  PROVE  OutcomeSafe(G, f, ret, fin)
  <1>1. /\ did' = did /\ vis = visited /\ ~f.extra /\ hp = heap /\ Len(heap) \in Nat
        /\ stack # << >>
    BY DEF Replaces, IInv, VisitOK, Shape, Ends
  <1>2. fin = final BY <1>1 DEF EndsWith, FinOf
  <1>3. final \in G \cup {Null} /\ finish_changed(vis, hp, f.n, final)
    <2>1. CASE final = Null BY <2>1 DEF finish_changed
    <2>2. CASE Status(top.pre) = "Done" /\ final = visited[top.pre].result
      <3>1. TrackerFits(pass, visited, HeldBy(stack), Len(heap), last, {}) BY <1>1, TopFits
      <3>2. IsDone(visited, top.pre) BY <1>1, <2>2, <3>1, StatusIs DEF TrackerFits
      <3>3. final \in G \cup {Null}
        <4>1. final \in Results(visited) BY <2>2, <3>2, ResultsAre
        <4> QED BY <4>1 DEF KeptIn, InUse
      <3>4. Once(pass) => final = Null \/ IsDone(visited, final)
        BY <1>1, <2>2, <3>1, DoneIs DEF DoneNode
      <3> QED BY <1>1, <3>3, <3>4 DEF finish_changed, Differs, Settled, IsDone
    <2> QED BY <2>1, <2>2 DEF Replaces
  <1>4. ret = final BY <1>2, <1>3 DEF EndsWith
  <1> QED BY <1>1, <1>2, <1>3, <1>4 DEF OutcomeSafe, Safe, Outcome, Known

\* A postorder: it kept the clone, whose children are in use, or returned one of
\* them or null.
LEMMA SafePostorder ==
  ASSUME IInv, Settled(pass), NoOther(pass), NEW G, KeptIn(G),
         NEW f, NEW vis, NEW final, NEW hp, Ends(f, vis, final, hp),
         PostorderLeaves(f, vis, final, hp), NEW fin, NEW ret,
         EndsWith(f, vis, final, hp, fin, ret)
  PROVE  OutcomeSafe(G, f, ret, fin)
  <1>0. PICK op, arg : op \in pass.post /\ PostorderDoes(op, arg, final, hp)
    BY DEF PostorderLeaves
  <1>1. \/ /\ op \in {"keep", "edit"} /\ final = Len(heap) + 1
           /\ \E c \in AnyContent : hp = Append(heap, c) /\ c.kids = top.copy.kids
        \/ op = "null" /\ final = Null /\ hp = heap
        \/ /\ op = "kid" /\ hp = heap
           /\ \E i \in DOMAIN top.copy.kids : final = top.copy.kids[i]
        \/ op = "other" /\ hp = heap
    BY <1>0 DEF PostorderDoes
  <1>2. /\ f = top /\ vis = visited /\ top.phase = "kids" /\ top.idx > Len(top.copy.kids)
        /\ stack # << >> /\ heap \in Seq(AnyContent) /\ Len(heap) \in Nat
        /\ op # "other"
    BY <1>0 DEF PostorderLeaves, Ends, IInv, VisitOK, Shape, NoOther
  <1>3. /\ top = stack[1] /\ top \in Frames /\ stack \in Seq(Frames)
        /\ FrameFits(pass, top, prune_flag, visited, heap, DOMAIN last)
        /\ FrameOK(top, Len(heap))
        /\ TrackerFits(pass, visited, HeldBy(stack), Len(heap), last, {})
    BY <1>2, TopFits DEF IInv, VisitOK, Shape
  <1>4. ASSUME NEW i \in DOMAIN top.copy.kids
        PROVE  /\ top.copy.kids[i] \in G \cup {Null} /\ i < top.idx
               /\ Once(pass) => top.copy.kids[i] = Null \/ IsDone(visited, top.copy.kids[i])
    <2>1. top.copy.kids \in Seq(Nat) /\ top.idx \in Nat BY <1>3 DEF Frames, AnyContent
    <2>2. i < top.idx BY <1>2, <2>1
    <2>3. top.copy.kids[i] \in Has(top) BY <1>2, <2>2 DEF Has
    <2>4. top.copy.kids[i] \in HasAny(stack) BY <1>2, <1>3, <2>3, HasRest
    <2>5. Once(pass) => top.copy.kids[i] = Null \/ IsDone(visited, top.copy.kids[i])
      BY <1>2, <1>3, <2>2 DEF FrameFits, OnceOK
    <2> QED BY <2>2, <2>4, <2>5 DEF KeptIn, InUse
  <1>5. CASE op \in {"keep", "edit"}
    <2>1. PICK c \in AnyContent : hp = Append(heap, c) /\ c.kids = top.copy.kids
      BY <1>1, <1>5
    <2>2. final = Len(heap) + 1 BY <1>1, <1>5
    <2>3. /\ Len(hp) = Len(heap) + 1 /\ hp[final] = c /\ hp \in Seq(AnyContent)
          /\ \A a \in 1..Len(heap) : hp[a] = heap[a]
      BY <1>2, <2>1, <2>2
    <2>4. hp[fin] = c
      <3>1. CASE fin = final BY <2>3, <3>1
      <3>2. CASE fin # final
        <4>1. fin = top.pre /\ top.extra /\ hp[final] = heap[top.pre]
          BY <1>2, <3>2 DEF EndsWith, FinOf
        <4>2. top.pre \in 1..Len(heap) BY <1>3, <4>1 DEF FrameOK
        <4> QED BY <2>3, <4>1, <4>2
      <3> QED BY <3>1, <3>2
    <2>5. hp[ret] = c
      <3>1. CASE ret = fin BY <2>4, <3>1
      <3>2. CASE ret # fin
        <4>1. ret = f.n /\ ~finish_changed(vis, hp, f.n, fin) BY <3>2 DEF EndsWith
        <4> QED BY <2>4, <3>2, <4>1 DEF finish_changed, Differs
      <3> QED BY <3>1, <3>2
    <2>6. ASSUME NEW x \in Outcome(f, ret, fin), x # Null PROVE heap'[x] = c
      <3>1. hp[x] = c BY <2>4, <2>5 DEF Outcome
      <3>2. x \in 1..Len(heap') BY <2>6 DEF EndsWith, Grown, Null
      <3>3. CASE heap' = hp BY <3>1, <3>3
      <3>4. CASE heap' = heap BY <2>3, <3>1, <3>2, <3>4
      <3> QED BY <3>3, <3>4 DEF EndsWith, HeapOf
    <2>7. \A x \in Outcome(f, ret, fin) : Safe(G, x, heap', did'.cut)
      <3> TAKE x \in Outcome(f, ret, fin)
      <3>1. CASE x = Null BY <3>1 DEF Safe
      <3>2. CASE x # Null
        <4>1. heap'[x].kids = top.copy.kids BY <2>1, <2>6, <3>2
        <4> QED BY <1>4, <4>1 DEF Safe
      <3> QED BY <3>1, <3>2
    <2>8. Known(G, f, fin)
      <3>1. fin = final \/ (fin = f.pre /\ f.extra) BY <1>2 DEF EndsWith, FinOf
      <3>2. final \notin Address BY <1>2, <2>2 DEF Address
      <3> QED BY <3>1, <3>2 DEF Known
    <2> QED BY <2>7, <2>8 DEF OutcomeSafe
  <1>6. CASE op \in {"null", "kid"}
    <2>1. hp = heap /\ fin = final BY <1>1, <1>2, <1>6 DEF EndsWith, FinOf
    <2>2. final \in G \cup {Null} BY <1>1, <1>4, <1>6
    <2>3. finish_changed(vis, hp, f.n, final)
      <3>1. Once(pass) => final = Null \/ IsDone(visited, final) BY <1>1, <1>4, <1>6
      <3> QED BY <1>2, <3>1 DEF finish_changed, Differs, Settled, IsDone
    <2>4. ret = final BY <2>1, <2>3 DEF EndsWith
    <2> QED BY <2>1, <2>2, <2>4 DEF OutcomeSafe, Safe, Outcome, Known
  <1> QED BY <1>1, <1>2, <1>5, <1>6

\* So the nodes a visit ends with may be added.
LEMMA EndSafe ==
  ASSUME IInv, Settled(pass), NoOther(pass), NEW G, KeptIn(G),
         NEW f, NEW vis, NEW final, NEW hp, Ends(f, vis, final, hp), NEW fin, NEW ret,
         EndsWith(f, vis, final, hp, fin, ret)
  PROVE  OutcomeSafe(G, f, ret, fin)
  <1>1. CASE Prunes(f, vis, final, hp) BY <1>1, SafePruned
  <1>2. CASE Replaces(f, vis, final, hp) BY <1>2, SafeReplaced
  <1>3. CASE PostorderLeaves(f, vis, final, hp) BY <1>3, SafePostorder
  <1> QED BY <1>1, <1>2, <1>3 DEF Ends

\* A closed set that holds what is in use now, and may be added to.
LEMMA KeptAfter ==
  ASSUME IInv, NEW G, KeptIn(G), Grown(heap, heap'), NEW S,
         UsesOnly(S), S \subseteq 0..Len(heap'), did.cut \subseteq did'.cut,
         \A x \in S : Safe(G, x, heap', did'.cut),
         NEW H, H = (G \cup S) \ {Null}
  PROVE  KeptIn(H)'
  <1>1. /\ heap \in Seq(AnyContent) /\ heap' \in Seq(AnyContent) /\ Len(heap) <= Len(heap')
        /\ DOMAIN heap = 1..Len(heap) /\ Len(heap) \in Nat
        /\ DOMAIN (heap') = 1..Len(heap') /\ Len(heap') \in Nat
        /\ \A a \in 1..Len(heap) : heap'[a] = heap[a]
    BY DEF Grown, IInv, VisitOK, Shape
  <1>2. G \subseteq 1..Len(heap) BY <1>1 DEF KeptIn, Address
  <1>3. H \subseteq 1..Len(heap') BY <1>1, <1>2 DEF Null
  <1>4. ASSUME NEW a \in H \ did'.cut, NEW i \in DOMAIN heap'[a].kids
        PROVE  heap'[a].kids[i] \in H \cup {Null}
    <2>1. CASE a \in G
      <3>1. heap'[a] = heap[a] /\ a \notin did.cut BY <1>1, <1>2, <1>4, <2>1
      <3>2. heap[a].kids[i] \in G \cup {Null} BY <1>4, <2>1, <3>1 DEF KeptIn
      <3> QED BY <3>1, <3>2
    <2>2. CASE a \notin G
      <3>1. a \in S /\ a # Null BY <2>2
      <3>2. \A j \in DOMAIN heap'[a].kids : heap'[a].kids[j] \in G \cup {Null}
        BY <1>4, <2>2, <3>1 DEF Safe
      <3> QED BY <3>2
    <2> QED BY <2>1, <2>2
  <1>5. InUse(visited', stack', returned') \subseteq H \cup {Null}
    BY DEF UsesOnly, KeptIn
  <1> QED BY <1>1, <1>3, <1>4, <1>5 DEF KeptIn, Address

-----------------------------------------------------------------------------
(***************************************************************************)
(* Nothing that was replaced is in use.                                    *)
(***************************************************************************)
\* Every step but the end of a visit.
GoesOn ==
  \/ Idles
  \/ \E n : Starts(n)
  \/ \E ret : HandsOn(ret)
  \/ \E g, op : PreorderLeaves(g, op)
  \/ \E g : AtKids(g)

\* What it changes: nodes may be added to the heap, null may be handed on, and
\* what is done stays done.
Carries ==
  /\ pass' = pass /\ last' = last /\ did'.cut = did.cut /\ returned' = returned
  /\ Grown(heap, heap') /\ UsesOnly({Null})
  /\ Once(pass) => \A a : IsDone(visited, a) => IsDone(visited', a)
  /\ stack = << >> => stack' = << >> \/ last = << >>

\* Such a step changes no more than that.
LEMMA GoesOnCarries ==
  ASSUME IInv, GoesOn
  PROVE  Carries
  <1>1. /\ heap \in Seq(AnyContent) /\ Len(heap) \in Nat /\ pass \in Passes
        /\ DOMAIN did = {"pre", "post", "cut"}
        /\ stack = << >> => (returned = Self => last = << >>)
    BY DEF IInv, VisitOK, Shape
  <1>2. Grown(heap, heap) BY <1>1 DEF Grown
  <1>3. UsesOnly({}) => UsesOnly({Null}) BY DEF UsesOnly
  <1>4. CASE Idles
    <2>1. UsesOnly({}) BY <1>4, UsedIdle
    <2> QED BY <1>2, <1>3, <1>4, <2>1 DEF Idles, Carries, Once
  <1>5. ASSUME NEW n, Starts(n) PROVE Carries
    <2>1. UsesOnly({}) BY <1>5, UsedStart
    <2>2. /\ n \in 1..Len(heap) /\ Begin(n) /\ (stack = << >> => returned = Self)
          /\ pass' = pass /\ heap' = heap /\ last' = last /\ did' = did
          /\ returned' = returned
      BY <1>5 DEF Starts
    <2>3. /\ TrackerFits(pass, visited, HeldBy(stack), Len(heap), last, {})
          /\ VisTyped(visited, Len(heap))
      BY <2>2, TrackerAlways
    <2>4. Once(pass) => n \notin DOMAIN visited
      BY <1>1, <2>2, <2>3, BeginIs DEF Begin
    <2>5. PICK v, h, once : v = visited' /\ h = Len(heap) /\ once = pass.visitDagOnce
      OBVIOUS
    <2>6. v = try_start(visited, n, once) /\ once \in BOOLEAN
      BY <1>1, <2>2, <2>5, TransformAssumption DEF Begin
    <2>7. h \in Nat /\ n \in 1..h /\ VisTyped(visited, h) BY <1>1, <2>2, <2>3, <2>5
    <2>8. StartOf(visited, n, once, v) BY <2>6, <2>7, TryStartIs
    <2>9. Once(pass) => \A a : IsDone(visited, a) => IsDone(visited', a)
      BY <2>4, <2>5, <2>8 DEF StartOf, IsDone
    <2> QED BY <1>1, <1>2, <1>3, <2>1, <2>2, <2>9 DEF Carries
  <1>6. ASSUME NEW ret, HandsOn(ret) PROVE Carries
    <2>1. UsesOnly({Null}) BY <1>6, UsedHandedOn
    <2> QED BY <1>2, <1>6, <2>1 DEF HandsOn, Carries
  <1>7. ASSUME NEW g, NEW op, PreorderLeaves(g, op) PROVE Carries
    <2>1. UsesOnly({}) BY <1>7, UsedPreorder
    <2>2. did'.cut = did.cut
      <3>1. PICK arg : DidPre(op, arg) BY <1>7 DEF PreorderLeaves
      <3>2. PICK d, P : d = did /\ P = Put(did.pre, top.n, <<op, arg>>) OBVIOUS
      <3>3. did' = [d EXCEPT !.pre = P] BY <3>1, <3>2 DEF DidPre
      <3>4. "cut" \in DOMAIN d BY <1>1, <3>2
      <3>5. [d EXCEPT !.pre = P].cut = d.cut BY <3>4
      <3> QED BY <3>2, <3>3, <3>5
    <2>3. /\ pass' = pass /\ visited' = visited /\ returned' = returned /\ last' = last
          /\ Grown(heap, heap') /\ stack # << >>
      BY <1>7 DEF PreorderLeaves
    <2> QED BY <1>3, <2>1, <2>2, <2>3 DEF Carries
  <1>8. ASSUME NEW g, AtKids(g) PROVE Carries
    <2>1. UsesOnly({}) BY <1>8, UsedAtKids
    <2>2. /\ pass' = pass /\ heap' = heap /\ last' = last /\ did' = did
          /\ returned' = returned /\ stack # << >>
      BY <1>8 DEF AtKids
    <2>3. /\ TrackerFits(pass, visited, HeldBy(stack), Len(heap), last, {})
          /\ top \in Frames /\ FrameOK(top, Len(heap))
          /\ HeldBy(stack) = Held(top) \cup HeldBy(Tail(stack))
      BY <2>2, TopFits
    <2>4. Once(pass) => \A a : IsDone(visited, a) => IsDone(visited', a)
      <3>1. CASE visited' = visited BY <3>1
      <3>2. CASE /\ top.pre > Null /\ Status(top.pre) \in {"New", "Revisit"}
                 /\ visited' = try_start(visited, top.pre, visited[top.n].once)
        <4>1. PICK v, h, n, once : /\ v = visited' /\ h = Len(heap) /\ n = top.pre
                                   /\ once = visited[top.n].once
          OBVIOUS
        <4>2. top.n \in DOMAIN visited BY <2>3 DEF TrackerFits, BusyAre, Held
        <4>3. VisTyped(visited, h) /\ once \in BOOLEAN
          BY <2>3, <4>1, <4>2 DEF TrackerFits, VisTyped
        <4>4. n \in 1..h /\ h \in Nat BY <1>1, <2>3, <3>2, <4>1 DEF FrameOK, Null, Self
        <4>5. StartOf(visited, n, once, v) BY <3>2, <4>1, <4>3, <4>4, TryStartIs
        <4>6. Once(pass) => n \notin DOMAIN visited
          BY <1>1, <2>3, <3>2, <4>1, <4>4, BeginIs
        <4> QED BY <4>1, <4>5, <4>6 DEF StartOf, IsDone
      <3> QED BY <1>8, <3>1, <3>2 DEF AtKids
    <2> QED BY <1>2, <1>3, <2>1, <2>2, <2>4 DEF Carries
  <1> QED BY <1>4, <1>5, <1>6, <1>7, <1>8 DEF GoesOn

\* What visits have returned.
Given == {last[n] : n \in DOMAIN last} \ {Null}

(***************************************************************************)
(* What visits have returned is closed under children, except where the    *)
(* pass pruned, and what is in use is among it; a node that was returned   *)
(* and visited as well is its own result.                                  *)
(***************************************************************************)
StaleInv ==
  Ordinary =>
    /\ KeptIn(Given)
    /\ \A a \in Given \cap DOMAIN last : last[a] = a
    /\ stack # << >> => \A a \in DOMAIN last : IsDone(visited, a)

\* The passes it is about.
LEMMA OrdinaryIs ==
  ASSUME Ordinary
  PROVE  Once(pass) /\ Uniform(pass) /\ NoOther(pass) /\ Settled(pass)
  BY DEF Ordinary, Once, Uniform, NoOther, Settled

\* At the start nothing is returned or in use.
LEMMA StaleInit ==
  ASSUME Init
  PROVE  StaleInv
  <1>1. visited = << >> /\ stack = << >> /\ last = << >> /\ returned = Self
    BY DEF Init
  <1>2. DOMAIN visited = {} /\ DOMAIN stack = {} /\ DOMAIN last = {} BY <1>1
  <1>3. Given = {} BY <1>2 DEF Given
  <1>4. Results(visited) = {} /\ HasAny(stack) = {} BY <1>2 DEF Results, HasAny
  <1>5. InUse(visited, stack, returned) = {} BY <1>1, <1>4 DEF InUse
  <1> QED BY <1>1, <1>3, <1>5 DEF StaleInv, KeptIn

\* While a visit goes on.
LEMMA StaleGoesOn ==
  ASSUME IInv, StaleInv, GoesOn, Ordinary
  PROVE  StaleInv'
  <1>1. Carries BY GoesOnCarries
  <1>2. /\ pass' = pass /\ last' = last /\ did'.cut = did.cut
        /\ Grown(heap, heap') /\ UsesOnly({Null})
        /\ \A a : IsDone(visited, a) => IsDone(visited', a)
        /\ stack = << >> => stack' = << >> \/ last = << >>
    BY <1>1, OrdinaryIs DEF Carries
  <1>3. Given' = Given BY <1>2 DEF Given
  <1>4. PICK G : G = Given OBVIOUS
  <1>5. KeptIn(G) BY <1>4 DEF StaleInv
  <1>6. Null \notin G BY <1>4 DEF Given
  <1>7. G = (G \cup {Null}) \ {Null} BY <1>6
  <1>8. {Null} \subseteq 0..Len(heap') BY <1>2 DEF Grown, Null
  <1>9. \A x \in {Null} : Safe(G, x, heap', did'.cut) BY DEF Safe
  <1>10. KeptIn(G)' BY <1>2, <1>5, <1>7, <1>8, <1>9, KeptAfter
  <1>11. KeptIn(Given)' BY <1>3, <1>4, <1>10 DEF KeptIn
  <1>12. \A a \in Given' \cap DOMAIN last' : last'[a] = a BY <1>2, <1>3 DEF StaleInv
  <1>13. ASSUME stack' # << >>, NEW a \in DOMAIN last' PROVE IsDone(visited', a)
    <2>1. stack = << >> => DOMAIN last = {} BY <1>2, <1>13
    <2> QED BY <1>2, <1>13, <2>1 DEF StaleInv
  <1> QED BY <1>11, <1>12, <1>13 DEF StaleInv

\* When one ends, the nodes it held are noted, which were not done before.
LEMMA LastAtEnd ==
  ASSUME IInv, StaleInv, Ordinary, NEW f, NEW vis, NEW final, NEW hp,
         Ends(f, vis, final, hp), NEW fin, NEW ret,
         EndsWith(f, vis, final, hp, fin, ret)
  PROVE  /\ \A a : IsDone(visited, a) => a \notin Held(f)
         /\ \A a \in DOMAIN last :
              /\ IsDone(visited, a) /\ visited[a].result = last[a]
              /\ last'[a] = last[a]
         /\ last'[f.n] = ret /\ (f.extra => last'[f.pre] = fin)
         /\ \A a \in DOMAIN last' : a \in DOMAIN last \/ a = f.n \/ (f.extra /\ a = f.pre)
  <1>1. /\ last' = Put(IF f.extra THEN Put(last, f.pre, fin) ELSE last, f.n, ret)
        /\ DOMAIN last' = DOMAIN last \cup Held(f)
    BY DEF EndsWith
  <1>2. /\ stack # << >> /\ f.extra \in BOOLEAN
        /\ f.extra => f.pre # f.n
        /\ BusyAre(vis, Held(f) \cup HeldBy(Tail(stack)))
        /\ DoneKept(pass, visited, vis)
    BY DEF Ends, Ending, TrackerFits
  <1>3. TrackerFits(pass, visited, HeldBy(stack), Len(heap), last, {})
    BY <1>2, TopFits
  <1>4. \A a : IsDone(visited, a) => a \notin Held(f)
    BY <1>2, OrdinaryIs DEF DoneKept, BusyAre, IsDone
  <1>5. \A a \in DOMAIN last : IsDone(visited, a) /\ visited[a].result = last[a]
    BY <1>2, <1>3, OrdinaryIs DEF StaleInv, TrackerFits, Agrees, IsDone
  <1>6. \A a \in DOMAIN last : a \notin Held(f) BY <1>4, <1>5
  <1>7. /\ \A a \in DOMAIN last : last'[a] = last[a]
        /\ last'[f.n] = ret /\ (f.extra => last'[f.pre] = fin)
    BY <1>1, <1>2, <1>6 DEF Put, Held
  <1> QED BY <1>1, <1>4, <1>5, <1>7 DEF Held

\* When one ends.
LEMMA StaleEnds ==
  ASSUME IInv, StaleInv, Ordinary, NEW f, NEW vis, NEW final, NEW hp,
         Ends(f, vis, final, hp)
  PROVE  StaleInv'
  <1>0. Once(pass) /\ NoOther(pass) /\ Settled(pass) BY OrdinaryIs
  <1>1. PICK fin, ret : EndsWith(f, vis, final, hp, fin, ret) BY <1>0, EndUse
  <1>2. /\ ret = f.n \/ ret = fin
        /\ last' = Put(IF f.extra THEN Put(last, f.pre, fin) ELSE last, f.n, ret)
        /\ Grown(heap, heap') /\ Outcome(f, ret, fin) \subseteq 0..Len(heap')
        /\ UsesOnly(Outcome(f, ret, fin))
        /\ DOMAIN last' = DOMAIN last \cup Held(f)
        /\ stack' # << >> =>
             \A a : IsDone(visited, a) \/ a \in Held(f) => IsDone(visited', a)
    BY <1>0, <1>1 DEF EndsWith
  <1>3. /\ stack # << >> /\ f.extra \in BOOLEAN
        /\ f.extra => f.pre # f.n
        /\ BusyAre(vis, Held(f) \cup HeldBy(Tail(stack)))
        /\ DoneKept(pass, visited, vis)
    BY DEF Ends, Ending, TrackerFits
  <1>4. /\ TrackerFits(pass, visited, HeldBy(stack), Len(heap), last, {})
        /\ heap \in Seq(AnyContent) /\ DOMAIN heap = 1..Len(heap) /\ Len(heap) \in Nat
        /\ VisTyped(visited, Len(heap))
    BY <1>3, TopFits DEF IInv, VisitOK, Shape, TrackerFits
  <1>5. /\ \A a : IsDone(visited, a) => a \notin Held(f)
        /\ \A a \in DOMAIN last :
             IsDone(visited, a) /\ visited[a].result = last[a] /\ last'[a] = last[a]
        /\ last'[f.n] = ret /\ (f.extra => last'[f.pre] = fin)
        /\ \A a \in DOMAIN last' : a \in DOMAIN last \/ a = f.n \/ (f.extra /\ a = f.pre)
    BY <1>1, LastAtEnd
  <1>6. PICK G, S : G = Given /\ S = Outcome(f, ret, fin) OBVIOUS
  <1>7. Given' = (G \cup S) \ {Null}
    <2>1. ASSUME NEW x \in Given' PROVE x \in (G \cup S) \ {Null}
      <3>1. PICK n \in DOMAIN last' : x = last'[n] BY <2>1 DEF Given
      <3>2. x # Null BY <2>1 DEF Given
      <3>3. n \in DOMAIN last \/ n = f.n \/ (f.extra /\ n = f.pre) BY <1>5, <3>1
      <3> QED BY <1>5, <1>6, <3>1, <3>2, <3>3 DEF Given, Outcome
    <2>2. ASSUME NEW x \in G \cup S, x # Null PROVE x \in Given'
      <3>1. \E n \in DOMAIN last' : x = last'[n]
        <4>1. CASE x \in G
          <5>1. PICK n \in DOMAIN last : x = last[n] BY <1>6, <4>1 DEF Given
          <5> QED BY <1>2, <1>5, <5>1
        <4>2. CASE x \in S
          <5>1. x = ret \/ (f.extra /\ x = fin) BY <1>6, <4>2 DEF Outcome
          <5> QED BY <1>2, <1>5, <5>1 DEF Held
        <4> QED BY <2>2, <4>1, <4>2
      <3> QED BY <2>2, <3>1 DEF Given
    <2> QED BY <2>1, <2>2
  <1>8. KeptIn(G) BY <1>6 DEF StaleInv
  <1>9. OutcomeSafe(G, f, ret, fin) BY <1>0, <1>1, <1>8, EndSafe
  <1>10. KeptIn(Given)'
    <2>1. PICK H : H = (G \cup S) \ {Null} OBVIOUS
    <2>2. did.cut \subseteq did'.cut /\ \A x \in S : Safe(G, x, heap', did'.cut)
      BY <1>6, <1>9, DidAtEnd DEF OutcomeSafe
    <2>3. UsesOnly(S) /\ S \subseteq 0..Len(heap') BY <1>2, <1>6
    <2>4. KeptIn(H)' BY <1>2, <1>8, <2>1, <2>2, <2>3, KeptAfter
    <2> QED BY <1>7, <2>1, <2>4 DEF KeptIn
  <1>11. \A a \in G : IsDone(visited, a)
    <2> TAKE a \in G
    <2>1. PICK n \in DOMAIN last : a = last[n] /\ a # Null BY <1>6 DEF Given
    <2>2. visited[n].result = a /\ n \in DOMAIN visited /\ ~visited[n].busy
      BY <1>5, <2>1 DEF IsDone
    <2> QED BY <1>0, <1>4, <2>1, <2>2 DEF TrackerFits, Plainly, Once
  <1>12. ASSUME NEW a \in Given' \cap DOMAIN last' PROVE last'[a] = a
    <2>1. a \in (G \cup S) \ {Null} /\ (a \in DOMAIN last \/ a \in Held(f))
      BY <1>2, <1>7
    <2>2. CASE a \in G
      <3>1. a \in DOMAIN last BY <1>5, <1>11, <2>1, <2>2
      <3>2. last[a] = a BY <1>6, <2>2, <3>1 DEF StaleInv
      <3> QED BY <1>5, <3>1, <3>2
    <2>3. CASE a \in Held(f) /\ a \in S
      <3>1. a = ret \/ (f.extra /\ a = fin) BY <1>6, <2>3 DEF Outcome
      <3>2. a = f.n \/ (f.extra /\ a = f.pre) BY <2>3 DEF Held
      <3> QED BY <1>2, <1>3, <1>5, <3>1, <3>2
    <2>4. CASE a \notin G /\ a \notin Held(f)
      <3>1. a \in DOMAIN last /\ a \in S /\ a # Null BY <2>1, <2>4
      <3>2. a # f.n BY <2>4 DEF Held
      <3>3. a = fin BY <1>2, <1>6, <3>1, <3>2 DEF Outcome
      <3>4. a \notin Address BY <1>9, <2>4, <3>1, <3>3 DEF OutcomeSafe, Known, Held
      <3>5. DOMAIN last \subseteq Address BY DEF IInv, VisitOK, Shape
      <3> QED BY <3>1, <3>4, <3>5
    <2> QED BY <2>1, <2>2, <2>3, <2>4
  <1>13. ASSUME stack' # << >>, NEW a \in DOMAIN last' PROVE IsDone(visited', a)
    BY <1>2, <1>5, <1>13
  <1> QED BY <1>10, <1>12, <1>13 DEF StaleInv

\* In every step.
LEMMA StaleStep ==
  ASSUME IInv, StaleInv, [Next]_vars
  PROVE  StaleInv'
  <1>1. SomeStep BY NextOK
  <1>2. pass' = pass BY DEF Next, vars
  <1>3. Ordinary' => Ordinary BY <1>2 DEF Ordinary
  <1>4. ASSUME ~Ordinary' PROVE StaleInv' BY <1>4 DEF StaleInv
  <1>5. CASE Ordinary /\ GoesOn BY <1>5, StaleGoesOn
  <1>6. ASSUME Ordinary, NEW f, NEW vis, NEW final, NEW hp, Ends(f, vis, final, hp)
        PROVE  StaleInv'
    BY <1>6, StaleEnds
  <1> QED BY <1>1, <1>3, <1>4, <1>5, <1>6 DEF SomeStep, GoesOn

\* What is below the result was returned.
LEMMA StaleImplies ==
  ASSUME IInv, StaleInv
  PROVE  NothingStale
  <1> SUFFICES ASSUME Finished, Ordinary PROVE
        \A a \in Below(returned, did.cut) : a \in DOMAIN last => last[a] = a
    BY DEF NothingStale
  <1>1. KeptIn(Given) /\ \A a \in Given \cap DOMAIN last : last[a] = a BY DEF StaleInv
  <1>2. PICK G, n, cut : G = Given /\ n = returned /\ cut = did.cut OBVIOUS
  <1>3. n \in G \cup {Null} BY <1>1, <1>2 DEF KeptIn, InUse, Finished
  <1>4. \A a \in G \ cut :
          \A i \in DOMAIN heap[a].kids : heap[a].kids[i] \in G \cup {Null}
    BY <1>1, <1>2 DEF KeptIn
  <1>5. Len(heap) \in Nat BY DEF IInv, VisitOK, Shape
  <1>6. Below(n, cut) \subseteq G BY <1>3, <1>4, <1>5, BelowIn
  <1> QED BY <1>1, <1>2, <1>6

(***************************************************************************)
(* Whatever DAG or graph a pass that visits every node once is run on, and *)
(* whatever it does in preorder and postorder: no parent keeps a child     *)
(* that was replaced or removed, whether it asked for the child before or  *)
(* after the replacement, except below a node where the pass pruned.       *)
(***************************************************************************)
THEOREM NothingIsStale == Spec => []NothingStale
  <1>1. Init => StaleInv BY StaleInit
  <1>2. IInv /\ StaleInv /\ [Next]_vars => StaleInv' BY StaleStep
  <1>3. IInv /\ StaleInv => NothingStale BY StaleImplies
  <1>4. Spec => []IInv BY TransformInductive
  <1> QED BY <1>1, <1>2, <1>3, <1>4, PTL DEF Spec

-----------------------------------------------------------------------------
(***************************************************************************)
(* A pass that forces clones.                                              *)
(***************************************************************************)
FramesOf(stk) == {stk[i] : i \in DOMAIN stk}

\* An activation in front of others.
LEMMA FramesFront ==
  ASSUME NEW s \in Seq(Frames), NEW g \in Frames
  PROVE  FramesOf(Pushed(g, s)) = {g} \cup FramesOf(s)
  <1> DEFINE t == Pushed(g, s)
  <1>1. /\ DOMAIN t = 1..(Len(s) + 1) /\ t[1] = g /\ Len(s) \in Nat
        /\ \A i \in 2..(Len(s) + 1) : t[i] = s[i - 1]
    BY InFront DEF Pushed
  <1>2. DOMAIN s = 1..Len(s) OBVIOUS
  <1> HIDE DEF t
  <1>3. ASSUME NEW x \in FramesOf(t) PROVE x \in {g} \cup FramesOf(s)
    <2>1. PICK i \in DOMAIN t : x = t[i] BY <1>3 DEF FramesOf
    <2>2. CASE i = 1 BY <1>1, <2>1, <2>2
    <2>3. CASE i # 1
      <3>1. i - 1 \in DOMAIN s /\ t[i] = s[i - 1] BY <1>1, <1>2, <2>3
      <3> QED BY <2>1, <3>1 DEF FramesOf
    <2> QED BY <2>2, <2>3
  <1>4. g \in FramesOf(t)
    <2>1. 1 \in DOMAIN t BY <1>1
    <2> QED BY <1>1, <2>1 DEF FramesOf
  <1>5. ASSUME NEW x \in FramesOf(s) PROVE x \in FramesOf(t)
    <2>1. PICK i \in DOMAIN s : x = s[i] BY <1>5 DEF FramesOf
    <2>2. PICK j : j = i + 1 OBVIOUS
    <2>3. j \in DOMAIN t /\ t[j] = s[i] BY <1>1, <1>2, <2>2
    <2> QED BY <2>1, <2>3 DEF FramesOf
  <1>6. FramesOf(t) = {g} \cup FramesOf(s) BY <1>3, <1>4, <1>5
  <1> QED BY <1>6 DEF t

\* The innermost one and the others.
LEMMA FramesRest ==
  ASSUME NEW s \in Seq(Frames), s # << >>
  PROVE  FramesOf(s) = {s[1]} \cup FramesOf(Tail(s))
  <1>1. /\ s[1] \in Frames /\ Tail(s) \in Seq(Frames) /\ Len(s) \in Nat \ {0}
        /\ DOMAIN s = 1..Len(s) /\ Len(Tail(s)) = Len(s) - 1
        /\ \A i \in 1..(Len(s) - 1) : Tail(s)[i] = s[i + 1]
    BY TopAndRest
  <1>2. PICK t, g : t = Tail(s) /\ g = s[1] OBVIOUS
  <1>3. DOMAIN t = 1..(Len(s) - 1) BY <1>1, <1>2
  <1>4. ASSUME NEW x \in FramesOf(s) PROVE x \in {g} \cup FramesOf(t)
    <2>1. PICK i \in DOMAIN s : x = s[i] BY <1>4 DEF FramesOf
    <2>2. CASE i = 1 BY <1>2, <2>1, <2>2
    <2>3. CASE i # 1
      <3>1. PICK j \in 1..(Len(s) - 1) : i = j + 1
        <4>1. i - 1 \in 1..(Len(s) - 1) /\ i = (i - 1) + 1 BY <1>1, <2>3
        <4> QED BY <4>1
      <3> QED BY <1>1, <1>2, <1>3, <2>1, <3>1 DEF FramesOf
    <2> QED BY <2>2, <2>3
  <1>5. ASSUME NEW x \in FramesOf(t) PROVE x \in FramesOf(s)
    <2>1. PICK i \in DOMAIN t : x = t[i] BY <1>5 DEF FramesOf
    <2>2. PICK j : j = i + 1 OBVIOUS
    <2>3. j \in DOMAIN s /\ s[j] = x BY <1>1, <1>2, <1>3, <2>1, <2>2
    <2> QED BY <2>3 DEF FramesOf
  <1>6. g \in FramesOf(s)
    <2>1. 1 \in DOMAIN s BY <1>1
    <2> QED BY <1>2, <2>1 DEF FramesOf
  <1> QED BY <1>2, <1>4, <1>5, <1>6

\* The activations that are left when a visit ends: the one that waited for it
\* goes on with the result.
GoesOnWith(n, q, ret) ==
  /\ q \in FramesOf(Tail(stack)) /\ q \in Frames
  /\ Waiting(q) /\ q.copy.kids[q.idx] = n
  /\ FramesOf(stack') \subseteq FramesOf(Tail(stack)) \cup {Resumed(q, ret)}

\* There is one, unless the visit was the last.
LEMMA FramesEnd ==
  ASSUME IInv, NEW f, NEW vis, NEW final, NEW hp, Ends(f, vis, final, hp),
         NEW fin, NEW ret, EndsWith(f, vis, final, hp, fin, ret)
  PROVE  FramesOf(stack') = {} \/ \E q : GoesOnWith(f.n, q, ret)
  <1>1. /\ stack # << >> /\ f.n = top.n /\ stack' = Resume(Tail(stack), ret)
        /\ ret \in Nat
    BY DEF Ends, Ending, EndsWith, Outcome, Grown
  <1>2. Tail(stack) \in Seq(Frames) /\ Atop(top, Tail(stack)) BY <1>1, TopFits
  <1>3. PICK rest : rest = Tail(stack) OBVIOUS
  <1>4. CASE rest = << >>
    <2>1. DOMAIN (stack') = {} BY <1>1, <1>3, <1>4 DEF Resume
    <2> QED BY <2>1 DEF FramesOf
  <1>5. CASE rest # << >>
    <2>1. PICK q : q = rest[1] OBVIOUS
    <2>2. /\ Waiting(q) /\ q.copy.kids[q.idx] = f.n /\ q \in Frames /\ q = Head(rest)
          /\ Tail(rest) \in Seq(Frames)
      BY <1>1, <1>2, <1>3, <1>5, <2>1, TopAndRest DEF Atop, Linked
    <2>3. PICK g : g = Resumed(q, ret) OBVIOUS
    <2>4. g \in Frames BY <1>1, <2>2, <2>3, ResumedFields
    <2>5. stack' = Pushed(g, Tail(rest))
      BY <1>1, <1>3, <1>5, <2>2, <2>3, ResumeIs DEF Pushed
    <2>6. FramesOf(stack') = {g} \cup FramesOf(Tail(rest)) BY <2>2, <2>4, <2>5, FramesFront
    <2>7. FramesOf(rest) = {q} \cup FramesOf(Tail(rest))
      BY <1>2, <1>3, <1>5, <2>1, FramesRest
    <2>8. GoesOnWith(f.n, q, ret) BY <1>3, <2>2, <2>3, <2>6, <2>7 DEF GoesOnWith
    <2> QED BY <2>8
  <1> QED BY <1>4, <1>5

Copying(p) == p.forceClone /\ NoOther(p) /\ "kid" \notin p.pre

\* preorder has not returned a node of the IR.
Foreign(f) == f.phase # "transformed" /\ f.pre > Null => f.pre \notin Orig

(***************************************************************************)
(* What is in use, and all below it, was made by the pass.                 *)
(***************************************************************************)
CloneInv ==
  Copying(pass) /\ did.cut = {} =>
    /\ \E G : KeptIn(G) /\ G \cap Orig = {}
    /\ \A f \in FramesOf(stack) : Foreign(f)

\* At the start nothing is in use.
LEMMA CloneInit ==
  ASSUME Init
  PROVE  CloneInv
  <1>1. visited = << >> /\ stack = << >> /\ returned = Self BY DEF Init
  <1>2. DOMAIN visited = {} /\ DOMAIN stack = {} BY <1>1
  <1>3. Results(visited) = {} /\ HasAny(stack) = {} /\ FramesOf(stack) = {}
    BY <1>2 DEF Results, HasAny, FramesOf
  <1>4. InUse(visited, stack, returned) = {} BY <1>1, <1>3 DEF InUse
  <1>5. KeptIn({}) /\ {} \cap Orig = {} BY <1>4 DEF KeptIn
  <1> QED BY <1>3, <1>5 DEF CloneInv

\* The activations, while a visit goes on.
LEMMA ForeignGoesOn ==
  ASSUME IInv, GoesOn, Copying(pass), \A f \in FramesOf(stack) : Foreign(f)
  PROVE  \A f \in FramesOf(stack') : Foreign(f)
  <1>1. /\ stack \in Seq(Frames) /\ heap \in Seq(AnyContent) /\ Len(heap) \in Nat
        /\ pass \in Passes /\ HeapOK(pass, heap)
    BY DEF IInv, VisitOK, Shape
  <1>2. ASSUME stack # << >>
        PROVE  /\ top \in Frames /\ Tail(stack) \in Seq(Frames) /\ Foreign(top)
               /\ \A f \in FramesOf(Tail(stack)) : Foreign(f)
    <2>1. top = stack[1] /\ top \in Frames /\ Tail(stack) \in Seq(Frames)
      BY <1>2, TopFits
    <2>2. FramesOf(stack) = {top} \cup FramesOf(Tail(stack)) BY <1>1, <1>2, <2>1, FramesRest
    <2> QED BY <2>1, <2>2
  <1>3. CASE Idles
    <2>1. stack' = stack BY <1>3 DEF Idles
    <2> QED BY <2>1
  <1>4. ASSUME NEW n, Starts(n) PROVE \A f \in FramesOf(stack') : Foreign(f)
    <2>1. PICK g : g = Frame(n) OBVIOUS
    <2>2. /\ n \in 1..Len(heap) /\ stack' = Pushed(g, stack)
          /\ stack = << >> => returned = Self
      BY <1>4, <2>1 DEF Starts
    <2>3. g \in Frames
      <3>1. TrackerFits(pass, visited, HeldBy(stack), Len(heap), last, {})
        BY <2>2, TrackerAlways
      <3>2. DoneKept(pass, visited, visited) BY DEF DoneKept
      <3> QED BY <2>1, <2>2, <3>1, <3>2, NewFrame
    <2>4. Foreign(g)
      <3>1. g.pre = Self BY <2>1 DEF Frame
      <3> QED BY <3>1 DEF Foreign, Self, Null
    <2>5. FramesOf(stack') = {g} \cup FramesOf(stack) BY <1>1, <2>2, <2>3, FramesFront
    <2> QED BY <2>4, <2>5
  <1>5. ASSUME NEW ret, HandsOn(ret) PROVE \A f \in FramesOf(stack') : Foreign(f)
    <2>1. PICK g : g = Resumed(top, ret) OBVIOUS
    <2>2. stack # << >> /\ Waiting(top) /\ stack' = Pushed(g, Tail(stack))
      BY <1>5, <2>1 DEF HandsOn
    <2>3. ret \in Nat
      <3>1. CASE ret = Null BY <3>1 DEF Null
      <3>2. ASSUME NEW c, Status(c) = "Done", ret = visited[c].result PROVE ret \in Nat
        <4>1. TrackerFits(pass, visited, HeldBy(stack), Len(heap), last, {})
          BY <2>2, TopFits
        <4>2. DoneNode(c) BY <1>1, <3>2, <4>1, DoneIs
        <4> QED BY <3>2, <4>2 DEF DoneNode
      <3> QED BY <1>5, <3>1, <3>2 DEF HandsOn
    <2>4. g \in Frames /\ Foreign(g)
      <3>1. /\ g \in Frames
            /\ top.phase = "kids" => g.phase = "kids" /\ g.pre = top.pre
            /\ top.phase = "visit_kid" => g.phase = "returned" /\ g.pre = top.pre
            /\ top.phase = "transform_child" => g.phase = "transformed"
        BY <1>2, <2>1, <2>2, <2>3, ResumedFields
      <3> QED BY <1>2, <2>2, <3>1 DEF Foreign, Waiting
    <2>5. FramesOf(stack') = {g} \cup FramesOf(Tail(stack))
      BY <1>2, <2>2, <2>4, FramesFront
    <2> QED BY <1>2, <2>2, <2>4, <2>5
  <1>6. ASSUME NEW g, NEW op, PreorderLeaves(g, op)
        PROVE  \A f \in FramesOf(stack') : Foreign(f)
    <2>1. /\ stack # << >> /\ stack' = Pushed(g, Tail(stack)) /\ g \in Frames
          /\ op \in pass.pre
          /\ op # "kid" => g.pre \in {Self, Null, Len(heap) + 1}
      BY <1>6 DEF PreorderLeaves, LeftByPreorder
    <2>2. Foreign(g)
      <3>1. g.pre \in {Self, Null, Len(heap) + 1} BY <2>1 DEF Copying
      <3>2. Len(heap) + 1 \notin Orig
        <4>1. PICK O : O = DOMAIN pass.kids OBVIOUS
        <4>2. O = 1..Len(pass.kids) /\ Len(pass.kids) \in Nat BY <1>1, <4>1, KidsTyped
        <4>3. Len(pass.kids) <= Len(heap) BY <1>1 DEF HeapOK
        <4>4. Len(heap) + 1 \notin O BY <1>1, <4>2, <4>3
        <4> QED BY <4>1, <4>4 DEF Orig, Kids
      <3> QED BY <3>1, <3>2 DEF Foreign, Self, Null
    <2>3. FramesOf(stack') = {g} \cup FramesOf(Tail(stack)) BY <1>2, <2>1, FramesFront
    <2> QED BY <1>2, <2>1, <2>2, <2>3
  <1>7. ASSUME NEW g, AtKids(g) PROVE \A f \in FramesOf(stack') : Foreign(f)
    <2>1. /\ stack # << >> /\ stack' = Pushed(g, Tail(stack)) /\ g \in Frames
          /\ g.pre = top.pre /\ top.phase = "returned"
      BY <1>7 DEF AtKids
    <2>2. Foreign(g) BY <1>2, <2>1 DEF Foreign
    <2>3. FramesOf(stack') = {g} \cup FramesOf(Tail(stack)) BY <1>2, <2>1, FramesFront
    <2> QED BY <1>2, <2>1, <2>2, <2>3
  <1> QED BY <1>3, <1>4, <1>5, <1>6, <1>7 DEF GoesOn

\* The nodes a visit ends with are not of the IR.
LEMMA CopiesEnd ==
  ASSUME IInv, Copying(pass), did'.cut = {}, NEW G, KeptIn(G), G \cap Orig = {},
         \A g \in FramesOf(stack) : Foreign(g),
         NEW f, NEW vis, NEW final, NEW hp, Ends(f, vis, final, hp),
         NEW fin, NEW ret, EndsWith(f, vis, final, hp, fin, ret),
         OutcomeSafe(G, f, ret, fin)
  PROVE  \A x \in Outcome(f, ret, fin) : x = Null \/ x \notin Orig
  <1>1. finish_changed(vis, hp, f.n, fin) BY DEF Copying, finish_changed, Differs
  <1>2. ret = fin BY <1>1 DEF EndsWith
  <1>3. ~Prunes(f, vis, final, hp)
    <2> SUFFICES ASSUME Prunes(f, vis, final, hp) PROVE FALSE OBVIOUS
    <2>1. PICK d, C : d = did /\ C = did.cut \cup {f.n, last'[f.n]} OBVIOUS
    <2>2. did' = [d EXCEPT !.cut = C] BY <2>1 DEF Prunes
    <2>3. "cut" \in DOMAIN d BY <2>1 DEF IInv, VisitOK, Shape
    <2>4. [d EXCEPT !.cut = C].cut = C BY <2>3
    <2> QED BY <2>1, <2>2, <2>4
  <1>4. Orig \subseteq Address
    <2>1. pass \in Passes /\ HeapOK(pass, heap) /\ heap \in Seq(AnyContent)
          /\ Len(heap) \in Nat
      BY DEF IInv, VisitOK, Shape
    <2>2. PICK O : O = DOMAIN pass.kids OBVIOUS
    <2>3. O = 1..Len(pass.kids) /\ Len(pass.kids) \in Nat BY <2>1, <2>2, KidsTyped
    <2>4. Len(pass.kids) <= Len(heap) BY <2>1 DEF HeapOK
    <2>5. DOMAIN heap = 1..Len(heap) BY <2>1
    <2>6. O \subseteq DOMAIN heap BY <2>1, <2>3, <2>4, <2>5
    <2> QED BY <2>2, <2>6 DEF Orig, Kids, Address
  <1>5. ASSUME f.extra PROVE f.pre \notin Orig
    <2>1. /\ f = top /\ top.phase = "kids" /\ stack # << >>
      BY <1>3, <1>5 DEF Ends, Replaces, PostorderLeaves
    <2>2. /\ top = stack[1] /\ FrameOK(top, Len(heap)) /\ stack \in Seq(Frames)
      BY <2>1, TopFits DEF IInv, VisitOK, Shape
    <2>3. top \in FramesOf(stack)
      <3>1. 1 \in DOMAIN stack BY <2>1, <2>2
      <3> QED BY <2>2, <3>1 DEF FramesOf
    <2>4. top.pre > Null BY <1>5, <2>1, <2>2 DEF FrameOK, Null
    <2> QED BY <2>1, <2>3, <2>4 DEF Foreign
  <1>6. fin = Null \/ fin \notin Orig
    <2>1. fin \in G \cup {Null} \/ (f.extra /\ fin = f.pre) \/ fin \notin Address
      BY DEF OutcomeSafe, Known
    <2> QED BY <1>4, <1>5, <2>1
  <1> QED BY <1>2, <1>6 DEF Outcome

\* In every step.
LEMMA CloneStep ==
  ASSUME IInv, CloneInv, [Next]_vars
  PROVE  CloneInv'
  <1>1. SomeStep BY NextOK
  <1>2. pass' = pass /\ Orig' = Orig BY DEF Next, vars, Orig, Kids
  <1>3. SUFFICES ASSUME Copying(pass), did'.cut = {}
        PROVE  /\ (\E G : KeptIn(G) /\ G \cap Orig = {})'
               /\ \A f \in FramesOf(stack') : Foreign(f)
    BY <1>2 DEF CloneInv, Foreign
  <1>4. Settled(pass) /\ NoOther(pass) BY <1>3 DEF Copying, Settled
  <1>5. CASE GoesOn
    <2>1. /\ did'.cut = did.cut /\ Grown(heap, heap') /\ UsesOnly({Null})
      BY <1>5, GoesOnCarries DEF Carries
    <2>2. (\E G : KeptIn(G) /\ G \cap Orig = {}) /\ \A f \in FramesOf(stack) : Foreign(f)
      BY <1>3, <2>1 DEF CloneInv
    <2>3. PICK G : KeptIn(G) /\ G \cap Orig = {} BY <2>2
    <2>4. PICK H : H = (G \cup {Null}) \ {Null} OBVIOUS
    <2>5. {Null} \subseteq 0..Len(heap') BY <2>1 DEF Grown, Null
    <2>6. \A x \in {Null} : Safe(G, x, heap', did'.cut) BY DEF Safe
    <2>7. KeptIn(H)' BY <2>1, <2>3, <2>4, <2>5, <2>6, KeptAfter
    <2>8. (KeptIn(H) /\ H \cap Orig = {})' BY <1>2, <2>3, <2>4, <2>7
    <2>9. \A f \in FramesOf(stack') : Foreign(f) BY <1>3, <1>5, <2>2, ForeignGoesOn
    <2> QED BY <2>8, <2>9
  <1>6. ASSUME NEW f, NEW vis, NEW final, NEW hp, Ends(f, vis, final, hp)
        PROVE  /\ (\E G : KeptIn(G) /\ G \cap Orig = {})'
               /\ \A g \in FramesOf(stack') : Foreign(g)
    <2>1. PICK fin, ret : EndsWith(f, vis, final, hp, fin, ret) BY <1>4, <1>6, EndUse
    <2>2. did.cut = {} BY <1>3, <1>6, DidAtEnd
    <2>3. (\E G : KeptIn(G) /\ G \cap Orig = {}) /\ \A g \in FramesOf(stack) : Foreign(g)
      BY <1>3, <2>2 DEF CloneInv
    <2>4. PICK G : KeptIn(G) /\ G \cap Orig = {} BY <2>3
    <2>5. OutcomeSafe(G, f, ret, fin) BY <1>4, <1>6, <2>1, <2>4, EndSafe
    <2>6. PICK S, H : S = Outcome(f, ret, fin) /\ H = (G \cup S) \ {Null} OBVIOUS
    <2>7. \A x \in S : x = Null \/ x \notin Orig
      BY <1>3, <1>6, <2>1, <2>3, <2>4, <2>5, <2>6, CopiesEnd
    <2>8. KeptIn(H)'
      <3>1. did.cut \subseteq did'.cut /\ \A x \in S : Safe(G, x, heap', did'.cut)
        BY <1>6, <2>5, <2>6, DidAtEnd DEF OutcomeSafe
      <3>2. Grown(heap, heap') /\ UsesOnly(S) /\ S \subseteq 0..Len(heap')
        BY <2>1, <2>6 DEF EndsWith
      <3> QED BY <2>4, <2>6, <3>1, <3>2, KeptAfter
    <2>9. (KeptIn(H) /\ H \cap Orig = {})' BY <1>2, <2>4, <2>6, <2>7, <2>8
    <2>10. \A g \in FramesOf(stack') : Foreign(g)
      <3>1. FramesOf(stack') = {} \/ \E q : GoesOnWith(f.n, q, ret)
        BY <1>6, <2>1, FramesEnd
      <3>2. ASSUME NEW q, GoesOnWith(f.n, q, ret) PROVE \A g \in FramesOf(stack') : Foreign(g)
        <4>1. /\ stack # << >> /\ stack \in Seq(Frames) /\ ret \in Nat
          BY <1>6, <2>1 DEF Ends, EndsWith, Outcome, Grown, IInv, VisitOK, Shape
        <4>2. \A g \in FramesOf(Tail(stack)) : Foreign(g) BY <2>3, <4>1, FramesRest
        <4>3. PICK g : g = Resumed(q, ret) OBVIOUS
        <4>4. /\ q \in FramesOf(Tail(stack)) /\ q \in Frames /\ Waiting(q)
              /\ FramesOf(stack') \subseteq FramesOf(Tail(stack)) \cup {g}
          BY <3>2, <4>3 DEF GoesOnWith
        <4>5. /\ q.phase = "kids" => g.phase = "kids" /\ g.pre = q.pre
              /\ q.phase = "visit_kid" => g.phase = "returned" /\ g.pre = q.pre
              /\ q.phase = "transform_child" => g.phase = "transformed"
          BY <4>1, <4>3, <4>4, ResumedFields
        <4>6. Foreign(g) BY <4>2, <4>4, <4>5 DEF Foreign, Waiting
        <4> QED BY <4>2, <4>4, <4>6
      <3> QED BY <3>1, <3>2
    <2> QED BY <2>9, <2>10
  <1> QED BY <1>1, <1>5, <1>6 DEF SomeStep, GoesOn

\* What is below the result was made by the pass.
LEMMA CloneImplies ==
  ASSUME IInv, CloneInv
  PROVE  ForceCloneCopiesAll
  <1> SUFFICES ASSUME Finished, pass.forceClone, did.cut = {}, "kid" \notin pass.pre,
                      "other" \notin pass.post
               PROVE  Below(returned, {}) \cap Orig = {}
    BY DEF ForceCloneCopiesAll
  <1>1. \E G : KeptIn(G) /\ G \cap Orig = {} BY DEF CloneInv, Copying, NoOther
  <1>2. PICK G : KeptIn(G) /\ G \cap Orig = {} BY <1>1
  <1>3. PICK n, cut : n = returned /\ cut = {} OBVIOUS
  <1>4. n \in G \cup {Null} BY <1>2, <1>3 DEF KeptIn, InUse, Finished
  <1>5. \A a \in G \ cut :
          \A i \in DOMAIN heap[a].kids : heap[a].kids[i] \in G \cup {Null}
    BY <1>2, <1>3 DEF KeptIn
  <1>6. Len(heap) \in Nat BY DEF IInv, VisitOK, Shape
  <1>7. Below(n, cut) \subseteq G BY <1>4, <1>5, <1>6, BelowIn
  <1> QED BY <1>2, <1>3, <1>7

-----------------------------------------------------------------------------
(***************************************************************************)
(* A subgraph in which the pass changes nothing.                           *)
(***************************************************************************)
\* Nodes of the IR, with all that is below them, that the pass has kept so far.
QuietSet(Q) ==
  /\ Q \subseteq Orig
  /\ \A n \in Q : \A i \in DOMAIN Kids[n] : Kids[n][i] \in Q
  /\ \A n \in Q : DidToPre(n)[1] \in {"keep", "prune"} /\ DidToPost(n)[1] = "keep"

\* The clone of such a node is what the node is.
FrameQuiet(f, Q, hp) ==
  /\ f.n \in Q => /\ ~f.extra /\ f.pre = Self /\ f.copy = hp[f.n]
                  /\ f.phase \in {"preorder", "returned", "kids"}
  /\ f.extra /\ f.pre \in Q => f.copy = hp[f.pre]

\* They are visited without a change.
QuietOn(Q) ==
  QuietSet(Q) =>
    /\ \A n \in Q \cap DOMAIN last : last[n] = n
    /\ \A f \in FramesOf(stack) : FrameQuiet(f, Q, heap)

\* The pass does something to a node once.
Traced ==
  /\ DOMAIN did.post \subseteq DOMAIN last
  /\ stack # << >> => DOMAIN did.pre \subseteq DOMAIN visited
  /\ stack = << >> /\ returned = Self => DOMAIN did.pre = {}
  /\ \A f \in FramesOf(stack) : f.phase = "preorder" => f.n \notin DOMAIN did.pre

QuietInv ==
  Ordinary /\ ~pass.forceClone => Traced /\ \A Q : QuietOn(Q)

\* The nodes of a quiet set in the heap.
LEMMA QuietNodes ==
  ASSUME IInv, NEW Q, QuietSet(Q)
  PROVE  \A n \in Q : /\ n \in 1..Len(heap) /\ n # Null
                      /\ heap[n] \in AnyContent
                      /\ \A i \in DOMAIN heap[n].kids : heap[n].kids[i] \in Q
  <1>1. /\ pass \in Passes /\ heap \in Seq(AnyContent) /\ Len(heap) \in Nat
        /\ HeapOK(pass, heap)
    BY DEF IInv, VisitOK, Shape
  <1>2. PICK O : O = DOMAIN pass.kids OBVIOUS
  <1>3. O = 1..Len(pass.kids) /\ Len(pass.kids) \in Nat BY <1>1, <1>2, KidsTyped
  <1>4. Len(pass.kids) <= Len(heap) /\ \A n \in O : heap[n].kids = pass.kids[n]
    BY <1>1, <1>2 DEF HeapOK
  <1>5. Q \subseteq O /\ \A n \in Q : \A i \in DOMAIN pass.kids[n] : pass.kids[n][i] \in Q
    BY <1>2 DEF QuietSet, Orig, Kids
  <1> TAKE n \in Q
  <1>6. n \in 1..Len(heap) /\ n # Null BY <1>1, <1>3, <1>4, <1>5 DEF Null
  <1>7. heap[n] \in AnyContent BY <1>1, <1>6
  <1> QED BY <1>4, <1>5, <1>6, <1>7

\* Their results, when they are done.
LEMMA QuietResult ==
  ASSUME Ordinary, NEW Q, QuietSet(Q), \A n \in Q \cap DOMAIN last : last[n] = n,
         NEW S, TrackerFits(pass, visited, S, Len(heap), last, {}),
         NEW c \in Q, IsDone(visited, c)
  PROVE  visited[c].result = c
  <1>1. c \in DOMAIN last
    BY OrdinaryIs DEF TrackerFits, Met, Seen, IsDone, QuietSet, Orig, Kids
  <1> QED BY <1>1, OrdinaryIs DEF TrackerFits, Agrees, IsDone

\* An activation that is given a child as it was.
LEMMA ResumedQuiet ==
  ASSUME NEW f \in Frames, Waiting(f), f.extra => f.phase = "kids",
         NEW Q, NEW hp, FrameQuiet(f, Q, hp),
         \A n \in Q : \A i \in DOMAIN hp[n].kids : hp[n].kids[i] \in Q,
         NEW ret \in Nat, f.copy.kids[f.idx] \in Q => ret = f.copy.kids[f.idx],
         NEW g, g = Resumed(f, ret)
  PROVE  FrameQuiet(g, Q, hp)
  <1>1. /\ g.n = f.n /\ g.extra = f.extra
        /\ f.phase = "kids" => g.phase = "kids" /\ g.pre = f.pre
    BY ResumedFields
  <1>2. ASSUME f.phase = "kids", NEW n \in Q, f.copy = hp[n] PROVE g.copy = f.copy
    <2>1. f.idx \in DOMAIN f.copy.kids BY DEF Waiting
    <2>2. ret = f.copy.kids[f.idx] BY <1>2, <2>1
    <2>3. f.copy \in AnyContent /\ f.copy.kids \in Seq(Nat) /\ f.idx \in Nat
      BY DEF Frames, AnyContent
    <2>4. PICK ks : ks = [f.copy.kids EXCEPT ![f.idx] = ret] OBVIOUS
    <2>5. ks = f.copy.kids
      <3>1. PICK K : K = f.copy.kids OBVIOUS
      <3>2. K \in Seq(Nat) /\ ks = [K EXCEPT ![f.idx] = K[f.idx]] BY <2>2, <2>3, <2>4, <3>1
      <3>3. ks = K BY <3>2
      <3> QED BY <3>1, <3>3
    <2>6. PICK co : co = [f.copy EXCEPT !.kids = ks] OBVIOUS
    <2>7. co = f.copy BY <2>3, <2>5, <2>6 DEF AnyContent
    <2>8. PICK k : k = f.idx + 1 OBVIOUS
    <2>9. g = [f EXCEPT !.copy = co, !.idx = k]
      BY <1>2, <2>4, <2>6, <2>8 DEF Resumed, Frames
    <2>10. g.copy = co BY <2>9 DEF Frames
    <2> QED BY <2>7, <2>10
  <1>3. ASSUME f.n \in Q PROVE f.phase = "kids" /\ g.copy = f.copy
    <2>1. f.phase = "kids" BY <1>3 DEF FrameQuiet, Waiting
    <2> QED BY <1>2, <1>3, <2>1 DEF FrameQuiet
  <1>4. ASSUME f.extra, f.pre \in Q PROVE g.copy = f.copy
    BY <1>2, <1>4 DEF FrameQuiet
  <1> QED BY <1>1, <1>3, <1>4 DEF FrameQuiet

\* The pass kept them before, if it did something to a node it had not met.
LEMMA QuietBefore ==
  ASSUME pass' = pass, NEW Q, QuietSet(Q)',
         did'.pre = did.pre \/ (\E m, o : m \notin DOMAIN did.pre
                                          /\ did'.pre = Put(did.pre, m, o)),
         did'.post = did.post \/ (\E m, o : m \notin DOMAIN did.post
                                            /\ did'.post = Put(did.post, m, o))
  PROVE  QuietSet(Q)
  <1>1. /\ Q \subseteq Orig
        /\ \A n \in Q : \A i \in DOMAIN Kids[n] : Kids[n][i] \in Q
    BY DEF QuietSet, Orig, Kids
  <1>2. ASSUME NEW n \in Q PROVE DidToPre(n)[1] \in {"keep", "prune"}
    <2>1. DidToPre(n)'[1] \in {"keep", "prune"} BY DEF QuietSet
    <2>2. CASE n \notin DOMAIN did.pre BY <2>2 DEF DidToPre
    <2>3. CASE n \in DOMAIN did.pre
      <3>1. n \in DOMAIN did'.pre /\ did'.pre[n] = did.pre[n] BY <2>3 DEF Put
      <3> QED BY <2>1, <2>3, <3>1 DEF DidToPre
    <2> QED BY <2>2, <2>3
  <1>3. ASSUME NEW n \in Q PROVE DidToPost(n)[1] = "keep"
    <2>1. DidToPost(n)'[1] = "keep" BY DEF QuietSet
    <2>2. CASE n \notin DOMAIN did.post BY <2>2 DEF DidToPost
    <2>3. CASE n \in DOMAIN did.post
      <3>1. n \in DOMAIN did'.post /\ did'.post[n] = did.post[n] BY <2>3 DEF Put
      <3> QED BY <2>1, <2>3, <3>1 DEF DidToPost
    <2> QED BY <2>2, <2>3
  <1> QED BY <1>1, <1>2, <1>3 DEF QuietSet

\* In a larger heap.
LEMMA QuietKept ==
  ASSUME IInv, NEW Q, QuietSet(Q), Grown(heap, heap'), NEW f, FrameQuiet(f, Q, heap)
  PROVE  FrameQuiet(f, Q, heap')
  <1>1. \A n \in Q : heap'[n] = heap[n] BY QuietNodes DEF Grown
  <1> QED BY <1>1 DEF FrameQuiet

\* While a visit goes on: one activation is new or replaced.
LEMMA QuietAfter ==
  ASSUME IInv, NEW Q, QuietSet(Q), QuietOn(Q), last' = last, Grown(heap, heap'), NEW g,
         FramesOf(stack') \subseteq FramesOf(stack) \cup {g}, FrameQuiet(g, Q, heap)
  PROVE  QuietOn(Q)'
  <1>1. \A n \in Q \cap DOMAIN last' : last'[n] = n BY DEF QuietOn
  <1>2. ASSUME NEW f \in FramesOf(stack') PROVE FrameQuiet(f, Q, heap')
    <2>1. FrameQuiet(f, Q, heap) BY DEF QuietOn
    <2> QED BY <2>1, QuietKept
  <1> QED BY <1>1, <1>2 DEF QuietOn

\* The activations, but for a new one.
LEMMA FramesAfter ==
  ASSUME IInv, NEW g \in Frames, NEW t \in Seq(Frames),
         t = stack \/ (stack # << >> /\ t = Tail(stack)), stack' = Pushed(g, t)
  PROVE  FramesOf(stack') \subseteq FramesOf(stack) \cup {g}
  <1>1. stack \in Seq(Frames) BY DEF IInv, VisitOK, Shape
  <1>2. FramesOf(stack') = {g} \cup FramesOf(t) BY FramesFront
  <1>3. FramesOf(t) \subseteq FramesOf(stack) BY <1>1, FramesRest
  <1> QED BY <1>2, <1>3

\* A visit starts: the clone forwards its children to themselves.
LEMMA QuietStarts ==
  ASSUME IInv, Ordinary, Traced, \A Q : QuietOn(Q), NEW n, Starts(n)
  PROVE  Traced' /\ \A Q : QuietOn(Q)'
  <1>1. PICK g : g = Frame(n) OBVIOUS
  <1>2. /\ pass' = pass /\ heap' = heap /\ returned' = returned /\ did' = did /\ last' = last
        /\ n \in 1..Len(heap) /\ Begin(n) /\ stack' = Pushed(g, stack)
        /\ stack = << >> => returned = Self
    BY <1>1 DEF Starts
  <1>3. /\ TrackerFits(pass, visited, HeldBy(stack), Len(heap), last, {})
        /\ VisTyped(visited, Len(heap)) /\ Len(heap) \in Nat
        /\ stack \in Seq(Frames) /\ heap \in Seq(AnyContent) /\ pass \in Passes
    BY <1>2, TrackerAlways DEF IInv, VisitOK, Shape
  <1>4. g \in Frames /\ g.n = n
    <2>1. DoneKept(pass, visited, visited) BY DEF DoneKept
    <2> QED BY <1>1, <1>2, <1>3, <2>1, NewFrame
  <1>5. FramesOf(stack') \subseteq FramesOf(stack) \cup {g}
    BY <1>2, <1>3, <1>4, FramesAfter
  <1>6. stack' # << >> /\ Grown(heap, heap') BY <1>2, <1>3, <1>4, InFront DEF Pushed, Grown
  <1>7. g.pre = Self /\ ~g.extra /\ g.phase = "preorder" /\ g.copy = ForwardChildren(heap[n])
    BY <1>1 DEF Frame
  <1>8. n \notin DOMAIN visited BY <1>2, <1>3, BeginIs, OrdinaryIs DEF Begin
  <1>9. n \notin DOMAIN did.pre
    <2>1. CASE stack = << >> BY <1>2, <2>1 DEF Traced
    <2>2. CASE stack # << >> BY <1>8, <2>2 DEF Traced
    <2> QED BY <2>1, <2>2
  <1>10. Traced'
    <2>1. DOMAIN did.pre \subseteq DOMAIN visited'
      <3>1. DOMAIN visited \subseteq DOMAIN visited' BY <1>2 DEF Begin, try_start
      <3>2. CASE stack = << >>
        <4>1. DOMAIN did.pre = {} BY <1>2, <3>2 DEF Traced
        <4> QED BY <4>1
      <3>3. CASE stack # << >> BY <3>1, <3>3 DEF Traced
      <3> QED BY <3>2, <3>3
    <2>2. \A f \in FramesOf(stack') : f.phase = "preorder" => f.n \notin DOMAIN did.pre
      BY <1>4, <1>5, <1>9 DEF Traced
    <2> QED BY <1>2, <1>6, <2>1, <2>2 DEF Traced
  <1>11. ASSUME NEW Q, QuietSet(Q)' PROVE QuietOn(Q)'
    <2>1. QuietSet(Q) BY <1>2, <1>11, QuietBefore
    <2>2. ASSUME n \in Q PROVE g.copy = heap[n]
      <3>1. /\ heap[n] \in AnyContent
            /\ \A i \in DOMAIN heap[n].kids : heap[n].kids[i] \in Q
        BY <2>1, <2>2, QuietNodes
      <3>2. PICK K : K = heap[n].kids OBVIOUS
      <3>3. ASSUME NEW i \in DOMAIN K
            PROVE  ~ (K[i] # Null /\ finalResult(K[i]) # Null) \/ finalResult(K[i]) = K[i]
        <4>1. CASE Status(K[i]) = "Done"
          <5>1. IsDone(visited, K[i]) BY <1>3, <4>1, StatusIs
          <5>2. visited[K[i]].result = K[i]
            BY <1>3, <2>1, <3>1, <3>2, <5>1, QuietResult DEF QuietOn
          <5> QED BY <4>1, <5>2 DEF finalResult
        <4>2. CASE Status(K[i]) # "Done" BY <4>2 DEF finalResult
        <4> QED BY <4>1, <4>2
      <3>4. PICK ks : ks = [i \in DOMAIN K |->
                              IF K[i] # Null /\ finalResult(K[i]) # Null
                              THEN finalResult(K[i]) ELSE K[i]]
        OBVIOUS
      <3>5. K \in Seq(Nat) BY <3>1, <3>2 DEF AnyContent
      <3>6. ks = K
        <4>1. \A i \in DOMAIN K : ks[i] = K[i] BY <3>3, <3>4
        <4>2. DOMAIN ks = DOMAIN K /\ ks = [i \in DOMAIN K |-> ks[i]] BY <3>4
        <4>3. K = [i \in DOMAIN K |-> K[i]] BY <3>5
        <4> QED BY <4>1, <4>2, <4>3
      <3>7. g.copy = [heap[n] EXCEPT !.kids = ks]
        BY <1>7, <3>2, <3>4 DEF ForwardChildren
      <3> QED BY <3>1, <3>2, <3>6, <3>7 DEF AnyContent
    <2>3. FrameQuiet(g, Q, heap) BY <1>4, <1>7, <2>2 DEF FrameQuiet
    <2> QED BY <1>2, <1>5, <1>6, <2>1, <2>3, QuietAfter
  <1>12. \A Q : QuietOn(Q)' BY <1>11 DEF QuietOn
  <1> QED BY <1>10, <1>12

\* The result of a child is handed on.
LEMMA QuietHandsOn ==
  ASSUME IInv, Ordinary, Traced, \A Q : QuietOn(Q), NEW ret, HandsOn(ret)
  PROVE  Traced' /\ \A Q : QuietOn(Q)'
  <1>1. PICK g, c : g = Resumed(top, ret) /\ c = top.copy.kids[top.idx] OBVIOUS
  <1>2. /\ pass' = pass /\ heap' = heap /\ returned' = returned /\ did' = did /\ last' = last
        /\ visited' = visited
        /\ stack # << >> /\ Waiting(top) /\ stack' = Pushed(g, Tail(stack))
        /\ (ret = Null /\ c = Null) \/ (Status(c) = "Done" /\ ret = visited[c].result)
    BY <1>1 DEF HandsOn
  <1>3. /\ TrackerFits(pass, visited, HeldBy(stack), Len(heap), last, {})
        /\ VisTyped(visited, Len(heap)) /\ Len(heap) \in Nat
        /\ top = stack[1] /\ top \in Frames /\ FrameOK(top, Len(heap))
        /\ stack \in Seq(Frames) /\ Tail(stack) \in Seq(Frames) /\ heap \in Seq(AnyContent)
    BY <1>2, TopFits DEF IInv, VisitOK, Shape, TrackerFits
  <1>4. ret \in Nat
    <2>1. CASE ret = Null BY <2>1 DEF Null
    <2>2. CASE Status(c) = "Done" /\ ret = visited[c].result
      <3>1. DoneNode(c) BY <1>3, <2>2, DoneIs
      <3> QED BY <2>2, <3>1 DEF DoneNode
    <2> QED BY <1>2, <2>1, <2>2
  <1>5. /\ g \in Frames /\ g.n = top.n /\ g.phase # "preorder"
    <2>1. top \in Frames /\ Waiting(top) /\ g = Resumed(top, ret) BY <1>1, <1>2, <1>3
    <2>2. /\ g \in Frames /\ g.n = top.n
          /\ top.phase = "kids" => g.phase = "kids"
          /\ top.phase = "visit_kid" => g.phase = "returned"
          /\ top.phase = "transform_child" => g.phase = "transformed"
      BY <1>4, <2>1, ResumedFields
    <2> QED BY <1>2, <2>2 DEF Waiting
  <1>6. FramesOf(stack') \subseteq FramesOf(stack) \cup {g}
    BY <1>2, <1>3, <1>5, FramesAfter
  <1>7. stack' # << >> /\ Grown(heap, heap') BY <1>2, <1>3, <1>5, InFront DEF Pushed, Grown
  <1>8. Traced' BY <1>2, <1>5, <1>6, <1>7 DEF Traced
  <1>9. ASSUME NEW Q, QuietSet(Q)' PROVE QuietOn(Q)'
    <2>1. QuietSet(Q) BY <1>2, <1>9, QuietBefore
    <2>2. top \in FramesOf(stack)
      <3>1. 1 \in DOMAIN stack BY <1>2, <1>3
      <3> QED BY <1>3, <3>1 DEF FramesOf
    <2>3. FrameQuiet(top, Q, heap) BY <2>1, <2>2 DEF QuietOn
    <2>4. ASSUME c \in Q PROVE ret = c
      <3>1. c # Null BY <2>1, <2>4, QuietNodes
      <3>2. IsDone(visited, c) /\ ret = visited[c].result BY <1>2, <1>3, <3>1, StatusIs
      <3> QED BY <1>3, <2>1, <2>4, <3>2, QuietResult DEF QuietOn
    <2>5. \A n \in Q : \A i \in DOMAIN heap[n].kids : heap[n].kids[i] \in Q
      BY <2>1, QuietNodes
    <2>6. top.extra => top.phase = "kids" BY <1>3 DEF FrameOK
    <2>7. FrameQuiet(g, Q, heap)
      <3>1. PICK f : f = top OBVIOUS
      <3>2. PICK hp : hp = heap OBVIOUS
      <3>3. /\ f \in Frames /\ Waiting(f) /\ (f.extra => f.phase = "kids")
            /\ FrameQuiet(f, Q, hp) /\ g = Resumed(f, ret)
            /\ \A n \in Q : \A i \in DOMAIN hp[n].kids : hp[n].kids[i] \in Q
            /\ f.copy.kids[f.idx] \in Q => ret = f.copy.kids[f.idx]
        BY <1>1, <1>2, <1>3, <2>3, <2>4, <2>5, <2>6, <3>1, <3>2
      <3>4. FrameQuiet(g, Q, hp) BY <1>4, <3>3, ResumedQuiet
      <3> QED BY <3>2, <3>4
    <2> QED BY <1>2, <1>6, <1>7, <2>1, <2>7, QuietAfter
  <1>10. \A Q : QuietOn(Q)' BY <1>9 DEF QuietOn
  <1> QED BY <1>8, <1>10

\* Preorder runs: it leaves the clone of a quiet node as it is.
LEMMA QuietPreorder ==
  ASSUME IInv, Ordinary, Traced, \A Q : QuietOn(Q), NEW g, NEW op, PreorderLeaves(g, op)
  PROVE  Traced' /\ \A Q : QuietOn(Q)'
  <1>1. /\ pass' = pass /\ visited' = visited /\ returned' = returned /\ last' = last
        /\ stack # << >> /\ top.phase = "preorder" /\ stack' = Pushed(g, Tail(stack))
        /\ Grown(heap, heap')
        /\ g \in Frames /\ g.n = top.n /\ ~g.extra
        /\ op \in {"keep", "prune"} =>
             g.phase = "returned" /\ g.pre = Self /\ g.copy = top.copy
        /\ g.phase \in {"returned", "visit_kid", "transform_child"}
    BY DEF PreorderLeaves, LeftByPreorder
  <1>2. PICK arg : DidPre(op, arg) BY DEF PreorderLeaves
  <1>3. /\ TrackerFits(pass, visited, HeldBy(stack), Len(heap), last, {})
        /\ top = stack[1] /\ top \in Frames /\ Tail(stack) \in Seq(Frames)
        /\ stack \in Seq(Frames) /\ HeldBy(stack) = Held(top) \cup HeldBy(Tail(stack))
        /\ DOMAIN did = {"pre", "post", "cut"} /\ Atop(top, Tail(stack))
    BY <1>1, TopFits DEF IInv, VisitOK, Shape
  <1>4. did'.pre = Put(did.pre, top.n, <<op, arg>>) /\ did'.post = did.post
    <2>1. PICK d, P : d = did /\ P = Put(did.pre, top.n, <<op, arg>>) OBVIOUS
    <2>2. did' = [d EXCEPT !.pre = P] BY <1>2, <2>1 DEF DidPre
    <2>3. "pre" \in DOMAIN d /\ "post" \in DOMAIN d BY <1>3, <2>1
    <2>4. [d EXCEPT !.pre = P].pre = P /\ [d EXCEPT !.pre = P].post = d.post BY <2>3
    <2> QED BY <2>1, <2>2, <2>4
  <1>5. FramesOf(stack) = {top} \cup FramesOf(Tail(stack)) BY <1>1, <1>3, FramesRest
  <1>6. FramesOf(stack') = {g} \cup FramesOf(Tail(stack)) BY <1>1, <1>3, FramesFront
  <1>7. top.n \notin DOMAIN did.pre BY <1>1, <1>5 DEF Traced
  <1>8. stack' # << >> BY <1>1, <1>3, InFront DEF Pushed
  <1>9. DOMAIN did'.pre = DOMAIN did.pre \cup {top.n} BY <1>4 DEF Put
  <1>10. Traced'
    <2>1. top.n \in DOMAIN visited BY <1>3 DEF TrackerFits, BusyAre, Held
    <2>2. ASSUME NEW f \in FramesOf(Tail(stack)) PROVE f.n # top.n
      <3>1. f.n \in HeldBy(Tail(stack))
        <4>1. PICK i \in DOMAIN Tail(stack) : f = Tail(stack)[i] BY <2>2 DEF FramesOf
        <4>2. f.n \in Held(Tail(stack)[i]) BY <4>1 DEF Held
        <4> QED BY <4>2 DEF HeldBy
      <3>2. top.n \notin HeldBy(Tail(stack)) BY <1>3 DEF Atop, Held
      <3> QED BY <3>1, <3>2
    <2>3. \A f \in FramesOf(stack') : f.phase = "preorder" => f.n \notin DOMAIN did'.pre
      BY <1>1, <1>5, <1>6, <1>9, <2>2 DEF Traced
    <2> QED BY <1>1, <1>4, <1>8, <1>9, <2>1, <2>3 DEF Traced
  <1>11. ASSUME NEW Q, QuietSet(Q)' PROVE QuietOn(Q)'
    <2>1. QuietSet(Q) BY <1>1, <1>4, <1>7, <1>11, QuietBefore
    <2>2. ASSUME g.n \in Q PROVE op \in {"keep", "prune"}
      <3>1. PICK n : n = top.n OBVIOUS
      <3>2. n \in DOMAIN did'.pre /\ did'.pre[n] = <<op, arg>> BY <1>4, <3>1 DEF Put
      <3>4. DidToPre(n)'[1] \in {"keep", "prune"}
        BY <1>1, <1>11, <2>2, <3>1 DEF QuietSet
      <3>5. DidToPre(n)' = <<op, arg>> BY <3>2 DEF DidToPre
      <3> QED BY <3>4, <3>5
    <2>3. FrameQuiet(top, Q, heap) BY <1>5, <2>1 DEF QuietOn
    <2>4. FrameQuiet(g, Q, heap) BY <1>1, <2>2, <2>3 DEF FrameQuiet
    <2>5. FramesOf(stack') \subseteq FramesOf(stack) \cup {g} BY <1>5, <1>6
    <2> QED BY <1>1, <2>1, <2>4, <2>5, QuietAfter
  <1>12. \A Q : QuietOn(Q)' BY <1>11 DEF QuietOn
  <1> QED BY <1>10, <1>12

\* The visit of the children begins.
LEMMA QuietAtKids ==
  ASSUME IInv, Ordinary, Traced, \A Q : QuietOn(Q), NEW g, AtKids(g)
  PROVE  Traced' /\ \A Q : QuietOn(Q)'
  <1>1. /\ pass' = pass /\ heap' = heap /\ returned' = returned /\ did' = did /\ last' = last
        /\ stack # << >> /\ stack' = Pushed(g, Tail(stack)) /\ g \in Frames
        /\ g.n = top.n /\ g.pre = top.pre /\ g.phase = "kids"
        /\ \/ top.pre = Self /\ ~g.extra /\ g.copy = top.copy /\ visited' = visited
           \/ /\ top.pre > Null /\ g.extra /\ g.copy = heap[top.pre]
              /\ visited' = try_start(visited, top.pre, visited[top.n].once)
    BY DEF AtKids
  <1>2. /\ top = stack[1] /\ top \in Frames /\ Tail(stack) \in Seq(Frames)
        /\ stack \in Seq(Frames) /\ heap \in Seq(AnyContent)
    BY <1>1, TopFits DEF IInv, VisitOK, Shape
  <1>3. FramesOf(stack') \subseteq FramesOf(stack) \cup {g} BY <1>1, <1>2, FramesAfter
  <1>4. stack' # << >> /\ Grown(heap, heap') BY <1>1, <1>2, InFront DEF Pushed, Grown
  <1>5. DOMAIN visited \subseteq DOMAIN visited' BY <1>1 DEF try_start
  <1>6. Traced' BY <1>1, <1>3, <1>4, <1>5 DEF Traced
  <1>7. top \in FramesOf(stack) BY <1>1, <1>2, FramesRest
  <1>8. ASSUME NEW Q, QuietSet(Q)' PROVE QuietOn(Q)'
    <2>1. QuietSet(Q) BY <1>1, <1>8, QuietBefore
    <2>2. FrameQuiet(top, Q, heap) BY <1>7, <2>1 DEF QuietOn
    <2>3. FrameQuiet(g, Q, heap)
      <3>1. top.n \in Q => top.pre = Self /\ top.copy = heap[top.n]
        BY <2>2 DEF FrameQuiet
      <3> QED BY <1>1, <3>1 DEF FrameQuiet, Self, Null
    <2> QED BY <1>1, <1>3, <1>4, <2>1, <2>3, QuietAfter
  <1>9. \A Q : QuietOn(Q)' BY <1>8 DEF QuietOn
  <1> QED BY <1>6, <1>9

\* At the start nothing is visited.
LEMMA QuietInit ==
  ASSUME Init
  PROVE  QuietInv
  <1>1. /\ visited = << >> /\ stack = << >> /\ last = << >> /\ returned = Self
        /\ did = [pre |-> << >>, post |-> << >>, cut |-> {}]
    BY DEF Init
  <1>2. DOMAIN did.pre = {} /\ DOMAIN did.post = {} /\ DOMAIN last = {} BY <1>1
  <1>3. FramesOf(stack) = {}
    <2>1. DOMAIN stack = {} BY <1>1
    <2> QED BY <2>1 DEF FramesOf
  <1> QED BY <1>1, <1>2, <1>3 DEF QuietInv, Traced, QuietOn

\* A step that leaves all as it is.
LEMMA QuietIdle ==
  ASSUME Ordinary, Traced, \A Q : QuietOn(Q), Idles
  PROVE  Traced' /\ \A Q : QuietOn(Q)'
  <1>1. /\ pass' = pass /\ heap' = heap /\ stack' = stack /\ returned' = returned
        /\ did' = did /\ last' = last /\ visited' = visited
    BY OrdinaryIs DEF Idles
  <1>2. Traced' BY <1>1 DEF Traced
  <1>3. ASSUME NEW Q PROVE QuietOn(Q)'
    <2>1. QuietOn(Q) OBVIOUS
    <2>2. QuietSet(Q)' => QuietSet(Q)
      BY <1>1 DEF QuietSet, Orig, Kids, DidToPre, DidToPost
    <2> QED BY <1>1, <2>1, <2>2 DEF QuietOn
  <1> QED BY <1>2, <1>3

\* The clone of a quiet node is dropped.
LEMMA QuietClone ==
  ASSUME IInv, ~pass.forceClone, stack # << >>, NEW hp, hp = Append(heap, top.copy),
         top.n \in 1..Len(heap), top.copy = heap[top.n],
         NEW fin, fin = Len(heap) + 1, DOMAIN visited \subseteq 1..Len(heap)
  PROVE  ~finish_changed(visited, hp, top.n, fin)
  <1>1. heap \in Seq(AnyContent) /\ Len(heap) \in Nat /\ top.copy \in AnyContent
    BY TopFits DEF IInv, VisitOK, Shape, Frames
  <1>2. hp[fin] = hp[top.n] BY <1>1
  <1>3. fin # Null /\ fin \notin 1..Len(heap) BY <1>1 DEF Null
  <1> QED BY <1>2, <1>3 DEF finish_changed, Differs

\* A visit of a quiet node ends with the node.
LEMMA QuietEnd ==
  ASSUME IInv, ~pass.forceClone, NEW Q, QuietSet(Q)', FrameQuiet(top, Q, heap),
         NEW f, NEW vis, NEW final, NEW hp, Ends(f, vis, final, hp), NEW fin, NEW ret,
         EndsWith(f, vis, final, hp, fin, ret)
  PROVE  /\ f.n \in Q => ret = f.n
         /\ f.extra /\ f.pre \in Q => fin = f.pre
  <1>1. /\ stack # << >> /\ f.n = top.n /\ fin = FinOf(f, final, hp)
        /\ ret = IF finish_changed(vis, hp, f.n, fin) THEN fin ELSE f.n
        /\ f.extra => f.pre \in 1..Len(heap)
    BY DEF Ends, Ending, EndsWith
  <1>2. /\ top \in Frames /\ FrameOK(top, Len(heap)) /\ heap \in Seq(AnyContent)
        /\ Len(heap) \in Nat /\ DOMAIN visited \subseteq 1..Len(heap)
        /\ top.n \in 1..Len(heap) /\ top.copy \in AnyContent
    BY <1>1, TopFits DEF IInv, VisitOK, Shape, TrackerFits, VisTyped, FrameOK, Frames
  <1>3. f.n \in Q => top.pre = Self /\ ~top.extra /\ top.copy = heap[top.n]
    BY <1>1 DEF FrameQuiet
  <1>4. ASSUME vis = visited, hp = Append(heap, top.copy), final = Len(heap) + 1,
               f = top, ~f.extra, f.n \in Q
        PROVE  ret = f.n
    <2>1. fin = final BY <1>1, <1>4 DEF FinOf
    <2>2. ~finish_changed(visited, hp, top.n, fin)
      BY <1>1, <1>2, <1>3, <1>4, <2>1, QuietClone
    <2> QED BY <1>1, <1>4, <2>2
  <1>5. CASE Prunes(f, vis, final, hp)
    <2>1. CASE /\ f = top /\ vis = visited /\ ~f.extra /\ top.pre = Self
               /\ final = Len(heap) + 1 /\ hp = Append(heap, top.copy)
      BY <1>4, <2>1
    <2>2. CASE /\ f = [top EXCEPT !.extra = TRUE] /\ top.pre > Null
               /\ final = top.pre /\ hp = heap
      <3>1. f.pre = top.pre BY <1>2, <2>2 DEF Frames
      <3>2. fin = final BY <1>1, <1>2, <2>2 DEF FinOf
      <3>3. top.pre # Self BY <2>2 DEF Null, Self
      <3> QED BY <1>3, <2>2, <3>1, <3>2, <3>3
    <2> QED BY <1>5, <2>1, <2>2 DEF Prunes
  <1>6. CASE Replaces(f, vis, final, hp)
    <2>1. ~f.extra /\ top.pre # Self BY <1>6 DEF Replaces, Null, Self
    <2> QED BY <1>3, <2>1
  <1>7. CASE PostorderLeaves(f, vis, final, hp)
    <2>1. PICK op, arg : op \in pass.post /\ PostorderDoes(op, arg, final, hp)
      BY <1>7 DEF PostorderLeaves
    <2>2. f = top /\ vis = visited BY <1>7 DEF PostorderLeaves
    <2>3. PICK m : m = object(top) OBVIOUS
    <2>4. did'.post = Put(did.post, m, <<op, arg>>) BY <2>1, <2>3, DidAtEnd
    <2>5. ASSUME m \in Q PROVE hp = Append(heap, top.copy) /\ final = Len(heap) + 1
      <3>1. m \in DOMAIN did'.post /\ did'.post[m] = <<op, arg>> BY <2>4 DEF Put
      <3>2. DidToPost(m)' = <<op, arg>> BY <3>1 DEF DidToPost
      <3>3. DidToPost(m)'[1] = "keep" BY <2>5 DEF QuietSet
      <3>4. op = "keep" BY <3>2, <3>3
      <3> QED BY <2>1, <3>4 DEF PostorderDoes
    <2>6. ASSUME f.n \in Q PROVE ret = f.n
      <3>1. m = f.n /\ ~f.extra BY <1>3, <2>2, <2>3, <2>6 DEF object
      <3> QED BY <1>4, <2>2, <2>5, <2>6, <3>1
    <2>7. ASSUME f.extra, f.pre \in Q PROVE fin = f.pre
      <3>1. m = f.pre BY <2>2, <2>3, <2>7 DEF object
      <3>2. top.copy = heap[f.pre] BY <2>2, <2>7 DEF FrameQuiet
      <3>3. hp = Append(heap, top.copy) /\ final = Len(heap) + 1 BY <2>5, <2>7, <3>1
      <3>4. Len(hp) > Len(heap) /\ hp[final] = top.copy BY <1>2, <3>3
      <3> QED BY <1>1, <2>7, <3>2, <3>4 DEF FinOf
    <2> QED BY <2>6, <2>7
  <1> QED BY <1>5, <1>6, <1>7 DEF Ends

\* When a visit ends.
LEMMA QuietEnds ==
  ASSUME IInv, IInv', StaleInv, Ordinary, ~pass.forceClone, Traced, \A Q : QuietOn(Q),
         NEW f, NEW vis, NEW final, NEW hp, Ends(f, vis, final, hp)
  PROVE  Traced' /\ \A Q : QuietOn(Q)'
  <1>1. PICK fin, ret : EndsWith(f, vis, final, hp, fin, ret) BY OrdinaryIs, EndUse
  <1>2. /\ pass' = pass /\ stack # << >> /\ f.extra \in BOOLEAN /\ f.n = top.n
        /\ DOMAIN last' = DOMAIN last \cup Held(f) /\ Grown(heap, heap')
        /\ stack' # << >> => DOMAIN visited \subseteq DOMAIN visited'
        /\ ret \in Nat
    BY <1>1 DEF Ends, Ending, EndsWith, Outcome, Grown
  <1>3. /\ \A a : IsDone(visited, a) => a \notin Held(f)
        /\ \A a \in DOMAIN last : IsDone(visited, a) /\ last'[a] = last[a]
        /\ last'[f.n] = ret /\ (f.extra => last'[f.pre] = fin)
        /\ \A a \in DOMAIN last' : a \in DOMAIN last \/ a = f.n \/ (f.extra /\ a = f.pre)
    BY <1>1, LastAtEnd
  <1>4. /\ top = stack[1] /\ top \in Frames /\ stack \in Seq(Frames)
        /\ StackFits(pass, Tail(stack), visited, heap, DOMAIN last, top.save)
    BY <1>2, TopFits DEF IInv, VisitOK, Shape
  <1>5. FramesOf(stack) = {top} \cup FramesOf(Tail(stack)) BY <1>2, <1>4, FramesRest
  <1>6. PICK m : m = object(top) OBVIOUS
  <1>7. did'.pre = did.pre BY DidAtEnd
  <1>8. \/ did'.post = did.post
        \/ /\ \E o : m \notin DOMAIN did.post /\ did'.post = Put(did.post, m, o)
           /\ m \in Held(f)
    <2>1. CASE ~PostorderLeaves(f, vis, final, hp) BY <2>1, DidAtEnd
    <2>2. CASE PostorderLeaves(f, vis, final, hp)
      <3>1. PICK op, arg : op \in pass.post /\ PostorderDoes(op, arg, final, hp)
        BY <2>2 DEF PostorderLeaves
      <3>2. did'.post = Put(did.post, m, <<op, arg>>) BY <1>6, <3>1, DidAtEnd
      <3>3. m \in Held(f) BY <1>6, <2>2 DEF PostorderLeaves, object, Held
      <3>4. m \notin DOMAIN did.post BY <1>3, <3>3 DEF Traced
      <3> QED BY <3>2, <3>3, <3>4
    <2> QED BY <2>1, <2>2
  <1>9. FramesOf(stack') = {} \/ \E q : GoesOnWith(f.n, q, ret) BY <1>1, FramesEnd
  <1>10. ASSUME NEW q, GoesOnWith(f.n, q, ret), NEW g, g = Resumed(q, ret)
         PROVE  /\ q \in FramesOf(stack) /\ q \in Frames /\ Waiting(q)
                /\ q.copy.kids[q.idx] = f.n /\ (q.extra => q.phase = "kids")
                /\ FramesOf(stack') \subseteq FramesOf(stack) \cup {g}
                /\ g.phase # "preorder"
    <2>1. /\ q \in FramesOf(Tail(stack)) /\ q \in Frames
          /\ Waiting(q) /\ q.copy.kids[q.idx] = f.n
          /\ FramesOf(stack') \subseteq FramesOf(Tail(stack)) \cup {g}
      BY <1>10 DEF GoesOnWith
    <2>2. q.extra => q.phase = "kids"
      <3>1. PICK i \in DOMAIN Tail(stack) : q = Tail(stack)[i] BY <2>1 DEF FramesOf
      <3> QED BY <1>4, <3>1 DEF StackFits, FrameFits, FrameOK
    <2>3. /\ q.phase = "kids" => g.phase = "kids"
          /\ q.phase = "visit_kid" => g.phase = "returned"
          /\ q.phase = "transform_child" => g.phase = "transformed"
      BY <1>2, <1>10, <2>1, ResumedFields
    <2> QED BY <1>5, <2>1, <2>2, <2>3 DEF Waiting
  <1>11. Traced'
    <2>1. DOMAIN did'.post \subseteq DOMAIN last' BY <1>2, <1>8 DEF Traced, Put
    <2>2. stack' # << >> => DOMAIN did'.pre \subseteq DOMAIN visited'
      BY <1>2, <1>7 DEF Traced
    <2>3. ~(stack' = << >> /\ returned' = Self)
      <3> SUFFICES ASSUME stack' = << >>, returned' = Self PROVE FALSE OBVIOUS
      <3>1. last' = << >> BY DEF IInv, VisitOK, Shape
      <3>2. DOMAIN last' = {} BY <3>1
      <3> QED BY <1>2, <3>2 DEF Held
    <2>4. ASSUME NEW g \in FramesOf(stack'), g.phase = "preorder"
          PROVE  g.n \notin DOMAIN did'.pre
      <3>1. g \in FramesOf(stack) BY <1>9, <1>10, <2>4
      <3> QED BY <1>7, <2>4, <3>1 DEF Traced
    <2> QED BY <2>1, <2>2, <2>3, <2>4 DEF Traced
  <1>12. ASSUME NEW Q, QuietSet(Q)' PROVE QuietOn(Q)'
    <2>1. QuietSet(Q) BY <1>2, <1>7, <1>8, <1>12, QuietBefore
    <2>2. /\ \A n \in Q \cap DOMAIN last : last[n] = n
          /\ \A g \in FramesOf(stack) : FrameQuiet(g, Q, heap)
      BY <2>1 DEF QuietOn
    <2>3. /\ f.n \in Q => ret = f.n
          /\ f.extra /\ f.pre \in Q => fin = f.pre
      <3>1. FrameQuiet(top, Q, heap) BY <1>5, <2>2
      <3> QED BY <1>1, <1>12, <3>1, QuietEnd
    <2>4. \A n \in Q \cap DOMAIN last' : last'[n] = n BY <1>3, <2>2, <2>3
    <2>5. ASSUME NEW g \in FramesOf(stack') PROVE FrameQuiet(g, Q, heap)
      <3>1. PICK q : GoesOnWith(f.n, q, ret) BY <1>9
      <3>2. CASE g \in FramesOf(stack) BY <2>2, <3>2
      <3>3. CASE g = Resumed(q, ret)
        <4>1. /\ q \in Frames /\ Waiting(q) /\ (q.extra => q.phase = "kids")
              /\ FrameQuiet(q, Q, heap) /\ (q.copy.kids[q.idx] \in Q => ret = q.copy.kids[q.idx])
          BY <1>10, <2>2, <2>3, <3>1, <3>3
        <4>2. \A n \in Q : \A i \in DOMAIN heap[n].kids : heap[n].kids[i] \in Q
          BY <2>1, QuietNodes
        <4> QED BY <1>2, <3>3, <4>1, <4>2, ResumedQuiet
      <3> QED BY <1>10, <3>1, <3>2, <3>3
    <2>6. \A g \in FramesOf(stack') : FrameQuiet(g, Q, heap')
      BY <1>2, <2>1, <2>5, QuietKept
    <2> QED BY <2>4, <2>6 DEF QuietOn
  <1>13. \A Q : QuietOn(Q)' BY <1>12 DEF QuietOn
  <1> QED BY <1>11, <1>13

\* In every step.
LEMMA QuietStep ==
  ASSUME IInv, StaleInv, QuietInv, [Next]_vars
  PROVE  QuietInv'
  <1>1. SomeStep /\ IInv' BY NextOK
  <1>2. pass' = pass BY DEF Next, vars
  <1>3. SUFFICES ASSUME Ordinary, ~pass.forceClone PROVE Traced' /\ \A Q : QuietOn(Q)'
    <2>1. Ordinary' => Ordinary BY <1>2 DEF Ordinary
    <2>2. ~pass'.forceClone => ~pass.forceClone BY <1>2
    <2> QED BY <1>3, <2>1, <2>2 DEF QuietInv
  <1>4. Traced /\ \A Q : QuietOn(Q) BY <1>3 DEF QuietInv
  <1>5. CASE Idles BY <1>3, <1>4, <1>5, QuietIdle
  <1>6. ASSUME NEW n, Starts(n) PROVE Traced' /\ \A Q : QuietOn(Q)'
    BY <1>3, <1>4, <1>6, QuietStarts
  <1>7. ASSUME NEW ret, HandsOn(ret) PROVE Traced' /\ \A Q : QuietOn(Q)'
    BY <1>3, <1>4, <1>7, QuietHandsOn
  <1>8. ASSUME NEW g, NEW op, PreorderLeaves(g, op) PROVE Traced' /\ \A Q : QuietOn(Q)'
    BY <1>3, <1>4, <1>8, QuietPreorder
  <1>9. ASSUME NEW g, AtKids(g) PROVE Traced' /\ \A Q : QuietOn(Q)'
    BY <1>3, <1>4, <1>9, QuietAtKids
  <1>10. ASSUME NEW f, NEW vis, NEW final, NEW hp, Ends(f, vis, final, hp)
         PROVE  Traced' /\ \A Q : QuietOn(Q)'
    BY <1>1, <1>3, <1>4, <1>10, QuietEnds
  <1> QED BY <1>1, <1>5, <1>6, <1>7, <1>8, <1>9, <1>10 DEF SomeStep

\* A chain of growing sets within S stops growing when it is longer than S is large.
LEMMA GrowthStops ==
  ASSUME NEW L \in Nat, NEW S, IsFiniteSet(S), Cardinality(S) <= L, NEW f, f[0] # {},
         \A i \in 0..L : f[i] \subseteq S, \A i \in 1..L : f[i - 1] \subseteq f[i]
  PROVE  \E j \in 1..L : f[j] = f[j - 1]
  <1> SUFFICES ASSUME \A j \in 1..L : f[j] # f[j - 1] PROVE FALSE OBVIOUS
  <1>1. ASSUME NEW i \in 0..L
        PROVE  IsFiniteSet(f[i]) /\ Cardinality(f[i]) \in Nat /\ Cardinality(f[i]) <= Cardinality(S)
    BY FS_Subset, FS_CardinalityType
  <1>2. Cardinality(S) \in Nat BY FS_CardinalityType
  <1> DEFINE Bad == {k \in 0..L : ~ (Cardinality(f[k]) >= k + 1)}
  <1>3. Bad = {}
    <2> SUFFICES ASSUME Bad # {} PROVE FALSE OBVIOUS
    <2>1. PICK k \in Bad : \A d \in Bad : k <= d
      <3>1. Bad \in SUBSET Nat OBVIOUS
      <3> HIDE DEF Bad
      <3> QED BY <3>1, LeastOf
    <2>2. k \in 0..L /\ ~ (Cardinality(f[k]) >= k + 1) OBVIOUS
    <2>3. k # 0
      <3>1. 0 \in 0..L OBVIOUS
      <3>2. Cardinality(f[0]) # 0 BY <1>1, <3>1, FS_EmptySet
      <3>3. Cardinality(f[0]) \in Nat BY <1>1, <3>1
      <3> QED BY <2>2, <3>2, <3>3
    <2>4. k \in 1..L /\ k - 1 \in 0..L /\ ~ (k <= k - 1) BY <2>2, <2>3
    <2>5. k - 1 \notin Bad BY <2>1, <2>4
    <2>6. Cardinality(f[k - 1]) >= k BY <2>4, <2>5
    <2>7. PICK x \in f[k] : x \notin f[k - 1] BY <2>4
    <2>8. Cardinality(f[k - 1] \cup {x}) = Cardinality(f[k - 1]) + 1
      BY <1>1, <2>4, <2>7, FS_AddElement
    <2>9. f[k - 1] \cup {x} \in SUBSET f[k] BY <2>4, <2>7
    <2>10. Cardinality(f[k - 1] \cup {x}) <= Cardinality(f[k])
      BY <1>1, <2>2, <2>9, FS_Subset
    <2>11. Cardinality(f[k - 1]) \in Nat /\ Cardinality(f[k]) \in Nat BY <1>1, <2>2, <2>4
    <2> QED BY <2>2, <2>4, <2>6, <2>8, <2>10, <2>11
  <1>4. Cardinality(f[L]) >= L + 1
    <2>1. L \in 0..L OBVIOUS
    <2> QED BY <1>3, <2>1
  <1>5. Cardinality(f[L]) \in Nat /\ Cardinality(f[L]) <= Cardinality(S) BY <1>1
  <1> QED BY <1>2, <1>4, <1>5

\* What is below a node of a graph is all that can be reached from it: n, and with
\* a node its children.
LEMMA BelowClosed ==
  ASSUME Len(heap) \in Nat, NEW O, O \subseteq 1..Len(heap), NEW n \in O,
         \A a \in O : \A i \in DOMAIN heap[a].kids : heap[a].kids[i] \in O
  PROVE  /\ n \in Below(n, {}) /\ Below(n, {}) \subseteq O
         /\ \A a \in Below(n, {}) :
              \A i \in DOMAIN heap[a].kids : heap[a].kids[i] \in Below(n, {})
  <1>1. PICK L \in Nat : L = Len(heap) OBVIOUS
  <1>2. PICK cut : cut = {} OBVIOUS
  <1>3. PICK f : IsGrow(f, n, cut) BY BelowIs
  <1>4. /\ Below(n, cut) = f[L] \ {Null} /\ f[0] = {n}
        /\ \A i \in 1..L : f[i] = Onward(heap, cut, f[i - 1])
    BY <1>1, <1>3 DEF IsGrow
  <1>5. \A i \in 1..L : f[i - 1] \subseteq f[i] BY <1>4 DEF Onward
  <1>6. \A x \in O : x # Null BY DEF Null
  <1>7. \A i \in 0..L : f[i] \subseteq O
    <2> DEFINE Bad == {k \in 0..L : ~ (f[k] \subseteq O)}
    <2> SUFFICES ASSUME Bad # {} PROVE FALSE OBVIOUS
    <2>1. PICK k \in Bad : \A d \in Bad : k <= d
      <3>1. Bad \in SUBSET Nat OBVIOUS
      <3> HIDE DEF Bad
      <3> QED BY <3>1, LeastOf
    <2>2. k # 0 BY <1>4
    <2>3. k \in 1..L /\ k - 1 \in 0..L /\ ~ (k <= k - 1) BY <2>2
    <2>4. f[k - 1] \subseteq O BY <2>1, <2>3
    <2>5. f[k] = Onward(heap, cut, f[k - 1]) BY <1>4, <2>3
    <2>6. \A x \in Onward(heap, cut, f[k - 1]) : x \in O
      <3> TAKE x \in Onward(heap, cut, f[k - 1])
      <3>1. \/ x \in f[k - 1]
            \/ \E a \in f[k - 1] :
                 x \in {heap[a].kids[i] : i \in DOMAIN heap[a].kids}
        BY DEF Onward
      <3>2. ASSUME NEW a \in f[k - 1], NEW i \in DOMAIN heap[a].kids, x = heap[a].kids[i]
            PROVE  x \in O
        BY <2>4, <3>2
      <3> QED BY <2>4, <3>1, <3>2
    <2> QED BY <2>5, <2>6
  <1>8. PICK j \in 1..L : f[j] = f[j - 1]
    <2>1. PICK S : S = 1..L OBVIOUS
    <2>2. IsFiniteSet(S) /\ Cardinality(S) = L
      <3>1. 1 \in Int /\ L \in Int OBVIOUS
      <3>2. IsFiniteSet(1..L) /\ Cardinality(1..L) = IF 1 > L THEN 0 ELSE L - 1 + 1
        BY <3>1, FS_Interval
      <3> QED BY <2>1, <3>2
    <2>3. \A i \in 0..L : f[i] \subseteq S BY <1>1, <1>7, <2>1
    <2>4. f[0] # {} BY <1>4
    <2> QED BY <1>5, <2>2, <2>3, <2>4, GrowthStops
  <1>9. \A i \in (j - 1)..L : f[i] = f[j - 1]
    <2> DEFINE Bad == {k \in (j - 1)..L : f[k] # f[j - 1]}
    <2> SUFFICES ASSUME Bad # {} PROVE FALSE OBVIOUS
    <2>1. PICK k \in Bad : \A d \in Bad : k <= d
      <3>1. Bad \in SUBSET Nat OBVIOUS
      <3> HIDE DEF Bad
      <3> QED BY <3>1, LeastOf
    <2>2. k # j - 1 /\ k # j BY <1>8
    <2>3. k \in 1..L /\ k - 1 \in (j - 1)..L /\ ~ (k <= k - 1) BY <2>2
    <2>4. f[k - 1] = f[j - 1] BY <2>1, <2>3
    <2>5. f[k] = Onward(heap, cut, f[k - 1]) /\ f[j] = Onward(heap, cut, f[j - 1])
      BY <1>4, <2>3
    <2> QED BY <1>8, <2>4, <2>5
  <1>10. f[L] = f[j - 1] BY <1>9
  <1>11. f[L] = Onward(heap, cut, f[L])
    <2>1. f[j] = Onward(heap, cut, f[j - 1]) BY <1>4
    <2> QED BY <1>8, <1>10, <2>1
  <1>12. f[L] \subseteq O BY <1>7
  <1>13. n \in f[L]
    <2>1. j - 1 \in 0..L OBVIOUS
    <2> DEFINE Bad == {k \in 0..L : n \notin f[k]}
    <2> SUFFICES ASSUME Bad # {} PROVE FALSE OBVIOUS
    <2>2. PICK k \in Bad : \A d \in Bad : k <= d
      <3>1. Bad \in SUBSET Nat OBVIOUS
      <3> HIDE DEF Bad
      <3> QED BY <3>1, LeastOf
    <2>3. k # 0 BY <1>4
    <2>4. k \in 1..L /\ k - 1 \in 0..L /\ ~ (k <= k - 1) BY <2>3
    <2>5. n \in f[k - 1] BY <2>2, <2>4
    <2> QED BY <1>5, <2>4, <2>5
  <1>14. Below(n, cut) = f[L] BY <1>4, <1>6, <1>12
  <1>15. ASSUME NEW a \in f[L], NEW i \in DOMAIN heap[a].kids PROVE heap[a].kids[i] \in f[L]
    <2>1. a \notin cut \cup {Null} BY <1>2, <1>6, <1>12
    <2>2. heap[a].kids[i] \in {heap[a].kids[k] : k \in DOMAIN heap[a].kids} OBVIOUS
    <2>3. heap[a].kids[i] \in Onward(heap, cut, f[L]) BY <2>1, <2>2 DEF Onward
    <2> QED BY <1>11, <2>3
  <1> QED BY <1>2, <1>12, <1>13, <1>14, <1>15

\* A node below which nothing is changed.
LEMMA QuietImplies ==
  ASSUME IInv, QuietInv
  PROVE  UnchangedKeepsIdentity
  <1> SUFFICES ASSUME Ordinary, ~pass.forceClone, NEW n \in Orig \cap DOMAIN last,
                      \A m \in Below(n, {}) : DidToPre(m)[1] \in {"keep", "prune"}
                                              /\ DidToPost(m)[1] = "keep"
               PROVE  last[n] = n
    BY DEF UnchangedKeepsIdentity
  <1>1. /\ pass \in Passes /\ heap \in Seq(AnyContent) /\ Len(heap) \in Nat
        /\ HeapOK(pass, heap)
    BY DEF IInv, VisitOK, Shape
  <1>2. PICK O : O = DOMAIN pass.kids OBVIOUS
  <1>3. /\ O = 1..Len(pass.kids) /\ Len(pass.kids) \in Nat
        /\ \A a \in O : pass.kids[a] \in Seq(O)
    <2>1. O = 1..Len(pass.kids) /\ Len(pass.kids) \in Nat BY <1>1, <1>2, KidsTyped
    <2>2. pass.kids \in Seq(Seq(O)) BY <1>1, <1>2, TransformAssumption
    <2> QED BY <1>2, <2>1, <2>2
  <1>4. O \subseteq 1..Len(heap) /\ \A a \in O : heap[a].kids = pass.kids[a]
    BY <1>1, <1>2, <1>3 DEF HeapOK
  <1>5. \A a \in O : \A i \in DOMAIN heap[a].kids : heap[a].kids[i] \in O
    BY <1>3, <1>4
  <1>6. n \in O BY <1>2 DEF Orig, Kids
  <1>7. PICK Q : Q = Below(n, {}) OBVIOUS
  <1>8. /\ n \in Q /\ Q \subseteq O
        /\ \A a \in Q : \A i \in DOMAIN heap[a].kids : heap[a].kids[i] \in Q
    BY <1>1, <1>4, <1>5, <1>6, <1>7, BelowClosed
  <1>9. QuietSet(Q) BY <1>2, <1>4, <1>7, <1>8 DEF QuietSet, Orig, Kids
  <1> QED BY <1>8, <1>9 DEF QuietInv, QuietOn

(***************************************************************************)
(* Whatever the pass and the IR: a visit of a subgraph in which the pass   *)
(* changes nothing gives back the node it was given, however the subgraph  *)
(* is shared with parts that do change; and if clones are forced, nothing  *)
(* of the IR that was visited is left in the result, unless the pass       *)
(* pruned or put it there.                                                 *)
(***************************************************************************)
THEOREM ClonesAreRight == Spec => []ClonesRight
  <1>1. Init => StaleInv /\ QuietInv /\ CloneInv BY StaleInit, QuietInit, CloneInit
  <1>2. IInv /\ StaleInv /\ QuietInv /\ CloneInv /\ [Next]_vars
          => (StaleInv /\ QuietInv /\ CloneInv)'
    BY StaleStep, QuietStep, CloneStep
  <1>3. IInv /\ QuietInv /\ CloneInv => ClonesRight
    BY QuietImplies, CloneImplies DEF ClonesRight
  <1>4. Spec => []IInv BY TransformInductive
  <1> QED BY <1>1, <1>2, <1>3, <1>4, PTL DEF Spec
=============================================================================
