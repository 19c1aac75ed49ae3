--------------------------- MODULE MCTransform ---------------------------
(***************************************************************************)
(* Passes for Transform.                                                   *)
(***************************************************************************)
EXTENDS Transform

\* 1 has the children 2 and 3, which share 4.
Diamond == <<<<2, 3>>, <<4>>, <<4>>, <<>>>>

\* 1 and 2 share 4, and 2 and 4 share 3, which has a child.
Ladder == <<<<2, 4>>, <<3, 4>>, <<5>>, <<3, 5>>, <<>>>>

\* A cycle from 3 back to 1, beside a shared node.
Cycle == <<<<2, 3>>, <<3>>, <<4, 1>>, <<>>>>

AllPre == {"keep", "edit", "prune", "null", "kid", "fresh", "visit_kid", "transform_child"}
AllPost == {"keep", "edit", "null", "kid"}
AllCalls == {"visitOnce", "visitAgain", "revisit_visited"}

Plain == [kids |-> Ladder, visitDagOnce |-> TRUE, forceClone |-> FALSE, pre |-> AllPre,
          post |-> AllPost, calls |-> {}, max_edits |-> 4]

SomePasses ==
  {Plain,
   \* an IR with a cycle
   [Plain EXCEPT !.kids = Cycle, !.max_edits = 3],
   \* a pass that says which nodes it visits again, and returns nodes from elsewhere
   [Plain EXCEPT !.kids = Diamond, !.pre = {"keep", "edit", "kid"},
                 !.post = {"keep", "edit", "other"}, !.calls = AllCalls],
   \* visitDagOnce = false
   [Plain EXCEPT !.kids = Diamond, !.visitDagOnce = FALSE, !.max_edits = 3],
   \* forceClone
   [Plain EXCEPT !.kids = Diamond, !.forceClone = TRUE, !.pre = @ \ {"kid"}, !.max_edits = 3]}
==========================================================================
