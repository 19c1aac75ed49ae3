---------------------------- MODULE MCPathSearch ----------------------------
(***************************************************************************)
(* Small programs.  States 1 and 5 have one successor, 2 has three, 4 and  *)
(* 6 have two; 3, 7, 8, 9 and 10 end a path.                               *)
(***************************************************************************)
EXTENDS PathSearch

TenNodes == 1..10
Kids == <<<<2>>, <<3, 4, 5>>, << >>, <<7, 8>>, <<6>>, <<9, 10>>,
          << >>, << >>, << >>, << >>>>

\* What the state after a branch has met, cumulatively, and what it is headed
\* for: choices for the three ways from state 2 and for two of the ends.
Met(v4, v5, v8, v10) ==
  [n \in TenNodes |-> CASE n \in {4, 7} -> v4 [] n \in {5, 6, 9} -> v5
                      [] n = 8 -> v4 \cup v8 [] n = 10 -> v5 \cup v10
                      [] OTHER -> {}]

Programs(metSets, aheads, unsats, unimplementeds, filtereds, aborteds,
         unwritables) ==
  {[kids |-> Kids, literal |-> {2, 6}, unsat |-> u, unimplemented |-> x,
    filtered |-> f, aborted |-> a, unwritable |-> w, visits |-> Met(m[1], m[2], m[3], m[4]),
    ahead |-> [n \in TenNodes |-> IF n \in {4, 8} THEN h ELSE {}]] :
      m \in metSets, h \in aheads, u \in unsats, x \in unimplementeds,
      f \in filtereds, a \in aborteds, w \in unwritables}

NoCover == {<<{}, {}, {}, {}>>}
SomeCover == {{}, {"a"}} \X {{}, {"b"}} \X {{}, {"b"}} \X {{}, {"a"}}

\* Refuted branches and features that are not implemented, no coverage.
Plain == Programs(NoCover, {{}}, SUBSET {4, 7, 9}, {{}, {4}, {6}, {7}},
                  {{}}, {{}}, {{}, {8}})

\* Coverage, with paths that give no test, or one the writer cannot express.
Covering == Programs(SomeCover, {{}, {"a"}, {"b"}}, {{}, {3}}, {{}, {6}},
                     {{}, {9}}, {{}, {8}, {10}}, {{}, {7}})

SomeSelections == UNION {[1..k -> 0..3] : k \in 0..3}

Defaults == [strategy |-> "GREEDY", max_tests |-> 0, max_coverage |-> FALSE,
             only_covering |-> FALSE, strict |-> FALSE, max_steps |-> 9, timeouts |-> FALSE]

AllStrategies ==
  {[trees |-> Plain, selections |-> {<< >>},
    options |-> [Defaults EXCEPT !.strategy = "DEPTH_FIRST", !.timeouts = TRUE]],
   [trees |-> Covering, selections |-> {<< >>},
    options |-> [Defaults EXCEPT !.strategy = "RANDOM_BACKTRACK", !.max_tests = 3,
                                 !.max_coverage = TRUE]],
   [trees |-> Covering, selections |-> {<< >>},
    options |-> [Defaults EXCEPT !.max_coverage = TRUE, !.only_covering = TRUE]],
   [trees |-> Covering, selections |-> {<< >>},
    options |-> [Defaults EXCEPT !.max_steps = 2]],
   [trees |-> Plain, selections |-> SomeSelections,
    options |-> [Defaults EXCEPT !.strategy = "SELECTED", !.max_tests = 1]]}
=============================================================================
