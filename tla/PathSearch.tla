----------------------------- MODULE PathSearch -----------------------------
(***************************************************************************)
(* How P4Testgen walks the paths of a P4 program: the symbolic executor    *)
(* steps an execution state, drops the successors whose constraints the    *)
(* solver refutes (or gives up on), follows one and keeps the others for   *)
(* later.  At the end of a path the test back end may write a test.  The   *)
(* strategies differ in which branch they take next.                       *)
(*                                                                         *)
(* The program is a tree of execution states; what the steppers and the    *)
(* solver compute about a state is given with the tree.                    *)
(***************************************************************************)
EXTENDS Integers, Sequences, SequencesExt, FiniteSets

CONSTANTS
  Node,         \* execution states; 1 is the initial one
  Coverable,    \* the nodes of the P4 program that coverage counts
  Invocations   \* what P4Testgen is started on and how: see PathSearchAssumption

ASSUME PathSearchAssumption ==
  \A i \in Invocations :
    /\ DOMAIN i = {"trees", "options", "selections"}
    /\ i.options \in
         [strategy : {"DEPTH_FIRST", "RANDOM_BACKTRACK", "GREEDY", "SELECTED"},
          max_tests : Nat,              \* --max-tests, 0 for no limit
          max_coverage : BOOLEAN,       \* --stop-metric MAX_NODE_COVERAGE
          only_covering : BOOLEAN,      \* --only-covering-tests
          strict : BOOLEAN,
          max_steps : Nat,              \* MAX_STEPS_WITHOUT_TEST, 1000 in the code
          timeouts : BOOLEAN]           \* whether the solver may give up
    /\ i.selections \subseteq Seq(Nat)  \* the lists given with --input-branches

VARIABLES
  tree,        \* the program
  options,     \* the command line, see PathSearchAssumption
  state,       \* executionState
  pc,          \* "run", "rollback", "done" or "threw"
  unexplored,  \* unexploredBranches
  potential,   \* potentialBranches of GreedyNodeSelection
  steps,       \* stepsWithoutTest
  visited,     \* visitedNodes
  testCount,
  selected,    \* the list given with --input-branches
  input,       \* SelectedBranches::selectedBranches: what is left of it
  decisions,   \* ExecutionState::selectedBranches of state
  ended,       \* the paths that ended, and what became of them
  lost,        \* states given up: solver timeouts, unimplemented features
  atLimit      \* history: the branches left when MAX_STEPS_WITHOUT_TEST was reached

search == <<unexplored, potential, steps, input, atLimit>>
backend == <<visited, testCount, ended>>
vars == <<tree, options, selected, state, pc, search, backend, decisions, lost>>

Strategy == options.strategy
kids(n) == tree.kids[n]
IsTerminal(n) == kids(n) = << >>

Init ==
  /\ \E i \in Invocations :
       /\ tree \in i.trees /\ options = i.options
       /\ selected \in i.selections /\ input = selected
  /\ state = 1 /\ pc = "run"
  /\ unexplored = << >> /\ potential = << >> /\ steps = 0
  /\ visited = {} /\ testCount = 0
  /\ decisions = << >> /\ ended = << >> /\ lost = {} /\ atLimit = {}

-----------------------------------------------------------------------------
\* evaluateBranch: a literal needs no solver; giving up counts as refuted.
evaluateBranch(n, slow) ==
  n \in tree.literal \/ (n \notin tree.unsat /\ n \notin slow)

\* SymbolicExecutor::step, when the solver gives up on the branches `slow`.
step(n, slow) == SelectSeq(kids(n), LAMBDA m : evaluateBranch(m, slow))

\* Branches the solver may give up on.
MaySlow(n) == IF options.timeouts THEN SUBSET (Range(kids(n)) \ tree.literal) ELSE {{}}

\* Mutant: the last one is popped, whichever was taken.
WithoutLast(s, x) == Front(s)
\* The candidate leaves the vector, and the last one takes its place.
Without(s, x) == Front([s EXCEPT ![x] = Last(s)])

\* Mutant: only the nodes ahead count.
HasNewAhead(n) == tree.ahead[n] \notin SUBSET visited
\* A branch has something to offer: nodes ahead of it, or met already.
HasNew(n) == tree.ahead[n] \cup tree.visits[n] \notin SUBSET visited

\* popPotentialBranch: the index of the first such candidate, 0 if none.
FirstNew(s) ==
  LET new == {x \in 1..Len(s) : HasNew(s[x])} IN
  IF new = {} THEN 0 ELSE CHOOSE x \in new : \A y \in new : x <= y

\* One is taken, the others are added to those to return to.
Keep(s, x, pending) == pending \o Without(s, x)

-----------------------------------------------------------------------------
\* pickSuccessor, of a step with no or one successor.
NoSuccessor(slow) ==
  /\ step(state, slow) = << >>
  /\ pc' = "rollback"
  /\ UNCHANGED <<state, search>>

OneSuccessor(slow) ==
  /\ Len(step(state, slow)) = 1
  /\ state' = step(state, slow)[1]
  /\ UNCHANGED <<pc, search>>

\* DepthFirstSearch and RandomBacktrack: any of several, at random.
PickRandom(slow) ==
  LET s == step(state, slow) IN
  /\ Len(s) > 1 /\ Strategy # "GREEDY"
  /\ \E x \in 1..Len(s) :
       /\ state' = s[x]
       /\ unexplored' = Keep(s, x, unexplored)
  /\ UNCHANGED <<pc, potential, steps, input, atLimit>>

\* GreedyNodeSelection: the first that covers something new, unless no test
\* has come for long; else any.
PickGreedy(slow) ==
  LET s == step(state, slow)
      greedy == steps + 1 < options.max_steps /\ FirstNew(s) # 0 IN
  /\ Len(s) > 1 /\ Strategy = "GREEDY"
  /\ steps' = steps + 1
  /\ \/ /\ greedy
        /\ state' = s[FirstNew(s)]
        /\ potential' = Keep(s, FirstNew(s), potential)
        /\ UNCHANGED <<unexplored, atLimit>>
     \/ /\ ~ greedy
        /\ \E x \in 1..Len(s) :
             /\ state' = s[x]
             /\ unexplored' = Keep(s, x, unexplored)
             /\ atLimit' = IF steps' < options.max_steps THEN atLimit
                                    ELSE atLimit \cup Range(Without(s, x))
        /\ UNCHANGED potential
  /\ UNCHANGED <<pc, input>>

\* One turn of runImpl's loop in a state that is not the end of a path.
Step ==
  /\ pc = "run" /\ Strategy # "SELECTED"
  /\ ~ IsTerminal(state) /\ state \notin tree.unimplemented
  /\ \E slow \in MaySlow(state) :
       /\ NoSuccessor(slow) \/ OneSuccessor(slow) \/ PickRandom(slow)
            \/ PickGreedy(slow)
       /\ lost' = lost \cup (slow \ tree.unsat)
  /\ UNCHANGED <<tree, options, selected, backend, decisions>>

\* handleUnimplemented.
Caught == pc' = IF options.strict \/ Strategy = "SELECTED" THEN "threw" ELSE "rollback"

\* A step, or a concolic function of the callback, throws.
Unimplemented ==
  /\ pc = "run" /\ state \in tree.unimplemented \ tree.filtered
  /\ Caught
  /\ lost' = lost \cup {state}
  /\ UNCHANGED <<tree, options, selected, state, search, backend, decisions>>

-----------------------------------------------------------------------------
\* Only where there is a choice is a number read from the input.
Unread(s) == IF Len(s) = 1 \/ input = << >> THEN input ELSE Tail(input)

\* SelectedBranches::runImpl: every successor gets its number.
SelectedStep ==
  /\ pc = "run" /\ Strategy = "SELECTED"
  /\ ~ IsTerminal(state) /\ state \notin tree.unimplemented
  /\ \E slow \in MaySlow(state) :
       LET s == step(state, slow)
           x == IF Len(s) = 1 THEN 1 ELSE IF input = << >> THEN 0 ELSE input[1]
       IN /\ input' = Unread(s)
          /\ IF x \in 1..Len(s)
             THEN state' = s[x] /\ decisions' = Append(decisions, x)
                    /\ UNCHANGED pc
             ELSE pc' = "done" /\ UNCHANGED <<state, decisions>>
          /\ lost' = lost \cup (slow \ tree.unsat)
  /\ UNCHANGED <<tree, options, selected, unexplored, potential, steps, atLimit, backend>>

-----------------------------------------------------------------------------
(***************************************************************************)
(* handleTerminalState and TestBackEnd::run, the callback.                 *)
(***************************************************************************)
needsToTerminate(n) == options.max_tests # 0 /\ n >= options.max_tests

\* A path ends; the search goes on unless the callback says it is over.
End(outcome, terminate) ==
  /\ pc = "run" /\ IsTerminal(state)
  /\ ended' = Append(ended, [leaf |-> state, outcome |-> outcome,
                             decisions |-> decisions])
  /\ steps' = 0
  /\ pc' = IF terminate \/ Strategy = "SELECTED" THEN "done" ELSE "rollback"
  /\ UNCHANGED <<tree, options, selected, state, unexplored, potential, input, atLimit,
                 decisions>>

\* The solver gives up on the constraints of the whole path.
Timeout ==
  /\ options.timeouts
  /\ End("timeout", FALSE)
  /\ UNCHANGED <<visited, testCount, lost>>

\* --output-packet-only, --dropped-packet-only, assertion mode.
Filtered ==
  /\ state \in tree.filtered
  /\ End("filtered", needsToTerminate(testCount))
  /\ UNCHANGED <<visited, testCount, lost>>

visitedOfAborted == visited

\* Concolic values that do not fit, or a tainted output port.
Aborted ==
  /\ state \in tree.aborted /\ state \notin tree.filtered \cup tree.unimplemented
  /\ End("aborted", needsToTerminate(testCount + 1))
  /\ testCount' = testCount + 1
  /\ visited' = visitedOfAborted
  /\ UNCHANGED lost

Ordinary ==
  state \notin tree.filtered \cup tree.aborted \cup tree.unimplemented
Updates == tree.visits[state] \notin SUBSET visited

\* --only-covering-tests: nothing new.
NotCovering ==
  /\ Ordinary /\ options.only_covering /\ Coverable # {} /\ ~ Updates
  /\ End("skipped", needsToTerminate(testCount))
  /\ UNCHANGED <<visited, testCount, lost>>

\* Mutant: coverage does not end the search.
stopsTooLate(n, covered) == needsToTerminate(n)
\* MAX_NODE_COVERAGE ends the search when all is covered.
stops(n, covered) == (options.max_coverage /\ covered = Coverable) \/ needsToTerminate(n)

Wanted == Ordinary /\ ~ (options.only_covering /\ Coverable # {} /\ ~ Updates)

\* The test is written.
Test ==
  /\ Wanted /\ state \notin tree.unwritable
  /\ visited' = visited \cup tree.visits[state]
  /\ testCount' = testCount + 1
  /\ End("test", stops(testCount + 1, visited'))
  /\ UNCHANGED lost

\* The writer throws, when the test is counted and its nodes are visited.
WriterThrows ==
  /\ pc = "run" /\ IsTerminal(state)
  /\ Wanted /\ state \in tree.unwritable
  /\ visited' = visited \cup tree.visits[state]
  /\ testCount' = testCount + 1
  /\ ended' = Append(ended, [leaf |-> state, outcome |-> "unwritten",
                             decisions |-> decisions])
  /\ Caught
  /\ UNCHANGED <<tree, options, selected, state, search, decisions, lost>>

Terminal ==
  Timeout \/ Filtered \/ Aborted \/ NotCovering \/ Test \/ WriterThrows

-----------------------------------------------------------------------------
(***************************************************************************)
(* The end of runImpl's loop: return to a branch that was left.            *)
(***************************************************************************)
NothingLeft ==
  /\ pc = "rollback" /\ unexplored = << >> /\ potential = << >>
  /\ pc' = "done"
  /\ UNCHANGED <<tree, options, selected, state, search, backend, decisions, lost>>

\* Which of the unexplored branches is next: the last, or any.
NextIndex ==
  IF Strategy = "DEPTH_FIRST" THEN {Len(unexplored)} ELSE 1..Len(unexplored)

Rollback ==
  /\ pc = "rollback" /\ unexplored # << >> /\ Strategy # "GREEDY"
  /\ \E x \in NextIndex :
       /\ state' = unexplored[x]
       /\ unexplored' = Without(unexplored, x)
  /\ pc' = "run"
  /\ UNCHANGED <<tree, options, selected, potential, steps, input, atLimit, backend,
                 decisions, lost>>

RollbackGreedy ==
  /\ pc = "rollback" /\ Strategy = "GREEDY" /\ FirstNew(potential) # 0
  /\ state' = potential[FirstNew(potential)]
  /\ potential' = Without(potential, FirstNew(potential))
  /\ pc' = "run"
  /\ UNCHANGED <<tree, options, selected, unexplored, steps, input, atLimit, backend,
                 decisions, lost>>

\* No branch offers anything new: all of them join the unexplored ones.
RollbackRandom ==
  LET all == unexplored \o potential IN
  /\ pc = "rollback" /\ Strategy = "GREEDY"
  /\ all # << >> /\ FirstNew(potential) = 0
  /\ \E x \in 1..Len(all) :
       /\ state' = all[x]
       /\ unexplored' = Without(all, x)
  /\ potential' = << >>
  /\ pc' = "run"
  /\ UNCHANGED <<tree, options, selected, steps, input, atLimit, backend, decisions, lost>>

Stopped == pc \in {"done", "threw"} /\ UNCHANGED vars

Next ==
  \/ Step \/ Unimplemented \/ SelectedStep \/ Terminal
  \/ NothingLeft \/ Rollback \/ RollbackGreedy \/ RollbackRandom
  \/ Stopped

Spec == Init /\ [][Next]_vars /\ WF_vars(Next)

-----------------------------------------------------------------------------
\* The ends of the paths through n that satisfy their constraints.
Leaves[n \in Node] ==
  IF IsTerminal(n) THEN {n}
  ELSE UNION {Leaves[m] : m \in {k \in Range(kids(n)) : evaluateBranch(k, {})}}

\* The states on the paths through n, from n on.
Below[n \in Node] == {n} \cup UNION {Below[m] : m \in Range(kids(n))}

(***************************************************************************)
(* No path is forgotten and none is walked twice: every end of a path that *)
(* can be reached has been dealt with once, or lies below exactly one of   *)
(* the states that the search still holds or has had to give up (whatever  *)
(* order popRandomBranch, popPotentialBranch and the roll-back take).      *)
(***************************************************************************)
EachPathOnce ==
  pc # "threw" /\ Strategy # "SELECTED" =>
    \A l \in Leaves[1] :
      Cardinality({x \in 1..Len(ended) : ended[x].leaf = l})
      + Cardinality({x \in 1..Len(unexplored) : l \in Leaves[unexplored[x]]})
      + Cardinality({x \in 1..Len(potential) : l \in Leaves[potential[x]]})
      + Cardinality({n \in lost : l \in Leaves[n]})
      + (IF pc = "run" /\ l \in Leaves[state] THEN 1 ELSE 0) = 1

(***************************************************************************)
(* depth_first.h: the branches kept are "alternative choices that could    *)
(* have been made along the current execution path", which is what keeps   *)
(* their number within the depth of the program times its branching.       *)
(***************************************************************************)
AlongCurrentPath ==
  Strategy = "DEPTH_FIRST" =>
    \A x \in 1..Len(unexplored) :
      \E m \in Node : unexplored[x] \in Range(kids(m)) /\ state \in Below[m]

Unwritten == \E x \in 1..Len(ended) : ended[x].outcome = "unwritten"

(***************************************************************************)
(* symbolic_executor.h on visitedNodes: "all nodes executed in any         *)
(* testcase that has been outputted", neither more nor less.  Once the     *)
(* writer has thrown, there are more: TestBackEnd::run counts a test and   *)
(* its nodes before it is written.                                         *)
(***************************************************************************)
VisitedByTests ==
  ~ Unwritten =>
    visited = UNION {tree.visits[ended[x].leaf] :
                       x \in {y \in 1..Len(ended) : ended[y].outcome = "test"}}

(***************************************************************************)
(* The search does not go on when --max-tests or full coverage is reached, *)
(* except after an exception of the writer, which skips both checks.       *)
(***************************************************************************)
StopsInTime ==
  pc \in {"run", "rollback"} /\ ~ Unwritten =>
    /\ options.max_tests # 0 => testCount < options.max_tests
    /\ options.max_coverage => visited # Coverable

(***************************************************************************)
(* greedy_node_cov.h on unexploredBranches: "There are no nodes associated *)
(* with the element's execution state that are uncovered".  So it is for   *)
(* every branch but those left at a choice that came when                  *)
(* MAX_STEPS_WITHOUT_TEST was reached: pickSuccessor does not look at what *)
(* they offer.  Those stay among the others when the next test has set     *)
(* stepsWithoutTest back to 0, and no later branch joins them unseen.      *)
(***************************************************************************)
UnexploredCovered ==
  Strategy = "GREEDY" =>
    \A x \in 1..Len(unexplored) :
      \/ tree.visits[unexplored[x]] \cup tree.ahead[unexplored[x]] \subseteq visited
      \/ unexplored[x] \in atLimit

\* The search comes to an end.
Terminates == <>(pc \in {"done", "threw"})

(***************************************************************************)
(* The numbers of the branches that lead to n, where there is a choice.    *)
(***************************************************************************)
Route[n \in Node] ==
  IF n = 1 THEN << >>
  ELSE LET p == CHOOSE m \in Node : n \in Range(kids(m))
           s == step(p, {})
       IN  IF Len(s) = 1 THEN Route[p]
           ELSE Append(Route[p], CHOOSE x \in 1..Len(s) : s[x] = n)

(***************************************************************************)
(* --input-branches: the path that ends is the one that the list describes *)
(* and no other, however many states without a choice lie on it.           *)
(***************************************************************************)
SelectionFollowed ==
  pc = "done" /\ Strategy = "SELECTED" =>
    \A l \in Leaves[1] :
      (\E x \in 1..Len(ended) : ended[x].leaf = l) <=> IsPrefix(Route[l], selected)

(***************************************************************************)
(* runImpl walks the right paths: each one once where the strategy         *)
(* searches, and the one that --input-branches describes where it is told. *)
(***************************************************************************)
RightPaths == EachPathOnce /\ SelectionFollowed

(***************************************************************************)
(* The vectors of branches to return to hold what their headers say: those *)
(* of a depth-first search lie along the current path, and a branch that   *)
(* offers something new is never among the unexplored ones of the greedy   *)
(* search, unless it was left there at the limit on steps without a test.  *)
(***************************************************************************)
ListsAsDocumented == AlongCurrentPath /\ UnexploredCovered

(***************************************************************************)
(* The accounts TestBackEnd::run keeps agree with the tests that came out, *)
(* and end the search in time; one way or another it ends.                 *)
(***************************************************************************)
TestsAccounted == [](VisitedByTests /\ StopsInTime) /\ Terminates
=============================================================================
