---------------------------- MODULE PassManager ----------------------------
(***************************************************************************)
(* The pass manager of the compiler (ir/pass_manager.{h,cpp}) running one  *)
(* tree of passes over one program, with backtracking.                     *)
(*                                                                         *)
(* A manager owns a vector of passes, each a plain visitor, a visitor that *)
(* implements Backtrack, or another manager.  It applies them in order.  A *)
(* pass may throw a Backtrack::trigger: the innermost manager catches it,  *)
(* pops its `backup` stack looking for an earlier Backtrack pass whose     *)
(* backtrack(trig) returns true, restores the program that pass was given, *)
(* and resumes there; if none accepts, the trigger is rethrown to the      *)
(* enclosing manager.  PassRepeated iterates its passes until the program  *)
(* stops changing, PassIf runs them when a condition holds.                *)
(*                                                                         *)
(* Passes are numbered 1..N in the order of a depth-first walk of the      *)
(* tree; 1 is the outermost manager.  The subtree of v is v..Last[v], so   *)
(* `passes.begin()` of manager m is m+1, `it++` is Last[it]+1, and         *)
(* `passes.end()` is Last[m]+1.                                            *)
(*                                                                         *)
(* A program is the sequence of the passes that changed it: two programs   *)
(* are the same IR::Node pointer iff they have the same history.           *)
(***************************************************************************)
EXTENDS Integers, Sequences

CONSTANTS
  N,            \* number of passes in the tree, managers included
  Last,         \* Last[v]: last pass of v's subtree
  Parent,       \* Parent[v]: the manager that owns v (v # 1)
  Kind,         \* what each pass is: see Leaf and Manager
  Repeats,      \* PassRepeated::repeats, 0 = until convergence
  StopOnError,  \* PassManager::stop_on_error
  Trigger,      \* the trigger types passes throw
  Handles,      \* Handles[v]: triggers a Backtrack pass knows what to do with
  MaxTries,     \* bound: alternatives a Backtrack pass can still try
  MaxErrors,    \* bound: errors reported in one run
  MaxLen,       \* bound: changes made to the program in one run
  Null          \* nullptr returned by a pass

Visitor == 1..N
LeafKind == {"visitor", "backtrack"}
ManagerKind == {"manager", "repeated", "if"}
Leaf == {v \in Visitor : Kind[v] \in LeafKind}
Manager == {v \in Visitor : Kind[v] \in ManagerKind}
Program == Seq(Visitor)

ASSUME ConstantAssumption ==
  /\ N \in Nat /\ N >= 1
  /\ Kind \in [Visitor -> LeafKind \cup ManagerKind]
  /\ Repeats \in [Visitor -> Nat]
  /\ StopOnError \in [Visitor -> BOOLEAN]
  /\ Handles \in [Visitor -> SUBSET Trigger]
  /\ MaxTries \in Nat /\ MaxErrors \in Nat /\ MaxLen \in Nat
  /\ Null \notin Program

\* The numbering is the depth-first numbering of a tree rooted at manager 1.
ASSUME TreeAssumption ==
  /\ Last \in [Visitor -> Visitor]
  /\ Parent \in [Visitor -> Visitor]
  /\ 1 \in Manager /\ Last[1] = N
  /\ \A v \in Visitor : v <= Last[v] /\ (v \in Leaf => Last[v] = v)
  /\ \A u, v \in Visitor : u < v /\ v <= Last[u] =>
       /\ Last[v] <= Last[u]
       /\ u <= Parent[v]
  /\ \A v \in Visitor \ {1} :
       /\ Parent[v] \in Manager /\ Parent[v] < v
       /\ Last[v] <= Last[Parent[v]]
       /\ Last[v] < Last[Parent[v]] => Parent[Last[v] + 1] = Parent[v]
  /\ \A m \in Manager : m < Last[m] => Parent[m + 1] = m

VARIABLES
  pc,         \* what `cur` is doing: see Control
  cur,        \* the pass, or the manager, that is executing
  node,       \* the program in hand: argument, result, or what was restored
  it,         \* per manager: the pass its loop is at
  program,    \* per manager: its local `program`
  entry,      \* per manager: the program its current walk began with
  backup,     \* per manager: its local stack of <<pass, program>>
  initial,    \* per manager: initial_error_count of its current walk
  early,      \* per manager: early_exit_flag
  running,    \* per manager: running
  iterations, \* per PassRepeated: walks completed, up to its repeats
  rinitial,   \* per PassRepeated: initial_error_count of the whole repetition
  errors,     \* ::P4::errorCount()
  tries,      \* per Backtrack pass: alternatives it has left
  trig,       \* the trigger in flight
  thrower     \* the pass that threw it

control == <<pc, cur, node>>
frames == <<it, program, entry, backup, initial, early, running,
            iterations, rinitial>>
vars == <<control, frames, errors, tries, trig, thrower>>

Control == {"apply", "loop", "returned", "catch", "finish", "done", "aborted"}

-----------------------------------------------------------------------------
(***************************************************************************)
(* Backtrack::never_backtracks, negated: a Backtrack pass may catch a      *)
(* trigger, a manager may when a pass below it may.                        *)
(***************************************************************************)
MayBacktrack(v) == \E u \in v..Last[v] : Kind[u] = "backtrack"

(***************************************************************************)
(* Backtrack::backtrack(trig) of one pass: true when it knows the trigger  *)
(* and still has an alternative to try.  PassManager::backtrack asks its   *)
(* passes in order and stops at the first that says yes.                   *)
(***************************************************************************)
AcceptsAgain(u) == Kind[u] = "backtrack" /\ trig \in Handles[u]
Accepts(u) == Kind[u] = "backtrack" /\ trig \in Handles[u] /\ tries[u] > 0

FirstAccepting(v, u) ==
  /\ u \in v..Last[v]
  /\ Accepts(u)
  /\ \A w \in v..(u - 1) : ~ Accepts(w)

\* init_apply marks the manager as running, apply_visitor clears the mark.
MarkRunning(m) == running' = [running EXCEPT ![m] = TRUE]
ClearRunning(m) == running' = [running EXCEPT ![m] = FALSE]

\* PassRepeated marks itself again before each walk of its passes.
RemarkUnmarked(m) == ClearRunning(m)
Remark(m) == MarkRunning(m)

\* Leave manager m with program p: back to the enclosing manager.
Return(m, p) ==
  /\ node' = p
  /\ IF m = 1 THEN pc' = "done" /\ cur' = 1
              ELSE pc' = "returned" /\ cur' = Parent[m]

\* A call of PassManager::apply_visitor on program p, up to its loop.
BeginKeepsBackup(m, p) ==
  /\ pc' = "loop" /\ cur' = m /\ node' = p
  /\ early' = [early EXCEPT ![m] = FALSE]
  /\ initial' = [initial EXCEPT ![m] = errors]
  /\ it' = [it EXCEPT ![m] = m + 1]
  /\ program' = [program EXCEPT ![m] = p]
  /\ entry' = [entry EXCEPT ![m] = p]
  /\ UNCHANGED backup
Begin(m, p) ==
  /\ pc' = "loop" /\ cur' = m /\ node' = p
  /\ early' = [early EXCEPT ![m] = FALSE]
  /\ initial' = [initial EXCEPT ![m] = errors]
  /\ backup' = [backup EXCEPT ![m] = << >>]
  /\ it' = [it EXCEPT ![m] = m + 1]
  /\ program' = [program EXCEPT ![m] = p]
  /\ entry' = [entry EXCEPT ![m] = p]

Init ==
  /\ pc = "apply" /\ cur = 1 /\ node = << >>
  /\ it = [m \in Visitor |-> m]
  /\ program = [m \in Visitor |-> << >>]
  /\ entry = [m \in Visitor |-> << >>]
  /\ backup = [m \in Visitor |-> << >>]
  /\ initial = [m \in Visitor |-> 0]
  /\ early = [m \in Visitor |-> FALSE]
  /\ running = [m \in Visitor |-> FALSE]
  /\ iterations = [m \in Visitor |-> 0]
  /\ rinitial = [m \in Visitor |-> 0]
  /\ errors = 0
  /\ tries = [v \in Visitor |-> MaxTries]
  /\ trig \in Trigger
  /\ thrower = 1

-----------------------------------------------------------------------------
\* program->apply(manager): init_apply, then apply_visitor of its class.
ApplyManager ==
  /\ pc = "apply" /\ cur \in Manager /\ Kind[cur] # "repeated"
  /\ MarkRunning(cur)
  /\ Begin(cur, node)
  /\ UNCHANGED <<iterations, rinitial, errors, tries, trig, thrower>>

\* PassIf whose cond() is false: the program goes through unchanged.
SkipIf ==
  /\ pc = "apply" /\ cur \in Manager /\ Kind[cur] = "if"
  /\ MarkRunning(cur)
  /\ Return(cur, node)
  /\ UNCHANGED <<it, program, entry, backup, initial, early, iterations,
                 rinitial, errors, tries, trig, thrower>>

ApplyRepeated ==
  /\ pc = "apply" /\ cur \in Manager /\ Kind[cur] = "repeated"
  /\ MarkRunning(cur)
  /\ iterations' = [iterations EXCEPT ![cur] = 0]
  /\ rinitial' = [rinitial EXCEPT ![cur] = errors]
  /\ Begin(cur, node)
  /\ UNCHANGED <<errors, tries, trig, thrower>>

\* What is saved before pass v of manager m runs.
BackupOfInput(m, v) == <<v, entry[m]>>
BackupEntry(m, v) == <<v, program[m]>>

\* Head of the loop over passes: save a backup if *it may backtrack, run it.
Invoke ==
  LET v == it[cur] IN
  /\ pc = "loop" /\ v <= Last[cur]
  /\ backup' = IF MayBacktrack(v)
               THEN [backup EXCEPT ![cur] = Append(@, BackupEntry(cur, v))]
               ELSE backup
  /\ pc' = "apply" /\ cur' = v /\ node' = program[cur]
  /\ UNCHANGED <<it, program, entry, initial, early, running, iterations,
                 rinitial, errors, tries, trig, thrower>>

\* it == passes.end(): the loop is over.
EndLoop ==
  /\ pc = "loop" /\ it[cur] > Last[cur]
  /\ pc' = "finish"
  /\ UNCHANGED <<cur, node, frames, errors, tries, trig, thrower>>

(***************************************************************************)
(* What a leaf pass may do: report an error, call early_exit() on the      *)
(* manager that runs it, and either return (the same program, a changed    *)
(* one, or nullptr) or throw a trigger.                                    *)
(***************************************************************************)
ReportErrors == errors' \in {errors, errors + 1} /\ errors' <= MaxErrors

LeafReturns ==
  /\ pc = "apply" /\ cur \in Leaf
  /\ ReportErrors
  /\ \/ node' = node
     \/ Len(node) < MaxLen /\ node' = Append(node, cur)
     \/ node' = Null
  /\ \E exit \in BOOLEAN :
       early' = [early EXCEPT ![Parent[cur]] = @ \/ exit]
  /\ pc' = "returned" /\ cur' = Parent[cur]
  /\ UNCHANGED <<it, program, entry, backup, initial, running, iterations,
                 rinitial, tries, trig, thrower>>

LeafThrows ==
  /\ pc = "apply" /\ cur \in Leaf
  /\ ReportErrors
  /\ trig' \in Trigger
  /\ thrower' = cur
  /\ pc' = "catch" /\ cur' = Parent[cur]
  /\ UNCHANGED <<node, frames, tries>>

\* A pass returned `node`: the early exits, then it++ or leave the loop.
MustStopDespiteErrors(m) == early[m] \/ node = Null
MustStopUnlessNull(m) == early[m] \/ (StopOnError[m] /\ errors > initial[m])
MustStop(m) ==
  \/ early[m]
  \/ StopOnError[m] /\ errors > initial[m]
  \/ node = Null

Returned ==
  LET stop == MustStop(cur) IN
  /\ pc = "returned"
  /\ program' = [program EXCEPT ![cur] = node]
  /\ early' = [early EXCEPT ![cur] = stop]
  /\ IF stop THEN pc' = "finish" /\ it' = it
             ELSE pc' = "loop" /\ it' = [it EXCEPT ![cur] = Last[@] + 1]
  /\ UNCHANGED <<cur, node, entry, backup, initial, running, iterations,
                 rinitial, errors, tries, trig, thrower>>

-----------------------------------------------------------------------------
(***************************************************************************)
(* The catch clause.  Entries of the pass at `it` are dropped; otherwise   *)
(* `it` and `program` move to the top entry and its pass is asked.  The    *)
(* entry of a pass that refuses is dropped by the next turn of the loop,   *)
(* since it is then the pass at `it`.                                      *)
(***************************************************************************)
Top(m) == backup[m][Len(backup[m])]

\* What a manager goes back to: the program saved with the top entry.
RestoredNothing(m) == node
RestoredProgram(m) == Top(m)[2]

\* The top entry is the one of the pass at `it`.
NoOwnEntry(m) == FALSE
OwnEntry(m) == Top(m)[1] = it[m]

PopOwn ==
  /\ pc = "catch" /\ backup[cur] # << >> /\ OwnEntry(cur)
  /\ backup' = [backup EXCEPT ![cur] = SubSeq(@, 1, Len(@) - 1)]
  /\ UNCHANGED <<control, it, program, entry, initial, early, running,
                 iterations, rinitial, errors, tries, trig, thrower>>

Restore ==
  /\ pc = "catch" /\ backup[cur] # << >> /\ ~ OwnEntry(cur)
  /\ it' = [it EXCEPT ![cur] = Top(cur)[1]]
  /\ program' = [program EXCEPT ![cur] = RestoredProgram(cur)]

Accept ==
  /\ Restore
  /\ \E u \in Visitor :
       /\ FirstAccepting(Top(cur)[1], u)
       /\ tries' = [tries EXCEPT ![u] = @ - 1]
  /\ pc' = "loop" /\ node' = RestoredProgram(cur)
  /\ UNCHANGED <<cur, entry, backup, initial, early, running, iterations,
                 rinitial, errors, trig, thrower>>

Refuse ==
  /\ Restore
  /\ \A u \in Visitor : ~ FirstAccepting(Top(cur)[1], u)
  /\ UNCHANGED <<control, entry, backup, initial, early, running, iterations,
                 rinitial, errors, tries, trig, thrower>>

\* backup is empty: `throw;` to the enclosing manager, or out of the root.
Rethrow ==
  /\ pc = "catch" /\ backup[cur] = << >>
  /\ IF cur = 1 THEN pc' = "aborted" /\ cur' = 1
                ELSE pc' = "catch" /\ cur' = Parent[cur]
  /\ UNCHANGED <<node, frames, errors, tries, trig, thrower>>

-----------------------------------------------------------------------------
\* End of PassManager::apply_visitor for a plain manager or a PassIf.
FinishManager ==
  /\ pc = "finish" /\ Kind[cur] # "repeated"
  /\ ClearRunning(cur)
  /\ Return(cur, program[cur])
  /\ UNCHANGED <<it, program, entry, backup, initial, early, iterations,
                 rinitial, errors, tries, trig, thrower>>

\* iterations++, counted only as far as it is compared with `repeats`.
Count(m) ==
  iterations' = [iterations EXCEPT ![m] = IF @ < Repeats[m] THEN @ + 1 ELSE @]

\* One turn of PassRepeated's loop has ended with newprogram = program[cur].
Failed(m) == StopOnError[m] /\ errors > rinitial[m]

ConvergedByCount(m) ==
  program[m] = Null \/ (Repeats[m] # 0 /\ iterations[m] + 1 > Repeats[m])
Converged(m) ==
  \/ program[m] = entry[m]
  \/ program[m] = Null
  \/ Repeats[m] # 0 /\ iterations[m] + 1 > Repeats[m]

RepeatFailed ==
  /\ pc = "finish" /\ Kind[cur] = "repeated" /\ Failed(cur)
  /\ ClearRunning(cur)
  /\ Return(cur, entry[cur])
  /\ UNCHANGED <<it, program, entry, backup, initial, early, iterations,
                 rinitial, errors, tries, trig, thrower>>

RepeatDone ==
  /\ pc = "finish" /\ Kind[cur] = "repeated" /\ ~ Failed(cur)
  /\ Converged(cur)
  /\ ClearRunning(cur)
  /\ Count(cur)
  /\ Return(cur, program[cur])
  /\ UNCHANGED <<it, program, entry, backup, initial, early, rinitial,
                 errors, tries, trig, thrower>>

RepeatAgain ==
  /\ pc = "finish" /\ Kind[cur] = "repeated" /\ ~ Failed(cur)
  /\ ~ Converged(cur)
  /\ Count(cur)
  /\ Remark(cur)
  /\ Begin(cur, program[cur])
  /\ UNCHANGED <<rinitial, errors, tries, trig, thrower>>

\* The outermost apply has returned, or the trigger has left it.
Terminated == pc \in {"done", "aborted"} /\ UNCHANGED vars

Next ==
  \/ ApplyManager \/ SkipIf \/ ApplyRepeated
  \/ Invoke \/ EndLoop
  \/ LeafReturns \/ LeafThrows \/ Returned
  \/ PopOwn \/ Accept \/ Refuse \/ Rethrow
  \/ FinishManager \/ RepeatFailed \/ RepeatDone \/ RepeatAgain
  \/ Terminated

Spec == Init /\ [][Next]_vars

\* The compiler is one thread that keeps running.
FairSpec == Spec /\ WF_vars(Next)
-----------------------------------------------------------------------------
(***************************************************************************)
(* Properties.                                                             *)
(***************************************************************************)
TypeOK ==
  /\ pc \in Control
  /\ cur \in Visitor
  /\ node \in Program \cup {Null}
  /\ it \in [Visitor -> 1..(N + 1)]
  /\ program \in [Visitor -> Program \cup {Null}]
  /\ entry \in [Visitor -> Program]
  /\ backup \in [Visitor -> Seq(Visitor \X Program)]
  /\ initial \in [Visitor -> Nat]
  /\ early \in [Visitor -> BOOLEAN]
  /\ running \in [Visitor -> BOOLEAN]
  /\ iterations \in [Visitor -> Nat]
  /\ rinitial \in [Visitor -> Nat]
  /\ errors \in Nat
  /\ tries \in [Visitor -> 0..MaxTries]
  /\ trig \in Trigger
  /\ thrower \in Visitor

\* A walk of m's passes is under way: m encloses cur, or is cur and has begun.
Walking(m) ==
  /\ m \in Manager
  /\ pc \notin {"done", "aborted"}
  /\ \/ m < cur /\ cur <= Last[m]
     \/ m = cur /\ pc # "apply"

\* p is q with further changes, all made by passes in lo..hi.
Extends(p, q, lo, hi) ==
  /\ Len(q) <= Len(p)
  /\ \A i \in 1..Len(q) : p[i] = q[i]
  /\ \A i \in (Len(q) + 1)..Len(p) : lo <= p[i] /\ p[i] <= hi

(***************************************************************************)
(* While a manager walks its passes, the program it holds is the one the   *)
(* walk began with, changed only by passes before `it`: after any number   *)
(* of triggers, refusals, rethrows and nested restarts, nothing done by    *)
(* the pass at `it` or a later one is left (apply_visitor's                *)
(* `program = backup.back().second`).                                      *)
(***************************************************************************)
ChangedOnlyByEarlierPasses ==
  \A m \in Manager :
    Walking(m) /\ ~ (m = cur /\ pc = "finish") =>
      Extends(program[m], entry[m], m + 1, it[m] - 1)

(***************************************************************************)
(* Every saved program is safe to go back to: it has been changed only by  *)
(* passes before the one it was saved for, and the stack is in pass order, *)
(* so popping it never skips a nearer backtracking point.                  *)
(***************************************************************************)
BackupsRestorable ==
  \A m \in Manager : Walking(m) =>
    /\ \A i \in 1..Len(backup[m]) :
         LET e == backup[m][i] IN
         /\ m < e[1] /\ e[1] <= it[m]
         /\ Extends(e[2], entry[m], m + 1, e[1] - 1)
    /\ \A i, j \in 1..Len(backup[m]) :
         i < j => backup[m][i][1] <= backup[m][j][1]

(***************************************************************************)
(* No pass changes the program twice, and no change is out of pass order,  *)
(* except between passes repeated by one PassRepeated: a backtrack never   *)
(* applies a pass on top of its own earlier, rolled-back result.           *)
(***************************************************************************)
ChangesInPassOrder ==
  node # Null =>
    \A i, j \in 1..Len(node) : i < j /\ node[i] >= node[j] =>
      \E m \in Manager : /\ Kind[m] = "repeated"
                         /\ {node[i], node[j]} \subseteq m..Last[m]

(***************************************************************************)
(* Once an error has been reported under a manager that stops on errors,   *)
(* that manager does not move on to another pass: the only pass it may     *)
(* still start is one it has just backtracked to.                          *)
(***************************************************************************)
OnlyRetriesAfterErrors ==
  pc = "loop" /\ StopOnError[cur] /\ errors > initial[cur] =>
    backup[cur] # << >> /\ Top(cur)[1] = it[cur]

\* No pass is ever applied to nullptr.
NullNeverApplied == pc \in {"apply", "loop"} => node # Null

\* BUG_CHECK(running, "not calling apply properly") never fires.
RunningWhileWalking == pc = "loop" => running[cur]

(***************************************************************************)
(* A trigger is handled only by a pass before the one that threw it: never *)
(* by the thrower itself, a pass after it, or a sibling nested later.      *)
(***************************************************************************)
HandledByAnEarlierPass ==
  [][\A u \in Visitor : tries'[u] # tries[u] => u < thrower]_vars

(***************************************************************************)
(* The manager as PassSequence sees it, for trees without a PassRepeated   *)
(* (which applies passes again on purpose): a trigger that some pass       *)
(* accepts undoes the changes made since that pass started, and no others. *)
(***************************************************************************)
Position ==
  CASE pc = "apply" -> cur - 1
    [] pc = "loop" -> it[cur] - 1
    [] pc = "returned" -> Last[it[cur]]
    [] pc = "finish" -> Last[cur]
    [] pc \in {"catch", "aborted"} -> thrower - 1
    [] pc = "done" -> N

Abstract == INSTANCE PassSequence WITH prog <- node, at <- Position

BacktrackingIsUndo == Abstract!Spec

\* Every run ends: the compiler returns a program or gives up on a trigger.
Termination == <>(pc \in {"done", "aborted"})
=============================================================================
