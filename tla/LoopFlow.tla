------------------------------ MODULE LoopFlow ------------------------------
(***************************************************************************)
(* The way a ControlFlowVisitor goes over loops (ir/loop-visitor.cpp, with *)
(* the globals of ir/visitor.h), for a visitor like ComputeDefUse that     *)
(* carries the writes of a variable that may reach the current point: the  *)
(* operator Visit.  Beside it the program is run, every condition coming   *)
(* out either way; the run is what the analysis has to foresee.            *)
(*                                                                         *)
(* A statement is a record: a write or a read of the variable, a break or  *)
(* a continue, a block, an if, a for or a for-in.  Reads and writes are    *)
(* numbered.                                                               *)
(***************************************************************************)
EXTENDS Integers, Sequences, FiniteSets

CONSTANT LoopPrograms     \* the programs to be analysed and run

VARIABLES
  found,     \* what the analysis found: the pairs of a read and a write that reaches it
  todo,      \* the statements still to be run, innermost first
  value,     \* the last write that was run
  lastRead   \* history: the last read that was run and the write it saw

loopVars == <<found, todo, value, lastRead>>

Write(w) == [op |-> "write", id |-> w]
Read(r) == [op |-> "read", id |-> r]
Break == [op |-> "break"]
Continue == [op |-> "continue"]
Block(s) == [op |-> "block", body |-> s]
If(t, e) == [op |-> "if", then |-> t, else |-> e]
Empty == Block(<<>>)
For(cond, body, updates) == [op |-> "for", first |-> cond, body |-> body, updates |-> updates]
ForIn(ref, body) == [op |-> "for_in", first |-> ref, body |-> body, updates |-> Empty]

(***************************************************************************)
(* The analysis.  The state of a visit is that of the visitor, v, and the  *)
(* globals it shares with its clones: none, or the visitor merged there.   *)
(***************************************************************************)
visitor_flow_merge(a, b) == [defs |-> a.defs \cup b.defs,
                     unreachable |-> a.unreachable /\ b.unreachable]

None == <<>>
flow_merge_global_to(global, v) ==
  IF global = None THEN <<v>> ELSE <<visitor_flow_merge(global[1], v)>>
flow_merge_global_from(v, global) ==
  IF global = None THEN v ELSE visitor_flow_merge(v, global[1])

RECURSIVE Visit(_, _), ForLoop(_, _), ForInLoop(_, _), VisitAll(_, _)

VisitAll(body, r) ==
  IF body = <<>> THEN r ELSE VisitAll(Tail(body), Visit(Head(body), r))

\* The loop in ForStatement::visit_children; r is the visitor at the top of it.
ForLoop(s, r) ==
  LET tested == Visit(s.first, r)
      inloop == Visit(s.body, tested)
      updated == Visit(s.updates, [inloop EXCEPT !.v = flow_merge_global_from(@, inloop.cont)])
      next == [updated EXCEPT !.v = visitor_flow_merge(@, r.v)]
  IN  IF next.v = r.v THEN [next EXCEPT !.v = tested.v] ELSE ForLoop(s, next)

ForInLoop(s, r) ==
  LET inloop == Visit(s.body, Visit(s.first, r))
      next == [inloop EXCEPT !.v = visitor_flow_merge(flow_merge_global_from(@, inloop.cont), r.v)]
  IN  IF next.v = r.v THEN next ELSE ForInLoop(s, next)

\* SaveGlobal around the loop: an inner loop has breaks and continues of its own.
\* Mutation: those of the outer loop are not put back.
SaveGlobalLost(r, out) == [out EXCEPT !.v = flow_merge_global_from(@, out.brk),
                                      !.brk = None, !.cont = None]
SaveGlobal(r, out) == [out EXCEPT !.v = flow_merge_global_from(@, out.brk),
                                  !.brk = r.brk, !.cont = r.cont]
WithoutGlobals(r) == [r EXCEPT !.brk = None, !.cont = None]

VisitIf(s, r) ==
  LET t == Visit(s.then, r)
      e == Visit(s.else, [t EXCEPT !.v = r.v])
  IN  [e EXCEPT !.v = visitor_flow_merge(t.v, @)]

Visit(s, r) ==
  CASE s.op = "write" -> [r EXCEPT !.v.defs = {s.id}]
    [] s.op = "read" -> [r EXCEPT !.found = @ \cup ({s.id} \X r.v.defs)]
    [] s.op = "break" -> [r EXCEPT !.brk = flow_merge_global_to(@, r.v),
                                   !.v.unreachable = TRUE]
    [] s.op = "continue" -> [r EXCEPT !.cont = flow_merge_global_to(@, r.v),
                                      !.v.unreachable = TRUE]
    [] s.op = "block" -> VisitAll(s.body, r)
    [] s.op = "if" -> VisitIf(s, r)
    [] s.op = "for" -> SaveGlobal(r, ForLoop(s, WithoutGlobals(r)))
    [] s.op = "for_in" -> SaveGlobal(r, ForInLoop(s, WithoutGlobals(r)))

Fresh == [v |-> [defs |-> {}, unreachable |-> FALSE], brk |-> None, cont |-> None,
          found |-> {}]

(***************************************************************************)
(* The run.  A loop that is being run is on todo as "again"; behind its    *)
(* body, "mark" is where a continue leads to.                              *)
(***************************************************************************)
Again(s) == [op |-> "again", loop |-> s]
Mark(s) == [op |-> "mark", loop |-> s]

NoRead == <<0, 0>>
now == Head(todo)
Running(op) == todo # <<>> /\ now.op = op
rest == Tail(todo)
Do(s) == todo' = s /\ UNCHANGED <<found, value, lastRead>>

\* What is left after the first statement of kind op.
After(op) ==
  LET i == CHOOSE j \in DOMAIN todo : /\ todo[j].op = op
                                      /\ \A k \in 1..(j - 1) : todo[k].op # op
  IN  SubSeq(todo, i + 1, Len(todo))

RunWrite ==
  /\ Running("write")
  /\ value' = now.id /\ todo' = rest /\ UNCHANGED <<found, lastRead>>

RunRead ==
  /\ Running("read")
  /\ lastRead' = <<now.id, value>> /\ todo' = rest /\ UNCHANGED <<found, value>>

RunBlock == Running("block") /\ Do(now.body \o rest)

RunIf == Running("if") /\ (Do(<<now.then>> \o rest) \/ Do(<<now.else>> \o rest))

\* The condition of a for is evaluated each time, that of a for-in cannot be seen.
RunLoop ==
  /\ todo # <<>> /\ now.op \in {"for", "for_in", "again"}
  /\ LET s == IF now.op = "again" THEN now.loop ELSE now
         turn == <<s.body, Mark(s), s.updates, Again(s)>>
     IN  IF s.op = "for"
         THEN /\ lastRead' = <<s.first.id, value>>
              /\ todo' \in {rest, turn \o rest}
              /\ UNCHANGED <<found, value>>
         ELSE Do(rest) \/ Do(<<s.first>> \o turn \o rest)

RunMark == Running("mark") /\ Do(rest)
RunBreak == Running("break") /\ Do(After("again"))
RunContinue == Running("continue") /\ Do(After("mark"))

LoopInit ==
  /\ \E p \in LoopPrograms : /\ found = Visit(p, Fresh).found
                         /\ todo = <<p>>
  /\ value = 0
  /\ lastRead = NoRead

LoopNext == RunWrite \/ RunRead \/ RunBlock \/ RunIf \/ RunLoop \/ RunMark \/ RunBreak
        \/ RunContinue

LoopSpec == LoopInit /\ [][LoopNext]_loopVars
-----------------------------------------------------------------------------
(***************************************************************************)
(* Whatever turns the loops and conditions of the program take, breaks and *)
(* continues of nested loops included, the analysis has told of the write  *)
(* that a read sees.                                                       *)
(***************************************************************************)
ReadsForeseen == lastRead = NoRead \/ lastRead[2] = 0 \/ lastRead \in found
=============================================================================
