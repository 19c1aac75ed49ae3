------------------------------ MODULE Inlining ------------------------------
(***************************************************************************)
(* InlineActions and InlineFunctions (frontends/p4): the calls are found   *)
(* (DiscoverActionsInlining, DiscoverFunctionsInlining), put in an order   *)
(* (SimpleInlineList::analyze), and inlined batch by batch (InlineDriver,  *)
(* ActionsInliner, FunctionsInliner); then what is not called any more is  *)
(* removed.  For functions all of this is repeated until nothing changes.  *)
(*                                                                         *)
(* A call is a record: the node, the callable it names and the calls among *)
(* its arguments.  A statement has a node, an effect of its own or none,   *)
(* and calls: a call statement has one, an assignment any number.  Nodes   *)
(* are shared: a body that is inlined consists of the callee's nodes.      *)
(* Callables are numbered in the order of their declarations, and call     *)
(* only ones declared before.                                              *)
(***************************************************************************)
EXTENDS CallGraphOps, FiniteSets

CONSTANTS
  ActionPrograms,    \* what InlineActions may be given: the sequence of the bodies
  FunctionPrograms   \* what InlineFunctions may be given

VARIABLES
  pass,       \* the pass that is run
  source,     \* the program given
  prog,       \* the program now: the objects of the callables that are left
  order,      \* SimpleInlineList::inlineOrder, the next call first
  batch,      \* the work list of the inliner
  phase,      \* what is to be done
  before,     \* the program PassRepeated compares with
  fresh,      \* the next node
  rounds      \* history: how often calls were searched for

vars == <<pass, source, prog, order, batch, phase, before, fresh, rounds>>

Call(node, fn, args) == [node |-> node, fn |-> fn, args |-> args]
NoEffect == 0
Statement(node, kind, effect, calls) ==
  [node |-> node, kind |-> kind, effect |-> effect, calls |-> calls]

\* An object of the IR: the callable and the version of it.
Object(name, version, body) == [name |-> name, version |-> version, body |-> body]

FirstFresh == 1000

Init ==
  /\ \/ pass = "InlineActions" /\ source \in ActionPrograms
     \/ pass = "InlineFunctions" /\ source \in FunctionPrograms
  /\ prog = [c \in DOMAIN source |-> Object(c, 0, source[c])]
  /\ order = <<>> /\ batch = <<>> /\ phase = "discover"
  /\ before = prog /\ fresh = FirstFresh /\ rounds = 0

(***************************************************************************)
(* Finding the calls.  An inspector comes to a node once: a statement that *)
(* is part of two callables is found in the first.                         *)
(***************************************************************************)
RECURSIVE CallsIn(_)
\* All calls, those among the arguments of a call before it.
CallsIn(calls) ==
  FlattenSeq([i \in DOMAIN calls |-> Append(CallsIn(calls[i].args), calls[i])])

Info(caller, callee, statement, expr) ==
  [caller |-> caller, callee |-> callee, call |-> statement, expr |-> expr]

DiscoverCall(object, s, f, c) ==
  IF c.node \in f.seen
  THEN f
  ELSE [seen |-> f.seen \cup {c.node},
        toInline |-> Append(f.toInline, Info(object, prog[c.fn], s.node, c.node))]

DiscoverStatement(object, f, s) ==
  IF s.node \in f.seen
  THEN f
  ELSE FoldLeft(LAMBDA g, c : DiscoverCall(object, s, g, c),
                [f EXCEPT !.seen = @ \cup {s.node}], CallsIn(s.calls))

InProgram == SetToSortSeq(DOMAIN prog, <)

toInline ==
  FoldLeft(LAMBDA f, c : FoldLeft(LAMBDA g, s : DiscoverStatement(prog[c], g, s), f, prog[c].body),
           [seen |-> {}, toInline |-> <<>>], InProgram).toInline

(***************************************************************************)
(* SimpleInlineList::analyze: callers in the order of the call graph.      *)
(***************************************************************************)
Analyze(found) ==
  LET graph == FoldLeft(LAMBDA g, i : Calls(g, i.caller.name, i.callee.name), EmptyGraph, found)
      callers == Sort(graph).out
  IN  FlattenSeq([k \in DOMAIN callers |-> SelectSeq(found, LAMBDA i : i.caller.name = callers[k])])

Discover ==
  /\ phase = "discover"
  /\ order' = Analyze(toInline)
  /\ before' = prog
  /\ rounds' = rounds + 1
  /\ phase' = "next"
  /\ UNCHANGED <<pass, source, prog, batch, fresh>>

(***************************************************************************)
(* SimpleInlineList::next: as many calls as there are before one of a      *)
(* callable that the batch changes.                                        *)
(***************************************************************************)
BatchLength ==
  LET stops == {k \in 1..Len(order) : \E j \in 1..k - 1 : order[j].caller = order[k].callee}
  IN  IF stops = {} THEN Len(order) ELSE (CHOOSE k \in stops : \A j \in stops : k <= j) - 1

NextBatch ==
  /\ phase = "next" /\ order # <<>>
  /\ batch' = SubSeq(order, 1, BatchLength)
  /\ order' = SubSeq(order, BatchLength + 1, Len(order))
  /\ phase' = "inline"
  /\ UNCHANGED <<pass, source, prog, before, fresh, rounds>>

(***************************************************************************)
(* Inlining one call, the work list's entry e at the statement s: what     *)
(* replaces s, with nodes that are new from n on.                          *)
(***************************************************************************)
RECURSIVE Without(_, _, _)
\* The calls without the one that has the node; the calls it is an argument
\* of are new nodes.
Without(calls, node, n) ==
  FlattenSeq([i \in DOMAIN calls |->
    IF calls[i].node = node THEN <<>>
    ELSE LET args == Without(calls[i].args, node, n + 1)
         IN  IF args = calls[i].args THEN <<calls[i]>> ELSE <<Call(n, calls[i].fn, args)>>])

\* The call that is inlined at s: of a call statement always its own.
InlinedCall(s, e) ==
  IF s.kind = "call"
  THEN s.calls[1]
  ELSE LET all == CallsIn(s.calls) IN all[CHOOSE k \in DOMAIN all : all[k].node = e.expr]

\* A mutant of Inlined: the call statement stays beside the body.
InlinedBeside(s, e, n) == e.callee.body \o <<[s EXCEPT !.node = n]>>

Inlined(s, e, n) ==
  LET call == InlinedCall(s, e)
      copyin == [i \in DOMAIN call.args |-> Statement(n + i, "assign", NoEffect, <<call.args[i]>>)]
      m == n + Len(copyin) + 1
      rest == IF s.kind = "call" THEN <<>>
              ELSE <<Statement(m, "assign", s.effect, Without(s.calls, call.node, m + 1))>>
  IN  copyin \o e.callee.body \o rest

NodesPerCall == 10     \* room for the nodes Inlined makes

(***************************************************************************)
(* The inliner goes over a callable, w the state of it: the body so far,   *)
(* the new nodes, and what became of the nodes it has come to: a transform *)
(* does not visit a node twice.                                            *)
(***************************************************************************)
RECURSIVE VisitStatement(_, _, _)
VisitStatement(caller, w, s) ==
  LET mine == SelectSeq(batch, LAMBDA i : i.caller = caller /\ i.call = s.node)
      visited ==
        IF mine = <<>>
        THEN [w EXCEPT !.body = <<s>>]
        ELSE FoldLeft(LAMBDA v, t : VisitStatement(caller, v, t),
                      [w EXCEPT !.body = <<>>, !.fresh = @ + NodesPerCall],
                      Inlined(s, Last(mine), w.fresh))
  IN  IF s.node \in DOMAIN w.done
      THEN [w EXCEPT !.body = @ \o w.done[s.node]]
      ELSE [body |-> w.body \o visited.body, fresh |-> visited.fresh,
            done |-> Extend(visited.done, s.node, visited.body)]

\* A mutant of ReplaceIn: the calls of the callable stay with the old object.
ReplaceInCallers(list, old, new) ==
  [k \in DOMAIN list |-> [list[k] EXCEPT !.caller = IF @ = old THEN new ELSE @]]

\* SimpleInlineList::replace
ReplaceIn(list, old, new) ==
  [k \in DOMAIN list |-> [list[k] EXCEPT !.callee = IF @ = old THEN new ELSE @,
                                         !.caller = IF @ = old THEN new ELSE @]]

\* One callable.  The list is told of the clone; the program gets it only
\* when it differs from the original.
VisitCallable(w, c) ==
  LET old == prog[c]
      v == FoldLeft(LAMBDA x, s : VisitStatement(old, x, s),
                    [body |-> <<>>, fresh |-> w.fresh + 1, done |-> w.done], old.body)
      new == Object(c, w.fresh, v.body)
  IN  IF \E k \in DOMAIN batch : batch[k].caller = old
      THEN [prog |-> [w.prog EXCEPT ![c] = IF v.body = old.body THEN old ELSE new],
            order |-> ReplaceIn(w.order, old, new), fresh |-> v.fresh, done |-> v.done]
      ELSE w

ApplyInliner ==
  /\ phase = "inline"
  /\ LET w == FoldLeft(VisitCallable,
                       [prog |-> prog, order |-> order, fresh |-> fresh, done |-> <<>>], InProgram)
     IN  prog' = w.prog /\ order' = w.order /\ fresh' = w.fresh
  /\ batch' = <<>>
  /\ phase' = "next"
  /\ UNCHANGED <<pass, source, before, rounds>>

\* An error ends the driver's loop and all passes.
InlinerFails ==
  /\ phase = "inline"
  /\ phase' = "failed"
  /\ UNCHANGED <<pass, source, prog, order, batch, before, fresh, rounds>>

(***************************************************************************)
(* RemoveAllUnusedDeclarations; the last callable is not a declaration it  *)
(* may remove.  PassRepeated goes on until the program stays as it is.     *)
(***************************************************************************)
Used(names) ==
  {c \in names : c = Len(source) \/
     \E d \in names : \E i \in DOMAIN prog[d].body :
       c \in {x.fn : x \in ToSet(CallsIn(prog[d].body[i].calls))}}

RECURSIVE AllUsed(_)
AllUsed(names) == IF Used(names) = names THEN names ELSE AllUsed(Used(names))

Again(after) == pass = "InlineFunctions" /\ after # before

RemoveUnused ==
  /\ phase = "next" /\ order = <<>>
  /\ prog' = [c \in AllUsed(DOMAIN prog) |-> prog[c]]
  /\ phase' = IF Again(prog') THEN "discover" ELSE "done"
  /\ UNCHANGED <<pass, source, order, batch, before, fresh, rounds>>

Next == Discover \/ NextBatch \/ ApplyInliner \/ InlinerFails \/ RemoveUnused

Spec == Init /\ [][Next]_vars
-----------------------------------------------------------------------------
(***************************************************************************)
(* What executing the statements does, in the program p: the effects in    *)
(* order.  A callable that is missing has an effect no program has.        *)
(***************************************************************************)
Missing == <<-1>>

RECURSIVE Effects(_, _), CallEffects(_, _)
Effects(p, body) ==
  FlattenSeq([i \in DOMAIN body |->
    CallEffects(p, body[i].calls)
      \o IF body[i].effect = NoEffect THEN <<>> ELSE <<body[i].effect>>])
CallEffects(p, calls) ==
  FlattenSeq([i \in DOMAIN calls |->
    CallEffects(p, calls[i].args)
      \o IF calls[i].fn \in DOMAIN p THEN Effects(p, p[calls[i].fn]) ELSE Missing])

\* Calls in one expression have no side effects after SideEffectOrdering,
\* and may be inlined in any order: what functions do is compared without it.
SameEffects(a, b) ==
  IF pass = "InlineFunctions"
  THEN \A x \in ToSet(a) \cup ToSet(b) :
         Cardinality({i \in DOMAIN a : a[i] = x}) = Cardinality({i \in DOMAIN b : b[i] = x})
  ELSE a = b

(***************************************************************************)
(* At any time between two batches every callable does what it did in the  *)
(* source, however its calls were spread over batches, statements and      *)
(* shared nodes: each call executes the callable it names                  *)
(* (commonInlining.h line 38, "object that is called"), once.              *)
(***************************************************************************)
MeaningKept ==
  LET now == [c \in DOMAIN prog |-> prog[c].body]
  IN  \A c \in DOMAIN prog : SameEffects(Effects(now, now[c]), Effects(source, source[c]))

(***************************************************************************)
(* When the passes are done no call is left (frontend.cpp lines 324-334):  *)
(* for actions after one run of the driver, although a caller's calls may  *)
(* be spread over several batches and the caller replaced in between; for  *)
(* functions after the repetitions, although a statement with two calls    *)
(* loses one per round.                                                    *)
(***************************************************************************)
AllInlined ==
  phase = "done" => \A c \in DOMAIN prog : \A i \in DOMAIN prog[c].body : prog[c].body[i].calls = <<>>

(***************************************************************************)
(* An action is inlined only when nothing is to be inlined into it, in     *)
(* this batch or later (commonInlining.h lines 94 and 121: "must inline    *)
(* from leaves up").                                                       *)
(***************************************************************************)
LeavesFirst ==
  pass = "InlineActions" =>
    \A e \in ToSet(batch) : \A x \in ToSet(batch) \cup ToSet(order) : x.caller # e.callee

\* How many calls executing the calls takes, in the program p.
RECURSIVE CallsMade(_, _)
CallsMade(p, calls) ==
  FoldLeft(LAMBDA n, c : n + 1 + FoldLeft(LAMBDA m, s : m + CallsMade(p, s.calls), 0, p[c.fn].body),
           0, CallsIn(calls))
CallsMadeBy(p, object) == FoldLeft(LAMBDA n, s : n + CallsMade(p, s.calls), 0, object.body)

(***************************************************************************)
(* The repetition of InlineFunctions (functionsInlining.h lines 109-112)   *)
(* gets somewhere: when a round is over, the last callable executes fewer  *)
(* calls than before the round, if it executed any, even where all its     *)
(* statements have two calls or are nodes of another callable, in which    *)
(* they were found.  So the repetition ends.                               *)
(***************************************************************************)
EveryRoundInlines ==
  phase = "discover" /\ rounds > 0 =>
    LET root == Len(source)
    IN  \/ CallsMadeBy(before, before[root]) = 0
        \/ CallsMadeBy(prog, prog[root]) < CallsMadeBy(before, before[root])

(***************************************************************************)
(* Inlining is complete: no call is left, although callers are replaced    *)
(* between the batches (SimpleInlineList::replace), a callable is inlined  *)
(* only once it is final, and every round of the repetition gets on.       *)
(***************************************************************************)
InliningComplete == AllInlined /\ LeavesFirst /\ EveryRoundInlines
=============================================================================
