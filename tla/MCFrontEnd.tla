----------------------------- MODULE MCFrontEnd -----------------------------
(***************************************************************************)
(* Instances of SimplifyParsers and of Inlining, the two users of the call *)
(* graph of module CallGraphOps: a behaviour is one of either.             *)
(***************************************************************************)
EXTENDS SimplifyParsers

CONSTANTS Actions, Functions     \* the programs of Inlining

VARIABLES pass, program, prog, order, batch, step, before, fresh, rounds
inlining == <<pass, program, prog, order, batch, step, before, fresh, rounds>>

I == INSTANCE Inlining WITH ActionPrograms <- Actions, FunctionPrograms <- Functions,
                            source <- program, phase <- step

(***************************************************************************)
(* Programs for Inlining.  Callable c has an effect of its own, numbered   *)
(* c, and statements with calls; the node of statement i is 100c + 10i.    *)
(***************************************************************************)
Own(c) == I!Statement(100 * c, "assign", c, <<>>)
Node(c, i) == 100 * c + 10 * i

\* A call, and one with a call as its argument; k tells the calls of a statement apart.
Plain(c, i, k) == {I!Call(Node(c, i) + k, f, <<>>) : f \in 1..c - 1}
Nested(c, i, k) == {I!Call(Node(c, i) + k + 1, f, <<a>>) : f \in 1..c - 1, a \in Plain(c, i, k)}

CallStatements(c, i, calls) == {I!Statement(Node(c, i), "call", I!NoEffect, <<x>>) : x \in calls}
Assignments(c, i) ==
  {I!Statement(Node(c, i), "assign", Node(c, i), x) :
     x \in {<<y>> : y \in Plain(c, i, 1) \cup Nested(c, i, 1)}
          \cup {<<y, z>> : y \in Plain(c, i, 1), z \in Plain(c, i, 3)}}

\* Bodies with up to two statements beside the own effect, from the sets first and second.
Bodies(c, first, second) ==
  {<<Own(c)>>} \cup {<<Own(c), s>> : s \in first} \cup {<<s, Own(c), t>> : s \in first, t \in second}

ActionStatements(c, i) == CallStatements(c, i, Plain(c, i, 1))
FunctionStatements(c, i) == ActionStatements(c, i) \cup Assignments(c, i)

\* Five actions with up to two calls each.
FiveActions ==
  LET B(c) == Bodies(c, ActionStatements(c, 1), ActionStatements(c, 2))
  IN  {<<a, b, c, d, e>> : a \in {<<Own(1)>>}, b \in B(2), c \in B(3), d \in B(4), e \in B(5)}

\* Four functions; the last may have a second statement.
FourFunctions ==
  LET B(c, second) == Bodies(c, FunctionStatements(c, 1), second)
  IN  {<<a, b, c, d>> : a \in {<<Own(1)>>}, b \in B(2, {}), c \in B(3, {}),
                        d \in B(4, ActionStatements(4, 2))}

NoInlining ==
  /\ pass = "none" /\ program = <<>> /\ prog = <<>> /\ order = <<>> /\ batch = <<>>
  /\ step = "none" /\ before = <<>> /\ fresh = 0 /\ rounds = 0

NoParser ==
  /\ source = <<>> /\ annotation = <<>> /\ transitions = EmptyGraph /\ reachable = {}
  /\ parser = <<>> /\ phase = "none" /\ error = FALSE
  /\ old = "start" /\ new = [state |-> "start", at |-> 1]

MCInit == (Init /\ NoInlining) \/ (I!Init /\ NoParser)

MCNext == (Next /\ UNCHANGED inlining) \/ (I!Next /\ UNCHANGED vars)

MCSpec == MCInit /\ [][MCNext]_<<vars, inlining>>

\* Every callable does, between two batches, what it did in the source.
MeaningKept == I!MeaningKept
\* No call is left, leaves are inlined first, and every round gets on.
InliningComplete == I!InliningComplete
=============================================================================
