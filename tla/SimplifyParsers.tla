-------------------------- MODULE SimplifyParsers --------------------------
(***************************************************************************)
(* SimplifyParsers on one parser (frontends/p4/simplifyParsers.cpp): the   *)
(* call graph of the states is computed (parserCallGraph.cpp), states that *)
(* start does not reach are removed and chains of states are made one.     *)
(* Then the parser as it was and the one that came out are run side by     *)
(* side, on any packet: the former's selections decide.                    *)
(*                                                                         *)
(* A transition names a state, or it is a select: its cases in order, of   *)
(* which the last may be a default.  A state has its own statements, of    *)
(* which only the state's name matters, and after a merge those of others. *)
(***************************************************************************)
EXTENDS CallGraphOps, FiniteSets

CONSTANTS
  Others,        \* names of states other than start, accept and reject
  MaxCases,      \* bound: cases of a select, and no match where that is possible
  Annotations,   \* the annotation one of the states has: "none", "name" or "other"
  KeysMayFail    \* whether the key of a select can end in an error (a lookahead)

VARIABLES
  source,        \* the parser given: the transition of every state it declares
  annotation,    \* and their annotations
  transitions,   \* the call graph
  reachable,     \* RemoveUnreachableStates::reachable
  parser,        \* the parser now: per state its statements and its transition
  phase,         \* the pass to come
  error,         \* whether an error was reported
  old, new       \* the run: the state the source is in, and where the result is

vars == <<source, annotation, transitions, reachable, parser, phase, error, old, new>>
passes == <<source, annotation, transitions, reachable, parser, phase, error>>

Names == {"start"} \cup Others
Final == {"accept", "reject"}

Direct(t) == [select |-> FALSE, cases |-> <<t>>, default |-> TRUE]
Select(cases, default) == [select |-> TRUE, cases |-> cases, default |-> default]

Transitions(declared) ==
  LET T == declared \cup Final
  IN  {Direct(t) : t \in T}
      \cup {Select(c, TRUE) : c \in UNION {[1..k -> T] : k \in 1..MaxCases}}
      \cup {Select(c, FALSE) : c \in UNION {[1..k -> T] : k \in 1..MaxCases - 1}}

\* The states in the order of the parser: the ones declared, then accept and reject.
InOrder(S) == SetToSeq(S)

Init ==
  /\ \E declared \in {Names, Others} : source \in [declared -> Transitions(declared)]
  /\ \E n \in Names, x \in Annotations : annotation = [s \in Names |-> IF s = n THEN x ELSE "none"]
  /\ transitions = EmptyGraph /\ reachable = {}
  /\ parser = [s \in DOMAIN source |-> [body |-> <<s>>, next |-> source[s]]]
  /\ phase = "graph" /\ error = FALSE
  /\ old = "start" /\ new = [state |-> "start", at |-> 1]

(***************************************************************************)
(* ComputeParserCG: a call for every state a transition names, and one of  *)
(* reject when no case has to match.                                       *)
(***************************************************************************)
\* A mutant of Targets: only what is written counts.
TargetsWritten(next) == next.cases

Targets(next) == IF next.default THEN next.cases ELSE Append(next.cases, "reject")

ComputeParserCG ==
  /\ phase = "graph"
  /\ transitions' =
       FoldLeft(LAMBDA g, s : FoldLeft(LAMBDA h, t : Calls(h, s, t), g, Targets(source[s])),
                transitions, InOrder(DOMAIN source))
  /\ phase' = "reachable"
  /\ UNCHANGED <<source, annotation, reachable, parser, error, old, new>>

(***************************************************************************)
(* RemoveUnreachableStates; accept and reject always stay.                 *)
(***************************************************************************)
Kept(s, reached) == s = "start" \/ s \in reached

RemoveUnreachableStates ==
  /\ phase = "reachable"
  /\ IF "start" \in DOMAIN source
     THEN /\ reachable' = Reachable(transitions, "start")
          /\ transitions' = RestrictTo(transitions, reachable')
          /\ error' = (Final \cap reachable' = {})
     ELSE /\ error' = TRUE
          /\ UNCHANGED <<reachable, transitions>>
  /\ parser' = [s \in {t \in DOMAIN parser : Kept(t, reachable')} |-> parser[s]]
  /\ phase' = IF error' THEN "failed" ELSE "collapse"
  /\ UNCHANGED <<source, annotation, old, new>>

(***************************************************************************)
(* CollapseChains.  The pairs of a state and the one it is merged with:    *)
(* chain and pred are this relation and its inverse.                       *)
(***************************************************************************)
\* A mutant of Linked: names keep states apart.
LinkedNameless(s, t) ==
  /\ s \in NodeSet(transitions)
  /\ annotation[s] = "none"
  /\ transitions.out[s] = <<t>>
  /\ t \notin Final \cup {"start"}
  /\ Len(transitions.in[t]) = 1
  /\ annotation[t] = "none"

Linked(s, t) ==
  /\ s \in NodeSet(transitions)
  /\ annotation[s] \in {"none", "name"}
  /\ transitions.out[s] = <<t>>
  /\ t \notin Final \cup {"start"}
  /\ Len(transitions.in[t]) = 1
  /\ annotation[t] = "none"

\* The chain from s on: its states' statements and the last one's transition.
RECURSIVE Merged(_, _)
Merged(chain, s) ==
  IF s \in DOMAIN chain
  THEN LET rest == Merged(chain, chain[s])
       IN  [body |-> parser[s].body \o rest.body, next |-> rest.next]
  ELSE parser[s]

CollapseChains ==
  /\ phase = "collapse"
  /\ LET linked == {s \in DOMAIN parser : \E t \in DOMAIN parser : Linked(s, t)}
         chain == [s \in linked |-> CHOOSE t \in DOMAIN parser : Linked(s, t)]
         pred == {chain[s] : s \in linked}
     IN  parser' = [s \in DOMAIN parser \ pred |-> Merged(chain, s)]
  /\ phase' = "run"
  /\ UNCHANGED <<source, annotation, transitions, reachable, error, old, new>>

(***************************************************************************)
(* Running a parser.  The outcomes of a transition: a case of a select by  *)
(* its number, no match or an error in the key, which lead to reject; or   *)
(* the only state it can lead to, without a decision.                      *)
(***************************************************************************)
Undecided == 0
NoMatch == -1
KeyError == -2

Outcomes(next) ==
  LET case == {[by |-> k, to |-> next.cases[k]] : k \in DOMAIN next.cases}
      miss == IF next.default THEN {} ELSE {[by |-> NoMatch, to |-> "reject"]}
      fail == IF next.select /\ KeysMayFail THEN {[by |-> KeyError, to |-> "reject"]} ELSE {}
      all == case \cup miss \cup fail
  IN  IF Cardinality(all) = 1 THEN {[o EXCEPT !.by = Undecided] : o \in all} ELSE all

\* The outcomes at the place the result is at: between two statements of a
\* state there is nothing to decide.
OutcomesThere ==
  IF new.at < Len(parser[new.state].body)
  THEN {[by |-> Undecided, to |-> new.state]}
  ELSE Outcomes(parser[new.state].next)

Run ==
  /\ phase = "run" /\ old \notin Final
  /\ \E o \in Outcomes(source[old]) :
       /\ old' = o.to
       /\ new' = IF new.at < Len(parser[new.state].body)
                 THEN [new EXCEPT !.at = @ + 1]
                 ELSE [state |-> (CHOOSE p \in OutcomesThere : p.by = o.by).to, at |-> 1]
  /\ UNCHANGED passes

Next == ComputeParserCG \/ RemoveUnreachableStates \/ CollapseChains \/ Run

Spec == Init /\ [][Next]_vars
-----------------------------------------------------------------------------
(***************************************************************************)
(* The result does what the source does, on every packet: it executes the  *)
(* statements of the same states in the same order, and wherever the       *)
(* source has a selection to make, it makes the same one.                  *)
(***************************************************************************)
SameRuns ==
  phase = "run" =>
    IF old \in Final
    THEN new.state = old
    ELSE /\ new.state \in DOMAIN parser
         /\ parser[new.state].body[new.at] = old
         /\ {o.by : o \in Outcomes(source[old])} = {o.by : o \in OutcomesThere}

(***************************************************************************)
(* No simple chain is left, in the words of simplifyParsers.h, lines       *)
(* 19-22: no transition from s1 to s2 with no other one out of s1, no      *)
(* other one into s2, and no annotations of s2.                            *)
(***************************************************************************)
ChainsCollapsed ==
  phase = "run" =>
    \A s \in DOMAIN parser, t \in DOMAIN parser \ {"start"} :
      ~ /\ Targets(parser[s].next) = <<t>>
        /\ annotation[t] = "none"
        /\ \A u \in DOMAIN parser \ {s} : ~ Contains(Targets(parser[u].next), t)

\* Every state that is left can be reached (simplifyParsers.h, line 15:
\* "Remove unreachable parser states"), and no transition names a removed one.
OnlyReachableLeft ==
  phase = "run" =>
    LET g == FoldLeft(LAMBDA h, s : FoldLeft(LAMBDA k, t : Calls(k, s, t), h, parser[s].next.cases),
                      Add(EmptyGraph, "start"), InOrder(DOMAIN parser))
    IN  /\ DOMAIN parser \subseteq Reachable(g, "start")
        /\ Reachable(g, "start") \subseteq DOMAIN parser \cup Final

(***************************************************************************)
(* SimplifyParsers has done its work: neither an unreachable state nor a   *)
(* chain of states is left, although removing an unreachable state can     *)
(* make a chain of those it led to.                                        *)
(***************************************************************************)
ParserSimplified == ChainsCollapsed /\ OnlyReachableLeft
=============================================================================
