---------------------------- MODULE PassSequence ----------------------------
(***************************************************************************)
(* What a pass manager promises: passes 1..N are applied in order to one   *)
(* program, and backtracking is undo.  `at` is how far the compiler has    *)
(* come and `prog` the program, as the sequence of passes that changed it. *)
(* Going back to an earlier point removes exactly the changes made after   *)
(* it: none of them stays, and no earlier change is lost.                  *)
(***************************************************************************)
EXTENDS Integers, Sequences

CONSTANTS N, Null

VARIABLES prog, at

vars == <<prog, at>>

\* The changes that passes up to k made to p are its first n.
MadeBy(p, k, n) ==
  /\ \A i \in 1..n : p[i] <= k
  /\ \A i \in (n + 1)..Len(p) : p[i] > k

Init == prog = << >> /\ at = 0

\* Passes up to at' have run; at most one of them changed the program.
Advance ==
  /\ at' \in at..N
  /\ \/ prog' = prog
     \/ /\ prog # Null
        /\ \E x \in (at + 1)..at' : prog' = Append(prog, x)

\* A pass returned nothing: there is no program to go on with.
Lose ==
  /\ at' \in at..N
  /\ prog' = Null

\* Back to the point after pass at', undoing what came later.
Undo ==
  /\ prog # Null
  /\ at' \in 0..(at - 1)
  /\ \E n \in 0..Len(prog) : MadeBy(prog, at', n) /\ prog' = SubSeq(prog, 1, n)

Next == Advance \/ Lose \/ Undo

Spec == Init /\ [][Next]_vars
=============================================================================
