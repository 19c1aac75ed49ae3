------------------------------ MODULE MCDefUse ------------------------------
(***************************************************************************)
(* Instances of DefUse and of LoopFlow, the two halves of the analysis: a  *)
(* behaviour is one of DefUse for a kind of program without loops, or one  *)
(* of LoopFlow for a program with loops.                                   *)
(*                                                                         *)
(* Slices that overlap, and writes of a slice or an element beside writes  *)
(* at places that are not known, are those programs where defs are dropped.*)
(***************************************************************************)
EXTENDS DefUse, LoopFlow

Program(width, kind, slices, ops, param, max, deep) ==
  [width |-> width, kind |-> kind, slices |-> slices, ops |-> ops, param |-> param,
   writes |-> max, depth |-> deep]

BitRanges == {lo..hi : lo, hi \in 0..3} \ {{}}
Halves == {0..1, 2..2, 3..3}      \* slices that do not overlap

Straight ==
  {Program(4, "bits", BitRanges, {"whole", "slice", "branch"}, "live", 4, 1),
   Program(4, "bits", Halves, {"whole", "slice", "branch"}, "live", 4, 2),
   Program(4, "bits", {}, {"whole", "plus_slice", "branch"}, "live", 5, 2),
   Program(3, "array", {}, {"whole", "index", "dynamic", "branch"}, "local", 4, 2),
   Program(3, "array", {}, {"whole", "dynamic", "next", "push", "pop", "branch"},
           "local", 4, 2),
   Program(3, "struct", {}, {"whole", "field", "branch"}, "live", 4, 2),
   Program(3, "bits", {0..1, 1..2, 1..1}, {"slice", "plus_slice", "branch"}, "live", 4, 1),
   Program(3, "array", {}, {"index", "dynamic", "next", "push", "pop", "branch"},
           "local", 4, 1)}

(***************************************************************************)
(* A loop with a loop inside it, with statements of all kinds before,      *)
(* inside and after the inner one.                                         *)
(***************************************************************************)
Jump == {Break, Continue}

\* What statement number n may be: it writes and may leave the loop.
Simple(n) == {Write(n), Read(n), If(Block(<<Write(n), Break>>), Empty),
              If(Block(<<Write(n), Continue>>), Empty), If(Break, Write(n))}

Inner == {For(Read(10), Block(<<a, b>>), Write(11)) : a \in Simple(5), b \in Simple(6) \cup Jump}
         \cup {ForIn(Write(12), Block(<<a, b>>)) : a \in Simple(5), b \in Simple(6)}

LoopsInLoops ==
  {Block(<<Write(1), For(Read(20), Block(<<a, i, b, Read(7)>>), Write(21)), Read(8)>>)
     : a \in Simple(2), i \in Inner, b \in Simple(3)}
  \cup
  {Block(<<Write(1), ForIn(Write(22), Block(<<a, i, b, Read(7)>>)), Read(8)>>)
     : a \in Simple(2), i \in Inner, b \in Simple(3)}

MCInit ==
  \/ /\ Init
     /\ found = {} /\ todo = <<>> /\ value = 0 /\ lastRead = NoRead
  \/ /\ LoopInit
     /\ program = Program(1, "bits", {}, {}, "local", 0, 0)
     /\ di = [defs |-> {}, live |-> {}, slices |-> NoSlices]
     /\ reach = [b \in {0} |-> {}] /\ dropped = reach /\ stack = <<>> /\ writes = 0 /\ merged = FALSE

MCNext == (Next /\ UNCHANGED loopVars) \/ (LoopNext /\ UNCHANGED vars)

MCSpec == MCInit /\ [][MCNext]_<<vars, loopVars>>
=============================================================================
