---------------------------- MODULE MCPlacement ----------------------------
(***************************************************************************)
(* Instances of PlacementBacktracking: a device of 4 stages and a critical *)
(* path of 1, so that a placement may be compact (up to 3 stages), fit     *)
(* exactly, or need one stage more than there is.                          *)
(***************************************************************************)
EXTENDS PlacementBacktracking

\* Allocation without table information depends on metaInitDisable.
MetaInitOutcomes ==
  {[c \in BOOLEAN \X BOOLEAN \X BOOLEAN |-> f[c[1]]] : f \in [BOOLEAN -> BOOLEAN]}
============================================================================
