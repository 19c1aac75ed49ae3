--------------------------- MODULE MCPassManager ---------------------------
(***************************************************************************)
(* Two small trees of passes for PassManager.                              *)
(*                                                                         *)
(*   nested:  1 manager                                                    *)
(*              2 Backtrack pass                                           *)
(*              3 PassIf                                                   *)
(*                4 Backtrack pass                                         *)
(*              5 manager (does not stop on errors)                        *)
(*                6 Backtrack pass                                         *)
(*                7 pass                                                   *)
(*                                                                         *)
(*   repeat:  1 manager                                                    *)
(*              2 Backtrack pass                                           *)
(*              3 PassRepeated                                             *)
(*                4 Backtrack pass                                         *)
(*                5 pass                                                   *)
(*              6 PassRepeated with repeats = 1                            *)
(*                7 pass                                                   *)
(***************************************************************************)
EXTENDS PassManager

CONSTANTS t1, t2

BothTriggers == {t1, t2}
OneTrigger == {t1}

NestedLast == <<7, 2, 4, 4, 7, 6, 7>>
NestedParent == <<1, 1, 1, 3, 1, 5, 5>>
NestedKind == <<"manager", "backtrack", "if", "backtrack", "manager",
                "backtrack", "visitor">>
NestedRepeats == [v \in 1..7 |-> 0]
NestedStopOnError == [v \in 1..7 |-> v # 5]
NestedHandles == [v \in 1..7 |-> IF v = 4 THEN {t2} ELSE {t1}]

RepeatLast == <<7, 2, 5, 4, 5, 7, 7>>
RepeatParent == <<1, 1, 1, 3, 3, 1, 6>>
RepeatKind == <<"manager", "backtrack", "repeated", "backtrack", "visitor",
                "repeated", "visitor">>
RepeatRepeats == [v \in 1..7 |-> IF v = 6 THEN 1 ELSE 0]
RepeatStopOnError == [v \in 1..7 |-> TRUE]
RepeatHandles == [v \in 1..7 |-> {t1}]
=============================================================================
