----------------------- MODULE PlacementBacktracking -----------------------
(***************************************************************************)
(* How the Tofino backend retries PHV allocation and table placement.      *)
(*                                                                         *)
(* The backend's pass list runs, among others, a catcher of long-branch    *)
(* failures, MauBacktracker, PHV_Analysis, TableAllocPass (with            *)
(* TablePlacement in it), TableSummary, the allocation of temporaries and  *)
(* next-table propagation.  TableSummary keeps a compilation state and     *)
(* throws a Backtrack::trigger to try again: RerunTablePlacementTrigger is *)
(* caught by TablePlacement, PHVTrigger by MauBacktracker, and             *)
(* LongBranchAllocFailed by the catcher.  The pass manager (module         *)
(* PassManager) asks the passes between the thrower and the handler first, *)
(* so TablePlacement::backtrack also runs, and refuses, when a PHVTrigger  *)
(* or a LongBranchAllocFailed goes by.                                     *)
(*                                                                         *)
(* A placement is named by the round (TableSummary::numInvoked) that       *)
(* produced it; 0 is no placement.                                         *)
(***************************************************************************)
EXTENDS Integers

CONSTANTS
  DeviceStages,    \* Device::numStages()
  CriticalPath,    \* deps.critical_path_length()
  MaxTempRounds,   \* bound: rounds in which placement leaves temporaries
  MaxRounds,       \* bound on numInvoked, never reached: see RoundsBounded
  FreshOutcomes    \* how PHV allocation without table information may turn out

CRITICAL_PATH_THRESHOLD == 2
ALT_PHV_ALLOC_TABLE_FIX_THRESHOLD == 3
FIRST_ALT_RETRY_ENHANCED_TP_INVOCATION == 2

ASSUME PlacementAssumption ==
  /\ DeviceStages \in Nat /\ CriticalPath \in Nat
  /\ MaxTempRounds \in Nat /\ MaxRounds \in Nat
  /\ FreshOutcomes \subseteq [BOOLEAN \X BOOLEAN \X BOOLEAN -> BOOLEAN]

\* The bound on numInvoked is out of its way.
ASSUME RoundsAssumption == MaxRounds > 17 + MaxTempRounds

NormalState == {"INITIAL", "NOCC_TRY1", "REDO_PHV1", "NOCC_TRY2", "REDO_PHV2",
                "FINAL_PLACEMENT"}
AltState == {"ALT_INITIAL", "ALT_RETRY_ENHANCED_TP",
             "ALT_FINALIZE_TABLE_SAME_ORDER",
             "ALT_FINALIZE_TABLE_SAME_ORDER_TABLE_FIXED", "ALT_FINALIZE_TABLE"}
Replay == {"ALT_FINALIZE_TABLE_SAME_ORDER",
           "ALT_FINALIZE_TABLE_SAME_ORDER_TABLE_FIXED"}
CompilationState == NormalState \cup AltState \cup {"SUCCESS", "FAILURE"}

VARIABLES
  altPhvAlloc,    \* options.alt_phv_alloc: table placement first
  pc,             \* the pass about to run
  state,          \* compilation_state, shared by TableSummary and MauBacktracker
  prev_state,     \* TableSummary::prev_state
  firstRoundFit,  \* TableSummary::firstRoundFit
  numInvoked,     \* TableSummary::numInvoked
  fixed,          \* TableSummary::alt_phv_alloc_table_fixed
  placed,         \* TableSummary::placedTables
  trivial,        \* TableSummary::trivial_placedTables and trivial_tableAlloc
  maxStage,       \* stages used by the last placement
  problems,       \* TableSummary::tablePlacementErrors: worst entry
  mauTables,      \* MauBacktracker::tables
  mauPlaced,      \* MauBacktracker::has_table_placement
  mauFit,         \* MauBacktracker::firstRoundFit
  metaInitDisable,     \* MauBacktracker::metaInitDisable
  ignorePackConflicts, \* MauBacktracker::ignorePackConflicts
  darkSpillARA,   \* PhvInfo::darkSpillARA
  ignoreContainerConflicts, \* TablePlacement::ignoreContainerConflicts
  limit,          \* AllocSetting::limit_tmp_creation
  trivialAlloc,   \* PHV_Analysis: trivial allocation is switched on
  lbBacktrack,    \* options.table_placement_long_branch_backtrack
  lbDisabled,     \* options.disable_long_branch
  tempRounds,     \* rounds that left temporaries, see MaxTempRounds
  fresh           \* outcome of PHV allocation without table information

summary == <<prev_state, firstRoundFit, numInvoked, fixed, placed, trivial>>
result == <<maxStage, problems>>
mau == <<mauTables, mauPlaced, mauFit, metaInitDisable, ignorePackConflicts>>
options == <<lbBacktrack, lbDisabled>>
given == <<altPhvAlloc, fresh>>
vars == <<pc, state, summary, result, mau, darkSpillARA,
          ignoreContainerConflicts, limit, trivialAlloc, options, tempRounds,
          given>>

InitialState == IF altPhvAlloc THEN "ALT_INITIAL" ELSE "INITIAL"
FinalState == IF altPhvAlloc THEN "ALT_FINALIZE_TABLE" ELSE "FINAL_PLACEMENT"

Fits == maxStage <= DeviceStages
placementFailure == problems # "none"
criticalPlacementFailure == problems = "error"

Init ==
  /\ altPhvAlloc \in BOOLEAN
  /\ pc = "mau" /\ state = InitialState
  /\ prev_state = "INITIAL" /\ firstRoundFit = FALSE /\ numInvoked = 0
  /\ fixed = 0 /\ placed = 0 /\ trivial = 0
  /\ maxStage = 0 /\ problems = "none"
  /\ mauTables = 0 /\ mauPlaced = FALSE /\ mauFit = FALSE
  /\ metaInitDisable = FALSE /\ ignorePackConflicts = FALSE
  /\ darkSpillARA = TRUE
  /\ ignoreContainerConflicts = FALSE /\ limit = FALSE /\ trivialAlloc = FALSE
  /\ lbBacktrack \in BOOLEAN /\ lbDisabled \in BOOLEAN
  /\ tempRounds = 0
  /\ fresh \in FreshOutcomes

-----------------------------------------------------------------------------
(***************************************************************************)
(* The handlers.                                                           *)
(***************************************************************************)
\* MauBacktracker::backtrack for a PHVTrigger that carries placement t.
CatchPHVTrigger(t, fit, pack, meta) ==
  /\ pc' = "mau"
  /\ metaInitDisable' = (metaInitDisable \/ meta)
  /\ ignorePackConflicts' = (ignorePackConflicts \/ pack)
  /\ mauFit' = (mauFit \/ fit)
  /\ mauPlaced' = TRUE
  /\ mauTables' = IF ignorePackConflicts' THEN mauTables ELSE t

\* TablePlacement::backtrack, for every trigger but RerunTablePlacementTrigger:
\* it has cleared ignoreContainerConflicts when it refuses or accepts.
TablePlacementPassed == ignoreContainerConflicts' = FALSE

\* TableSummary throws PHVTrigger::failure.  On its way to MauBacktracker the
\* trigger passes TablePlacement, which refuses it.
RedoPHVKeepsFlag(t, meta) ==
  CatchPHVTrigger(t, firstRoundFit, FALSE, meta)
    /\ UNCHANGED ignoreContainerConflicts
RedoPHV(t, meta) ==
  /\ CatchPHVTrigger(t, firstRoundFit, FALSE, meta)
  /\ TablePlacementPassed

\* TableSummary throws RerunTablePlacementTrigger::failure(ig), which
\* TablePlacement::backtrack accepts.
RerunTables(ig) ==
  /\ pc' = "tables"
  /\ ignoreContainerConflicts' = ig
  /\ UNCHANGED mau

\* FinalRerunTablePlacementTrigger(l), caught by TablePlacement.
FinalRerunKeepsState(l) ==
  pc' = "tables" /\ ignoreContainerConflicts' = FALSE /\ UNCHANGED state
FinalRerun(l) ==
  /\ pc' = "tables"
  /\ TablePlacementPassed
  /\ state' = IF l THEN prev_state ELSE FinalState

-----------------------------------------------------------------------------
(***************************************************************************)
(* The passes, in the backend's order.                                     *)
(***************************************************************************)
\* The PassIfs that choose between trivial and real PHV allocation.
UseTrivialAlloc ==
  CASE ~ altPhvAlloc -> FALSE
    [] state = "ALT_INITIAL" -> TRUE
    [] state \in Replay -> FALSE
    [] OTHER -> trivialAlloc

\* MauBacktracker::apply_visitor, up to PHV_Analysis.
MauBacktracker ==
  /\ pc = "mau" /\ pc' = "phv"
  /\ mauTables' = IF mauFit THEN 0 ELSE mauTables
  /\ trivialAlloc' = UseTrivialAlloc
  /\ UNCHANGED <<state, summary, result, mauPlaced, mauFit, metaInitDisable,
                 ignorePackConflicts, ignoreContainerConflicts, limit, options,
                 tempRounds, given, darkSpillARA>>

(***************************************************************************)
(* PHV allocation.  It is a deterministic function of its input, which     *)
(* matters when it is redone without the tables of a previous round: the   *)
(* input is then metaInitDisable, darkSpillARA and whether a placement was *)
(* ever handed over.  With tables it may turn out either way.              *)
(***************************************************************************)
FreshFits == fresh[<<metaInitDisable, mauPlaced, darkSpillARA>>]

PHVFits ==
  /\ pc = "phv" /\ pc' = "tables"
  /\ ~ altPhvAlloc /\ mauTables = 0 => FreshFits
  /\ UNCHANGED <<state, summary, result, mau, ignoreContainerConflicts, limit,
                 trivialAlloc, options, tempRounds, given, darkSpillARA>>

PHVDoesNotFit == pc = "phv" /\ (~ altPhvAlloc /\ mauTables = 0 => ~ FreshFits)

\* The first round fitted: AllocatePHV throws to redo it
\* (allocate_phv.cpp:4258), with no tables and ignorePackConflicts.
FallBack ==
  /\ PHVDoesNotFit /\ ~ altPhvAlloc /\ mauFit
  /\ CatchPHVTrigger(0, mauFit, TRUE, FALSE)
  /\ UNCHANGED <<state, summary, result, ignoreContainerConflicts, limit,
                 trivialAlloc, options, tempRounds, given, darkSpillARA>>

\* MauBacktracker::backtrack when stopTableReplayFitting is set.
KeepReplaying == UNCHANGED <<state, placed>>
GiveUpReplay == state' = "ALT_FINALIZE_TABLE" /\ placed' = 0

\* TableSummary::stop_table_replay_fitting, caught by MauBacktracker.
StopReplay ==
  /\ PHVDoesNotFit /\ altPhvAlloc
  /\ state = "ALT_FINALIZE_TABLE_SAME_ORDER_TABLE_FIXED"
  /\ CatchPHVTrigger(trivial, firstRoundFit, FALSE, FALSE)
  /\ GiveUpReplay
  /\ UNCHANGED <<prev_state, firstRoundFit, numInvoked, fixed, trivial, result,
                 ignoreContainerConflicts, limit, trivialAlloc, options,
                 tempRounds, given, darkSpillARA>>

\* Otherwise the allocator reports an error and the compilation ends.
PHVError ==
  /\ PHVDoesNotFit
  /\ IF altPhvAlloc THEN state # "ALT_FINALIZE_TABLE_SAME_ORDER_TABLE_FIXED"
                    ELSE ~ mauFit
  /\ pc' = "error"
  /\ UNCHANGED <<state, summary, result, mau, ignoreContainerConflicts, limit,
                 trivialAlloc, options, tempRounds, given, darkSpillARA>>

\* TablePlacement: errors of earlier rounds are cleared, then tables placed.
PlaceTables ==
  /\ pc = "tables" /\ pc' = "summary"
  /\ maxStage' \in 1..(DeviceStages + 1)
  /\ problems' \in {"none", "warning", "error"}
  /\ UNCHANGED <<state, summary, mau, ignoreContainerConflicts, limit,
                 trivialAlloc, options, tempRounds, given, darkSpillARA>>

(***************************************************************************)
(* TableSummary: init_apply counts the round and records what was placed,  *)
(* postorder(Pipe) decides.  `Round` is numInvoked after init_apply.       *)
(***************************************************************************)
Round == IF numInvoked < MaxRounds THEN numInvoked + 1 ELSE MaxRounds
Placed == ~ criticalPlacementFailure /\ Fits

\* What the last rounds of the normal flow accept.
PlacedCleanly == ~ placementFailure /\ Fits

Summarize(s) ==
  /\ pc = "summary"
  /\ prev_state' = state
  /\ state' = s
  /\ numInvoked' = Round
  /\ UNCHANGED <<result, limit, trivialAlloc, options, tempRounds, given>>

\* No trigger: on to the next pass, unless placement errors were printed.
Conclude(s, fatal) ==
  /\ Summarize(s)
  /\ pc' = IF fatal THEN "error" ELSE "temps"
  /\ placed' = Round
  /\ UNCHANGED <<firstRoundFit, fixed, trivial, mau, ignoreContainerConflicts>>

\* Trivial allocation placed all tables: remember the placement, allocate for real.
KeepTrivialPlacement ==
  /\ Summarize("ALT_FINALIZE_TABLE_SAME_ORDER")
  /\ placed' = Round /\ trivial' = Round
  /\ RedoPHV(Round, FALSE)
  /\ UNCHANGED <<firstRoundFit, fixed, darkSpillARA>>

AltInitial ==
  /\ state = "ALT_INITIAL"
  /\ \/ Placed /\ KeepTrivialPlacement
     \/ /\ ~ Placed /\ ~ Fits
        /\ Summarize("ALT_RETRY_ENHANCED_TP")
        /\ RerunTables(FALSE)
        /\ placed' = Round
        /\ UNCHANGED <<firstRoundFit, fixed, trivial, darkSpillARA>>
     \/ /\ ~ Placed /\ Fits
        /\ Conclude("FAILURE", TRUE) /\ UNCHANGED darkSpillARA

AltRetryEnhancedTP ==
  /\ state = "ALT_RETRY_ENHANCED_TP"
  /\ \/ Placed /\ KeepTrivialPlacement
     \/ /\ ~ Placed /\ Round = FIRST_ALT_RETRY_ENHANCED_TP_INVOCATION
        /\ Summarize("ALT_INITIAL")
        /\ RedoPHV(Round, FALSE)
        /\ placed' = Round
        /\ UNCHANGED <<firstRoundFit, fixed, trivial, darkSpillARA>>
     \/ /\ ~ Placed /\ Round # FIRST_ALT_RETRY_ENHANCED_TP_INVOCATION
        /\ Conclude("FAILURE", TRUE) /\ UNCHANGED darkSpillARA

\* find_problematic_table() succeeds: constrain that table, allocate again.
MayFixTable == fixed < ALT_PHV_ALLOC_TABLE_FIX_THRESHOLD

\* placedTables handed to the next round: what trivial allocation led to.
PlacedThisRound == Round
PlacedForReplay == trivial

FixTable ==
  /\ MayFixTable
  /\ fixed' = fixed + 1
  /\ Summarize("ALT_FINALIZE_TABLE_SAME_ORDER_TABLE_FIXED")
  /\ placed' = PlacedForReplay
  /\ RedoPHV(trivial, FALSE)
  /\ UNCHANGED <<firstRoundFit, trivial, darkSpillARA>>

AltFinalizeTableSameOrder ==
  /\ state = "ALT_FINALIZE_TABLE_SAME_ORDER"
  /\ \/ Placed /\ Conclude("SUCCESS", FALSE) /\ UNCHANGED darkSpillARA
     \/ ~ Placed /\ FixTable
     \/ /\ ~ Placed
        /\ Summarize("ALT_FINALIZE_TABLE")
        /\ RerunTables(FALSE)
        /\ placed' = 0
        /\ UNCHANGED <<firstRoundFit, fixed, trivial, darkSpillARA>>

AltFinalizeTableFixed ==
  /\ state = "ALT_FINALIZE_TABLE_SAME_ORDER_TABLE_FIXED"
  /\ \/ Placed /\ Conclude("SUCCESS", FALSE) /\ UNCHANGED darkSpillARA
     \/ ~ Placed /\ FixTable
     \/ /\ ~ Placed
        /\ Summarize("ALT_FINALIZE_TABLE")
        /\ RedoPHV(trivial, FALSE)
        /\ placed' = PlacedForReplay
        /\ UNCHANGED <<firstRoundFit, fixed, trivial, darkSpillARA>>

AltFinalizeTable ==
  /\ state = "ALT_FINALIZE_TABLE"
  /\ IF Placed THEN Conclude("SUCCESS", FALSE)
               ELSE Conclude("FAILURE", criticalPlacementFailure)
  /\ UNCHANGED darkSpillARA

SummaryAlt ==
  \/ AltInitial \/ AltRetryEnhancedTP \/ AltFinalizeTableSameOrder
  \/ AltFinalizeTableFixed \/ AltFinalizeTable

-----------------------------------------------------------------------------
\* Without alt_phv_alloc.
Initial ==
  /\ state = "INITIAL"
  /\ IF /\ PlacedCleanly
        /\ maxStage <= CriticalPath + CRITICAL_PATH_THRESHOLD
     THEN Conclude("SUCCESS", FALSE)
     ELSE /\ Summarize("NOCC_TRY1")
          /\ RerunTables(TRUE)
          /\ firstRoundFit' = (firstRoundFit \/ PlacedCleanly)
          /\ placed' = Round
          /\ UNCHANGED <<fixed, trivial>>
  /\ UNCHANGED darkSpillARA

NoContainerConflicts ==
  /\ state \in {"NOCC_TRY1", "NOCC_TRY2"}
  /\ Summarize(IF state = "NOCC_TRY1" THEN "REDO_PHV1" ELSE "REDO_PHV2")
  /\ RedoPHV(Round, ~ Fits \/ (state = "NOCC_TRY2" /\ maxStage = DeviceStages))
  /\ placed' = Round
  /\ UNCHANGED <<firstRoundFit, fixed, trivial, darkSpillARA>>

RedoPHV1 ==
  /\ state = "REDO_PHV1"
  /\ IF PlacedCleanly
     THEN Conclude("SUCCESS", FALSE) /\ UNCHANGED darkSpillARA
     ELSE /\ Summarize("NOCC_TRY2")
          /\ RerunTables(TRUE)
          /\ placed' = Round /\ darkSpillARA' = FALSE
          /\ UNCHANGED <<firstRoundFit, fixed, trivial>>

LastTry ==
  /\ state \in {"REDO_PHV2", "FINAL_PLACEMENT"}
  /\ IF PlacedCleanly
     THEN Conclude("SUCCESS", FALSE)
     ELSE Conclude("FAILURE", criticalPlacementFailure)
  /\ UNCHANGED darkSpillARA

SummaryNormal == Initial \/ NoContainerConflicts \/ RedoPHV1 \/ LastTry

TableSummary == IF altPhvAlloc THEN SummaryAlt ELSE SummaryNormal

-----------------------------------------------------------------------------
\* All temporaries that placement introduced have a container.
NoTemps ==
  /\ pc = "temps" /\ pc' = "next"
  /\ UNCHANGED <<state, summary, result, mau, ignoreContainerConflicts, limit,
                 trivialAlloc, options, tempRounds, given, darkSpillARA>>

(***************************************************************************)
(* Some do not: allocate them incrementally and place tables once more.    *)
(* If that fails, CheckForUnallocatedTemps retries with fewer temporaries; *)
(* the second failure is an error, which ends the PassIf before the pass   *)
(* that throws.                                                            *)
(***************************************************************************)
Temps ==
  /\ pc = "temps" /\ tempRounds < MaxTempRounds
  /\ tempRounds' = tempRounds + 1
  /\ \E allocated \in BOOLEAN :
       IF allocated \/ (~ altPhvAlloc /\ ~ limit)
       THEN /\ limit' = (limit \/ ~ allocated)
            /\ FinalRerun(limit')
       ELSE /\ pc' = "error"
            /\ UNCHANGED <<state, limit, ignoreContainerConflicts>>
  /\ UNCHANGED <<summary, result, mau, trivialAlloc, options, given, darkSpillARA>>

NextTable ==
  /\ pc = "next" /\ pc' = "done"
  /\ UNCHANGED <<state, summary, result, mau, ignoreContainerConflicts, limit,
                 trivialAlloc, options, tempRounds, given, darkSpillARA>>

(***************************************************************************)
(* JbayNextTable runs out of long-branch tags.  The catcher first asks     *)
(* placement to mind them, then does without long branches, and starts     *)
(* over: mau_backtracker.clear() and table_summary.resetPlacement().       *)
(* TablePlacement, asked first, clears ignoreContainerConflicts.           *)
(***************************************************************************)
DoWithoutLongBranches ==
  IF ~ lbBacktrack THEN lbBacktrack' = TRUE /\ UNCHANGED lbDisabled
                   ELSE lbDisabled' = TRUE /\ UNCHANGED lbBacktrack

LongBranchAllocFailed ==
  /\ pc = "next" /\ ~ lbDisabled
  /\ TablePlacementPassed
  /\ DoWithoutLongBranches
  /\ mauTables' = 0
  /\ metaInitDisable' = FALSE /\ ignorePackConflicts' = FALSE /\ mauFit' = FALSE
  /\ state' = InitialState
  /\ pc' = "mau"
  /\ UNCHANGED <<summary, result, mauPlaced, limit, trivialAlloc, tempRounds,
                 given, darkSpillARA>>

Ended == pc \in {"done", "error"} /\ UNCHANGED vars

Next ==
  \/ MauBacktracker \/ PHVFits \/ FallBack \/ StopReplay \/ PHVError
  \/ PlaceTables \/ TableSummary \/ NoTemps \/ Temps
  \/ NextTable \/ LongBranchAllocFailed \/ Ended

Spec == Init /\ [][Next]_vars

\* One thread that keeps running its passes.
FairSpec == Spec /\ WF_vars(Next)

-----------------------------------------------------------------------------
FlagsTyped ==
  /\ altPhvAlloc \in BOOLEAN
  /\ firstRoundFit \in BOOLEAN /\ mauPlaced \in BOOLEAN /\ mauFit \in BOOLEAN
  /\ metaInitDisable \in BOOLEAN /\ ignorePackConflicts \in BOOLEAN
  /\ darkSpillARA \in BOOLEAN /\ ignoreContainerConflicts \in BOOLEAN
  /\ limit \in BOOLEAN /\ trivialAlloc \in BOOLEAN
  /\ lbBacktrack \in BOOLEAN /\ lbDisabled \in BOOLEAN

CountsTyped ==
  /\ numInvoked \in Nat /\ placed \in 0..numInvoked
  /\ trivial \in 0..numInvoked /\ mauTables \in 0..numInvoked
  /\ fixed \in 0..ALT_PHV_ALLOC_TABLE_FIX_THRESHOLD
  /\ maxStage \in 0..(DeviceStages + 1)
  /\ tempRounds \in 0..MaxTempRounds

TypeOK ==
  /\ pc \in {"mau", "phv", "tables", "summary", "temps", "next", "done", "error"}
  /\ state \in CompilationState /\ prev_state \in CompilationState
  /\ problems \in {"none", "warning", "error"}
  /\ fresh \in FreshOutcomes
  /\ FlagsTyped /\ CountsTyped

(***************************************************************************)
(* TableSummary never runs in a state its switch does not handle (the two  *)
(* BUG(...) defaults), whatever mixture of final reruns, restored states   *)
(* and long-branch restarts led there.                                     *)
(***************************************************************************)
StateHandled ==
  pc \in {"mau", "phv", "tables", "summary"} =>
    state \in IF altPhvAlloc THEN AltState ELSE NormalState

(***************************************************************************)
(* Tables are placed without regard to container conflicts in exactly the  *)
(* two NOCC rounds, so no final placement is ever made that way: the flag  *)
(* set for one round is cleared although TablePlacement does not handle    *)
(* the trigger that ends it.                                               *)
(***************************************************************************)
NoccOnlyInNoccRounds ==
  pc = "tables" =>
    (ignoreContainerConflicts <=> state \in {"NOCC_TRY1", "NOCC_TRY2"})

(***************************************************************************)
(* Table replay follows the placement made after trivial allocation: when  *)
(* tables are placed in a replay state, TableSummary's placed tables and   *)
(* MauBacktracker's tables both come from that round.                      *)
(***************************************************************************)
ReplayFollowsTrivialPlacement ==
  pc = "tables" /\ state \in Replay =>
    trivial # 0 /\ placed = trivial /\ mauTables = trivial

(***************************************************************************)
(* The containers a placement uses are real ones: after the rounds of      *)
(* trivial allocation, which assume unlimited containers, PHV allocation   *)
(* never runs trivially again unless the compilation starts over.          *)
(***************************************************************************)
TrivialOnlyInitially ==
  pc = "phv" => (trivialAlloc <=> state = "ALT_INITIAL")

(***************************************************************************)
(* What one round sets up for the next pass does not leak into another     *)
(* round: neither TablePlacement's ignoreContainerConflicts nor the        *)
(* trivial allocation of PHV_Analysis is on in a round it is not meant     *)
(* for, although the flags are cleared by handlers of other triggers.      *)
(***************************************************************************)
FlagsOfTheRound == NoccOnlyInNoccRounds /\ TrivialOnlyInitially

(***************************************************************************)
(* Tables are placed a bounded number of times in one compilation, however *)
(* PHV-allocation retries, table fixing, final reruns and long-branch      *)
(* restarts combine.                                                       *)
(***************************************************************************)
RoundsBounded == numInvoked < MaxRounds

(***************************************************************************)
(* Every round TableSummary concludes is one its switch has a case for,    *)
(* and there are only so many of them, however its triggers interleave.    *)
(***************************************************************************)
RoundsHandled == TypeOK /\ StateHandled /\ RoundsBounded

\* A PHV allocation that fits at first fits each time it is redone without
\* table information.
RedoneFits == fresh[<<FALSE, FALSE, TRUE>>] => \A c \in DOMAIN fresh : fresh[c]

(***************************************************************************)
(* The retries end: whatever each round brings, compilation finishes or    *)
(* reports an error.  In the PHV-first flow this needs that allocation, if *)
(* it fits at first, fits when redone: MauBacktracker::backtrack keeps     *)
(* metaInitDisable, so a fall back onto the first round that does not fit  *)
(* is followed by the same fall back for ever.                             *)
(***************************************************************************)
Termination == altPhvAlloc \/ RedoneFits => <>(pc \in {"done", "error"})
============================================================================
