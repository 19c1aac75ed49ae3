-------------------------- MODULE PlacementProofs --------------------------
(***************************************************************************)
(* Proofs about PlacementBacktracking, for every device, every critical    *)
(* path, every outcome of PHV allocation and every number of rounds with   *)
(* temporaries.                                                            *)
(*                                                                         *)
(* The flags of a round and the placement a replay follows are set in one  *)
(* pass and used in another, so IInv says of each what it is at every pass *)
(* in between.  The number of rounds is bounded by a measure: the rounds   *)
(* made so far and the most that can still come never add up to more.      *)
(***************************************************************************)
EXTENDS PlacementBacktracking, TLAPS

\* A round has been started and TableSummary has not concluded it.
InRound == pc \in {"mau", "phv", "tables", "summary"}

\* A round has been concluded, and the compilation goes on.
Concluded == pc \in {"temps", "next"}

States == IF altPhvAlloc THEN AltState ELSE NormalState

Nocc == {"NOCC_TRY1", "NOCC_TRY2"}

\* Placements assume trivial allocation in these states.
TrivialState == {"ALT_INITIAL", "ALT_RETRY_ENHANCED_TP"}

StatesOK ==
  /\ InRound => state \in States
  /\ Concluded => prev_state \in States \ (Nocc \cup TrivialState)
  /\ pc \in {"mau", "phv"} => state \notin Nocc \cup {"ALT_RETRY_ENHANCED_TP"}
  /\ altPhvAlloc => ~ limit

NoccOK ==
  /\ pc \in {"mau", "phv"} => ~ ignoreContainerConflicts
  /\ pc \in {"tables", "summary"} =>
       (ignoreContainerConflicts <=> state \in Nocc)

TrivialOK ==
  /\ pc \in {"phv", "tables", "summary"} => (trivialAlloc <=> state \in TrivialState)
  /\ pc = "mau" /\ state = "ALT_FINALIZE_TABLE" => ~ trivialAlloc
  /\ Concluded => ~ trivialAlloc
  /\ ~ altPhvAlloc => ~ trivialAlloc

ReplayOK ==
  /\ InRound /\ state \in Replay =>
       trivial # 0 /\ placed = trivial /\ mauTables = trivial
  /\ altPhvAlloc => ~ firstRoundFit /\ ~ mauFit /\ ~ ignorePackConflicts

-----------------------------------------------------------------------------
(***************************************************************************)
(* The rounds still ahead, at worst, before the long-branch catcher or a   *)
(* temporary starts another one: the current round is counted.  The rounds *)
(* that FixTable adds are counted apart, because `fixed` is never reset.   *)
(***************************************************************************)
NormalLeft(s) ==
  CASE s = "INITIAL" -> 5
    [] s = "NOCC_TRY1" -> 4
    [] s = "REDO_PHV1" -> 3
    [] s = "NOCC_TRY2" -> 2
    [] OTHER -> 1

\* Only the second round may go back to ALT_INITIAL.
AltLeft(s) ==
  CASE s = "ALT_INITIAL" -> IF numInvoked = 0 THEN 6 ELSE 4
    [] s = "ALT_RETRY_ENHANCED_TP" -> IF numInvoked = 1 THEN 5 ELSE 3
    [] s \in Replay -> 2
    [] OTHER -> 1

Left(s) == IF altPhvAlloc THEN AltLeft(s) ELSE NormalLeft(s)

RoundsLeft ==
  IF InRound THEN Left(state) ELSE IF Concluded THEN Left(prev_state) - 1 ELSE 0

FixesLeft ==
  IF altPhvAlloc THEN ALT_PHV_ALLOC_TABLE_FIX_THRESHOLD - fixed ELSE 0

Restarts == IF lbDisabled THEN 0 ELSE IF lbBacktrack THEN 1 ELSE 2

RestartRounds == IF altPhvAlloc THEN 4 * Restarts ELSE 5 * Restarts

Measure ==
  numInvoked + RoundsLeft + FixesLeft + RestartRounds
    + (MaxTempRounds - tempRounds)

MeasureOK ==
  /\ Measure <= 17 + MaxTempRounds
  /\ Concluded => numInvoked # 0

IInv == TypeOK /\ StatesOK /\ NoccOK /\ TrivialOK /\ ReplayOK /\ MeasureOK
-----------------------------------------------------------------------------
\* The first state.
LEMMA InitIInv ==
  ASSUME Init
  PROVE  IInv
  <1> USE PlacementAssumption DEF Init, InitialState
  <1>1. FlagsTyped
    BY DEF FlagsTyped
  <1>2. CountsTyped
    BY DEF CountsTyped, ALT_PHV_ALLOC_TABLE_FIX_THRESHOLD
  <1>3. TypeOK
    BY <1>1, <1>2 DEF TypeOK, CompilationState, NormalState, AltState
  <1>4. StatesOK /\ NoccOK
    BY DEF StatesOK, NoccOK, InRound, Concluded, States, Nocc, NormalState,
           AltState
  <1>5. TrivialOK /\ ReplayOK
    BY DEF TrivialOK, ReplayOK, InRound, Concluded, Replay, TrivialState
  <1>6. MeasureOK
    BY DEF MeasureOK, Measure, RoundsLeft, Left, NormalLeft, AltLeft, FixesLeft,
           RestartRounds, Restarts, InRound, Concluded,
           ALT_PHV_ALLOC_TABLE_FIX_THRESHOLD
  <1> QED BY <1>3, <1>4, <1>5, <1>6 DEF IInv

\* MauBacktracker chooses the allocation the state calls for.
LEMMA MauBacktrackerStep ==
  ASSUME IInv, MauBacktracker
  PROVE  IInv'
  <1> USE DEF IInv, MauBacktracker, summary, result, options, given
  <1>1. FlagsTyped'
    <2>1. FlagsTyped BY DEF TypeOK
    <2>2. UseTrivialAlloc \in BOOLEAN BY <2>1, Zenon DEF FlagsTyped, UseTrivialAlloc
    <2>3. /\ altPhvAlloc' = altPhvAlloc /\ firstRoundFit' = firstRoundFit
          /\ mauPlaced' = mauPlaced /\ mauFit' = mauFit
          /\ metaInitDisable' = metaInitDisable
          /\ ignorePackConflicts' = ignorePackConflicts
          /\ darkSpillARA' = darkSpillARA
          /\ lbBacktrack' = lbBacktrack /\ lbDisabled' = lbDisabled
          /\ ignoreContainerConflicts' = ignoreContainerConflicts
          /\ limit' = limit /\ trivialAlloc' = UseTrivialAlloc
      OBVIOUS
    <2> QED BY ONLY <2>1, <2>2, <2>3 DEF FlagsTyped
  <1>2. TypeOK'
    BY <1>1 DEF TypeOK, CountsTyped
  <1>3. StatesOK' /\ NoccOK'
    BY DEF StatesOK, NoccOK, InRound, Concluded, States
  <1>4. TrivialOK' /\ ReplayOK'
    BY DEF TrivialOK, ReplayOK, StatesOK, States, InRound, Concluded, Replay,
           TrivialState, UseTrivialAlloc, AltState, NormalState, TypeOK,
           FlagsTyped
  <1>5. MeasureOK'
    BY DEF MeasureOK, Measure, RoundsLeft, Left, NormalLeft, AltLeft, FixesLeft,
           RestartRounds, Restarts, InRound, Concluded
  <1> QED BY <1>2, <1>3, <1>4, <1>5

\* The measure's parts are numbers, and none is negative.
LEMMA MeasureFacts ==
  ASSUME IInv
  PROVE  /\ RoundsLeft \in Nat /\ FixesLeft \in Nat /\ RestartRounds \in Nat
         /\ MaxTempRounds - tempRounds \in Nat
         /\ InRound => RoundsLeft >= 1
         /\ numInvoked < MaxRounds /\ Round = numInvoked + 1
  <1> USE DEF IInv, TypeOK, CountsTyped
  <1>1. \A s : NormalLeft(s) \in 1..5 /\ AltLeft(s) \in 1..6
    BY DEF NormalLeft, AltLeft
  <1>2. RoundsLeft \in Nat /\ (InRound => RoundsLeft >= 1)
    BY <1>1 DEF RoundsLeft, Left
  <1>3. FixesLeft \in Nat
    BY DEF FixesLeft, ALT_PHV_ALLOC_TABLE_FIX_THRESHOLD
  <1>4. RestartRounds \in Nat
    BY DEF RestartRounds, Restarts
  <1>5. MaxTempRounds - tempRounds \in Nat
    BY PlacementAssumption
  <1>6. numInvoked < MaxRounds
    BY <1>2, <1>3, <1>4, <1>5, PlacementAssumption, RoundsAssumption
       DEF MeasureOK, Measure
  <1> QED BY <1>2, <1>3, <1>4, <1>5, <1>6 DEF Round

\* Passes that only hand over to the next one.
LEMMA HandOverStep ==
  ASSUME IInv, PHVFits \/ PHVError \/ NoTemps \/ NextTable
  PROVE  IInv'
  <1> USE DEF IInv
  <1>1. UNCHANGED <<state, summary, result, mau, ignoreContainerConflicts, limit,
                    trivialAlloc, options, tempRounds, given, darkSpillARA>>
    BY DEF PHVFits, PHVError, NoTemps, NextTable
  <1>2. \/ pc = "phv" /\ pc' \in {"tables", "error"}
        \/ pc = "temps" /\ pc' = "next" 
        \/ pc = "next" /\ pc' = "done"
    BY DEF PHVFits, PHVError, PHVDoesNotFit, NoTemps, NextTable
  <1> USE <1>1, <1>2 DEF summary, result, options, given, mau
  <1>3. TypeOK'
    BY DEF TypeOK, FlagsTyped, CountsTyped
  <1>4. StatesOK' /\ NoccOK'
    BY DEF StatesOK, NoccOK, InRound, Concluded, States
  <1>5. TrivialOK' /\ ReplayOK'
    BY DEF TrivialOK, ReplayOK, InRound, Concluded
  <1>6. MeasureOK'
    <2>1. RoundsLeft' <= RoundsLeft /\ RoundsLeft' \in Nat
      BY MeasureFacts
         DEF RoundsLeft, Left, NormalLeft, AltLeft, InRound, Concluded
    <2>2. FixesLeft' = FixesLeft /\ RestartRounds' = RestartRounds
      BY DEF FixesLeft, RestartRounds, Restarts
    <2>3. Concluded' => numInvoked' # 0
      BY DEF MeasureOK, Concluded
    <2> QED BY <2>1, <2>2, <2>3, MeasureFacts, PlacementAssumption
            DEF MeasureOK, Measure, TypeOK, CountsTyped
  <1> QED BY <1>3, <1>4, <1>5, <1>6

\* Table placement: any number of stages, any problems.
LEMMA PlaceTablesStep ==
  ASSUME IInv, PlaceTables
  PROVE  IInv'
  <1> USE DEF IInv, PlaceTables, summary, options, given, mau
  <1>1. TypeOK'
    BY PlacementAssumption DEF TypeOK, FlagsTyped, CountsTyped
  <1>2. StatesOK' /\ NoccOK'
    BY DEF StatesOK, NoccOK, InRound, Concluded, States
  <1>3. TrivialOK' /\ ReplayOK'
    BY DEF TrivialOK, ReplayOK, InRound, Concluded
  <1>4. MeasureOK'
    BY DEF MeasureOK, Measure, RoundsLeft, Left, NormalLeft, AltLeft, FixesLeft,
           RestartRounds, Restarts, InRound, Concluded
  <1> QED BY <1>1, <1>2, <1>3, <1>4

\* The PHV allocator throws: back to MauBacktracker, in the same round or in
\* ALT_FINALIZE_TABLE.
LEMMA AllocatorThrowsStep ==
  ASSUME IInv, FallBack \/ StopReplay
  PROVE  IInv'
  <1> USE DEF IInv
  <1>1. /\ pc = "phv" /\ pc' = "mau"
        /\ UNCHANGED <<prev_state, firstRoundFit, numInvoked, fixed, trivial, result,
                       ignoreContainerConflicts, limit, trivialAlloc, options,
                       tempRounds, given, darkSpillARA>>
    BY DEF FallBack, StopReplay, CatchPHVTrigger, PHVDoesNotFit, summary
  <1>2. \/ ~ altPhvAlloc /\ UNCHANGED <<state, placed>>
        \/ /\ altPhvAlloc /\ state = "ALT_FINALIZE_TABLE_SAME_ORDER_TABLE_FIXED"
           /\ state' = "ALT_FINALIZE_TABLE" /\ placed' = 0
    BY DEF FallBack, StopReplay, GiveUpReplay, summary
  <1>3. /\ mauPlaced' = TRUE /\ metaInitDisable' = (metaInitDisable \/ FALSE)
        /\ mauFit' \in {mauFit \/ mauFit, mauFit \/ firstRoundFit}
        /\ \/ ignorePackConflicts' = (ignorePackConflicts \/ FALSE)
           \/ ignorePackConflicts' = (ignorePackConflicts \/ TRUE) /\ ~ altPhvAlloc
    BY DEF FallBack, StopReplay, CatchPHVTrigger
  <1>4. mauTables' \in {0, trivial, mauTables}
    BY DEF FallBack, StopReplay, CatchPHVTrigger
  <1> USE <1>1, <1>2, <1>3, <1>4 DEF options, given, result
  <1>5. FlagsTyped'
    BY DEF TypeOK, FlagsTyped
  <1>6. TypeOK'
    BY <1>5 DEF TypeOK, CountsTyped, CompilationState, AltState
  <1>7. StatesOK' /\ NoccOK'
    BY DEF StatesOK, NoccOK, InRound, Concluded, States, Nocc, AltState
  <1>8. TrivialOK'
    BY DEF TrivialOK, StatesOK, InRound, Concluded, TrivialState, States,
           NormalState
  <1>9. ReplayOK'
    BY DEF ReplayOK, StatesOK, InRound, States, NormalState, Replay
  <1>10. MeasureOK'
    <2>1. RoundsLeft' <= RoundsLeft /\ RoundsLeft' \in Nat
      BY MeasureFacts
         DEF RoundsLeft, Left, NormalLeft, AltLeft, InRound, Concluded, Replay
    <2>2. FixesLeft' = FixesLeft /\ RestartRounds' = RestartRounds
      BY DEF FixesLeft, RestartRounds, Restarts
    <2> QED BY <2>1, <2>2, MeasureFacts, PlacementAssumption
            DEF MeasureOK, Measure, TypeOK, CountsTyped, Concluded
  <1> QED BY <1>6, <1>7, <1>8, <1>9, <1>10

-----------------------------------------------------------------------------
\* TableSummary concludes the round without a trigger.
LEMMA ConcludeStep ==
  ASSUME IInv, NEW s \in {"SUCCESS", "FAILURE"}, NEW fatal \in BOOLEAN,
         Conclude(s, fatal), UNCHANGED darkSpillARA,
         state \notin Nocc, ~ fatal => state \notin TrivialState
  PROVE  IInv'
  <1> USE DEF IInv, Conclude, Summarize, options, given, mau
  <1>1. numInvoked \in Nat /\ numInvoked' = numInvoked + 1 /\ placed' = numInvoked'
    BY MeasureFacts DEF TypeOK, CountsTyped
  <1>2. FlagsTyped'
    BY DEF TypeOK, FlagsTyped
  <1>3. CountsTyped'
    BY <1>1 DEF TypeOK, CountsTyped, result
  <1>4. TypeOK'
    BY <1>2, <1>3 DEF TypeOK, CompilationState, result
  <1>5. StatesOK' /\ NoccOK'
    BY DEF StatesOK, NoccOK, InRound, Concluded, States
  <1>6. TrivialOK' /\ ReplayOK'
    BY DEF TrivialOK, ReplayOK, InRound, Concluded
  <1>7. MeasureOK'
    <2>1. pc' = "error" \/ (pc' = "temps" /\ state \notin TrivialState)
      OBVIOUS
    <2>2. RoundsLeft' <= RoundsLeft - 1 /\ RoundsLeft' \in Nat
      BY <2>1, MeasureFacts
         DEF RoundsLeft, Left, NormalLeft, AltLeft, InRound, Concluded,
             TrivialState, Replay
    <2>3. FixesLeft' = FixesLeft /\ RestartRounds' = RestartRounds
      BY DEF FixesLeft, RestartRounds, Restarts
    <2> QED BY <1>1, <2>2, <2>3, MeasureFacts, PlacementAssumption
            DEF MeasureOK, Measure, TypeOK, CountsTyped
  <1> QED BY <1>4, <1>5, <1>6, <1>7

(***************************************************************************)
(* TableSummary throws: what a trigger that starts a round in state s must *)
(* leave behind.  The last conjunct is the round's cost in the measure.    *)
(***************************************************************************)
LEMMA TryAgainStep ==
  ASSUME IInv, NEW s \in States, Summarize(s), darkSpillARA' \in BOOLEAN,
         pc' \in {"mau", "tables"},
         {placed', trivial', mauTables'} \subseteq 0..(numInvoked + 1),
         fixed' \in 0..ALT_PHV_ALLOC_TABLE_FIX_THRESHOLD,
         FlagsTyped',
         ignoreContainerConflicts' <=> s \in Nocc,
         pc' = "mau" => s \notin Nocc \cup {"ALT_RETRY_ENHANCED_TP"},
         pc' = "tables" => (trivialAlloc <=> s \in TrivialState),
         pc' = "mau" /\ s = "ALT_FINALIZE_TABLE" => ~ trivialAlloc,
         s \in Replay => trivial' # 0 /\ placed' = trivial' /\ mauTables' = trivial',
         altPhvAlloc => ~ firstRoundFit' /\ ~ mauFit' /\ ~ ignorePackConflicts',
         Left(s)' + FixesLeft' < Left(state) + FixesLeft
  PROVE  IInv'
  <1> USE DEF IInv, Summarize, options, given
  <1>1. numInvoked \in Nat /\ numInvoked' = numInvoked + 1 /\ state' = s
    BY MeasureFacts DEF TypeOK, CountsTyped
  <1>2. CountsTyped'
    BY <1>1 DEF TypeOK, CountsTyped, result
  <1>3. TypeOK'
    BY <1>2 DEF TypeOK, CompilationState, result, States
  <1>4. StatesOK' /\ NoccOK'
    BY DEF StatesOK, NoccOK, InRound, Concluded, States
  <1>5. TrivialOK'
    BY DEF TrivialOK, InRound, Concluded
  <1>6. ReplayOK'
    BY DEF ReplayOK
  <1>7. MeasureOK'
    <2>1. RoundsLeft' + FixesLeft' < RoundsLeft + FixesLeft
      BY <1>1 DEF RoundsLeft, InRound
    <2>2. RoundsLeft' \in Nat /\ FixesLeft' \in Nat
      BY <1>1, <1>2, <1>3
         DEF RoundsLeft, InRound, Left, NormalLeft, AltLeft, FixesLeft, CountsTyped,
             ALT_PHV_ALLOC_TABLE_FIX_THRESHOLD
    <2>3. RestartRounds' = RestartRounds
      BY DEF RestartRounds, Restarts
    <2> QED BY <1>1, <2>1, <2>2, <2>3, MeasureFacts, PlacementAssumption
            DEF MeasureOK, Measure, TypeOK, CountsTyped, Concluded
  <1> QED BY <1>3, <1>4, <1>5, <1>6, <1>7

\* Trivial allocation placed all tables: the replay follows that placement.
LEMMA KeepTrivialPlacementStep ==
  ASSUME IInv, altPhvAlloc, state \in TrivialState, KeepTrivialPlacement
  PROVE  IInv'
  <1> DEFINE s == "ALT_FINALIZE_TABLE_SAME_ORDER"
  <1> USE DEF IInv, KeepTrivialPlacement, RedoPHV, TablePlacementPassed,
              CatchPHVTrigger
  <1>1. Summarize(s) /\ s \in States /\ pc' = "mau" /\ darkSpillARA' \in BOOLEAN
    BY DEF States, AltState, TypeOK, FlagsTyped
  <1>2. numInvoked \in Nat /\ numInvoked' = numInvoked + 1 /\ Round = numInvoked + 1
    BY MeasureFacts DEF Summarize, TypeOK, CountsTyped
  <1>3. altPhvAlloc' /\ ~ firstRoundFit' /\ ~ mauFit' /\ ~ ignorePackConflicts'
    BY DEF ReplayOK, Summarize, given
  <1>4. placed' = Round /\ trivial' = Round /\ mauTables' = Round
    BY <1>3
  <1>5. FlagsTyped'
    BY <1>1 DEF TypeOK, FlagsTyped, Summarize, given, options
  <1>6. fixed' = fixed /\ fixed \in 0..3
    BY DEF TypeOK, CountsTyped, ALT_PHV_ALLOC_TABLE_FIX_THRESHOLD
  <1>7. Left(s)' + FixesLeft' < Left(state) + FixesLeft
    <2>1. Left(s)' = 2
      BY <1>3 DEF Left, AltLeft, Replay
    <2>2. Left(state) \in Nat /\ Left(state) > 2
      BY <1>2 DEF Left, AltLeft, Replay, TrivialState
    <2>3. FixesLeft' = FixesLeft /\ FixesLeft \in Nat
      BY <1>3, <1>6 DEF FixesLeft, ALT_PHV_ALLOC_TABLE_FIX_THRESHOLD
    <2> QED BY <2>1, <2>2, <2>3
  <1>8. ignoreContainerConflicts' <=> s \in Nocc
    BY DEF Nocc
  <1>9. {placed', trivial', mauTables'} \subseteq 0..(numInvoked + 1) /\ trivial' # 0
    BY <1>2, <1>4
  <1> QED BY <1>1, <1>3, <1>4, <1>5, <1>6, <1>7, <1>8, <1>9, TryAgainStep
          DEF Nocc, ALT_PHV_ALLOC_TABLE_FIX_THRESHOLD

\* The rounds with trivial allocation.
LEMMA AltTrivialStep ==
  ASSUME IInv, altPhvAlloc, AltInitial \/ AltRetryEnhancedTP
  PROVE  IInv'
  <1> USE DEF IInv
  <1>1. state \in TrivialState /\ state \notin Nocc
    BY DEF AltInitial, AltRetryEnhancedTP, TrivialState, Nocc
  <1>2. ASSUME Conclude("FAILURE", TRUE), UNCHANGED darkSpillARA
        PROVE  IInv'
    BY <1>1, <1>2, ConcludeStep
  <1>3. ASSUME NEW s \in States, Summarize(s), placed' = Round, UNCHANGED mauFit,
               UNCHANGED <<firstRoundFit, fixed, trivial, darkSpillARA>>,
               UNCHANGED ignorePackConflicts, mauTables' \in {Round, mauTables},
               metaInitDisable' = metaInitDisable, mauPlaced' \in BOOLEAN,
               s \notin Replay, ignoreContainerConflicts' = FALSE, s \notin Nocc,
               \/ /\ pc' = "mau" /\ s = "ALT_INITIAL" /\ numInvoked = 1
                  /\ state = "ALT_RETRY_ENHANCED_TP"
               \/ /\ pc' = "tables" /\ s = "ALT_RETRY_ENHANCED_TP"
                  /\ state = "ALT_INITIAL"
        PROVE  IInv'
    <2>1. numInvoked \in Nat /\ numInvoked' = numInvoked + 1 /\ Round = numInvoked + 1
      BY <1>3, MeasureFacts DEF Summarize, TypeOK, CountsTyped
    <2>2. FlagsTyped'
      BY <1>3 DEF TypeOK, FlagsTyped, Summarize, given, options
    <2>3. {placed', trivial', mauTables'} \subseteq 0..(numInvoked + 1)
      BY <1>3, <2>1 DEF TypeOK, CountsTyped
    <2>4. /\ altPhvAlloc' /\ ~ firstRoundFit' /\ ~ mauFit' /\ ~ ignorePackConflicts'
          /\ trivialAlloc
      BY <1>1, <1>3 DEF ReplayOK, TrivialOK, Summarize, given
    <2>5. Left(s)' + FixesLeft' < Left(state) + FixesLeft
      <3>1. Left(s)' \in Nat /\ Left(state) \in Nat /\ Left(s)' < Left(state)
        <4>1. CASE /\ s = "ALT_INITIAL" /\ numInvoked = 1
                   /\ state = "ALT_RETRY_ENHANCED_TP"
          BY <2>1, <2>4, <4>1 DEF Left, AltLeft, Replay
        <4>2. CASE s = "ALT_RETRY_ENHANCED_TP" /\ state = "ALT_INITIAL"
          BY <2>1, <2>4, <4>2 DEF Left, AltLeft, Replay
        <4> QED BY <1>3, <4>1, <4>2
      <3>2. FixesLeft' = FixesLeft /\ FixesLeft \in Nat
        BY <1>3, <2>4, MeasureFacts DEF FixesLeft
      <3> QED BY <3>1, <3>2
    <2>6. fixed' \in 0..ALT_PHV_ALLOC_TABLE_FIX_THRESHOLD /\ darkSpillARA' \in BOOLEAN
      BY <1>3 DEF TypeOK, CountsTyped, FlagsTyped
    <2>7. s \in TrivialState /\ pc' \in {"mau", "tables"}
      BY <1>3 DEF TrivialState
    <2> QED BY <1>3, <2>2, <2>3, <2>4, <2>5, <2>6, <2>7, TryAgainStep
            DEF TrivialState, Nocc
  <1>4. CASE AltInitial
    <2>1. CASE KeepTrivialPlacement
      BY <1>1, <2>1, KeepTrivialPlacementStep
    <2>2. CASE Conclude("FAILURE", TRUE) /\ UNCHANGED darkSpillARA
      BY <1>2, <2>2
    <2>3. CASE /\ Summarize("ALT_RETRY_ENHANCED_TP") /\ RerunTables(FALSE)
               /\ placed' = Round
               /\ UNCHANGED <<firstRoundFit, fixed, trivial, darkSpillARA>>
      <3>1. "ALT_RETRY_ENHANCED_TP" \in States \ (Replay \cup Nocc)
        BY DEF States, AltState, Replay, Nocc
      <3>2. mauPlaced \in BOOLEAN
        BY DEF TypeOK, FlagsTyped
      <3> QED BY <1>3, <1>4, <2>3, <3>1, <3>2 DEF RerunTables, mau, AltInitial
    <2> QED BY <1>4, <2>1, <2>2, <2>3 DEF AltInitial
  <1>5. CASE AltRetryEnhancedTP
    <2>1. CASE KeepTrivialPlacement
      BY <1>1, <2>1, KeepTrivialPlacementStep
    <2>2. CASE Conclude("FAILURE", TRUE) /\ UNCHANGED darkSpillARA
      BY <1>2, <2>2
    <2>3. CASE /\ Round = FIRST_ALT_RETRY_ENHANCED_TP_INVOCATION
               /\ Summarize("ALT_INITIAL") /\ RedoPHV(Round, FALSE)
               /\ placed' = Round
               /\ UNCHANGED <<firstRoundFit, fixed, trivial, darkSpillARA>>
      <3>1. "ALT_INITIAL" \in States \ (Replay \cup Nocc)
        BY DEF States, AltState, Replay, Nocc
      <3>2. numInvoked = 1
        BY <2>3, MeasureFacts
           DEF TypeOK, CountsTyped, FIRST_ALT_RETRY_ENHANCED_TP_INVOCATION
      <3>3. /\ pc' = "mau" /\ UNCHANGED <<mauFit, metaInitDisable, ignorePackConflicts>>
            /\ mauPlaced' = TRUE /\ mauTables' \in {Round, mauTables}
            /\ ignoreContainerConflicts' = FALSE
        BY <2>3 DEF RedoPHV, TablePlacementPassed, CatchPHVTrigger, ReplayOK,
                    TypeOK, FlagsTyped
      <3> QED BY <1>3, <1>5, <2>3, <3>1, <3>2, <3>3 DEF AltRetryEnhancedTP
    <2> QED BY <1>5, <2>1, <2>2, <2>3 DEF AltRetryEnhancedTP
  <1> QED BY <1>4, <1>5

\* The rounds that replay a placement: accept, constrain a table, or give up.
LEMMA ReplayStep ==
  ASSUME IInv, altPhvAlloc, AltFinalizeTableSameOrder \/ AltFinalizeTableFixed
  PROVE  IInv'
  <1> USE DEF IInv
  <1>1. state \in Replay /\ state \notin Nocc \cup TrivialState
    BY DEF AltFinalizeTableSameOrder, AltFinalizeTableFixed, TrivialState, Nocc, Replay
  <1>2. ASSUME Conclude("SUCCESS", FALSE), UNCHANGED darkSpillARA
        PROVE  IInv'
    BY <1>1, <1>2, ConcludeStep
  <1>3. ASSUME NEW s \in {"ALT_FINALIZE_TABLE_SAME_ORDER_TABLE_FIXED",
                          "ALT_FINALIZE_TABLE"},
               Summarize(s), UNCHANGED <<firstRoundFit, trivial, darkSpillARA>>,
               \/ /\ s = "ALT_FINALIZE_TABLE_SAME_ORDER_TABLE_FIXED"
                  /\ MayFixTable /\ fixed' = fixed + 1
               \/ s = "ALT_FINALIZE_TABLE" /\ fixed' = fixed,
               \/ RedoPHV(trivial, FALSE) /\ placed' = trivial
               \/ RerunTables(FALSE) /\ placed' = 0 /\ s = "ALT_FINALIZE_TABLE"
        PROVE  IInv'
    <2>1. numInvoked \in Nat /\ numInvoked' = numInvoked + 1
      BY <1>3, MeasureFacts DEF Summarize, TypeOK, CountsTyped
    <2>2. /\ trivial # 0 /\ mauTables = trivial /\ ~ trivialAlloc
          /\ firstRoundFit = FALSE /\ mauFit = FALSE /\ ignorePackConflicts = FALSE
          /\ pc = "summary"
      BY <1>1, <1>3
         DEF ReplayOK, TrivialOK, InRound, Summarize, TypeOK, FlagsTyped
    <2>3. /\ mauTables' = trivial /\ mauFit' = FALSE /\ ignorePackConflicts' = FALSE
          /\ metaInitDisable' = metaInitDisable /\ mauPlaced' \in BOOLEAN
          /\ ignoreContainerConflicts' = FALSE /\ pc' \in {"mau", "tables"}
      BY <1>3, <2>2
         DEF RedoPHV, TablePlacementPassed, RerunTables, CatchPHVTrigger, mau,
             TypeOK, FlagsTyped
    <2>4. FlagsTyped' /\ darkSpillARA' \in BOOLEAN
      BY <1>3, <2>3 DEF TypeOK, FlagsTyped, Summarize, given, options
    <2>5. {placed', trivial', mauTables'} \subseteq 0..(numInvoked + 1)
      <3>1. placed' \in {0, trivial} /\ trivial' = trivial /\ mauTables' = trivial
        BY <1>3, <2>3
      <3> QED BY <2>1, <3>1 DEF TypeOK, CountsTyped
    <2>6. fixed' \in 0..ALT_PHV_ALLOC_TABLE_FIX_THRESHOLD
      BY <1>3 DEF TypeOK, CountsTyped, MayFixTable, ALT_PHV_ALLOC_TABLE_FIX_THRESHOLD
    <2>7. Left(s)' + FixesLeft' < Left(state) + FixesLeft
      <3>1. altPhvAlloc'
        BY <1>3 DEF Summarize, given
      <3>2. state \notin TrivialState /\ state \in Replay
        BY <1>1
      <3>3. Left(state) = 2
        BY <3>2 DEF Left, AltLeft, TrivialState, Replay
      <3>4. CASE s = "ALT_FINALIZE_TABLE"
        <4>1. Left(s)' = 1
          BY <3>1, <3>4 DEF Left, AltLeft, Replay
        <4>2. FixesLeft' = FixesLeft
          BY <1>3, <3>1, <3>4 DEF FixesLeft
        <4> QED BY <3>3, <4>1, <4>2, MeasureFacts
      <3>5. CASE s # "ALT_FINALIZE_TABLE"
        <4>1. Left(s)' = 2
          BY <1>3, <3>1, <3>5 DEF Left, AltLeft, Replay
        <4>2. FixesLeft' = FixesLeft - 1
          BY <1>3, <3>1, <3>5
             DEF FixesLeft, TypeOK, CountsTyped, ALT_PHV_ALLOC_TABLE_FIX_THRESHOLD
        <4> QED BY <3>3, <4>1, <4>2, MeasureFacts
      <3> QED BY <3>4, <3>5
    <2>8. s \in States /\ s \notin Nocc \cup TrivialState
      BY <1>3 DEF States, AltState, Nocc, TrivialState
    <2>9. s \in Replay => placed' = trivial
      BY <1>3 DEF Replay
    <2> QED BY <1>3, <2>2, <2>3, <2>4, <2>5, <2>6, <2>7, <2>8, <2>9, TryAgainStep
            DEF TrivialState
  <1>4. ASSUME FixTable
        PROVE  IInv'
    BY <1>3, <1>4 DEF FixTable, PlacedForReplay
  <1>5. CASE AltFinalizeTableSameOrder
    BY <1>2, <1>3, <1>4, <1>5 DEF AltFinalizeTableSameOrder
  <1>6. CASE AltFinalizeTableFixed
    BY <1>2, <1>3, <1>4, <1>6 DEF AltFinalizeTableFixed, PlacedForReplay
  <1> QED BY <1>5, <1>6

\* The last placement of either flow.
LEMMA LastStep ==
  ASSUME IInv, AltFinalizeTable \/ LastTry
  PROVE  IInv'
  <1>1. state \notin Nocc \cup TrivialState
    BY DEF AltFinalizeTable, LastTry, Nocc, TrivialState
  <1>2. UNCHANGED darkSpillARA
    BY DEF AltFinalizeTable, LastTry
  <1>3. \/ Conclude("SUCCESS", FALSE)
        \/ Conclude("FAILURE", criticalPlacementFailure)
    BY DEF AltFinalizeTable, LastTry
  <1>4. criticalPlacementFailure \in BOOLEAN
    BY DEF criticalPlacementFailure
  <1> QED BY <1>1, <1>2, <1>3, <1>4, ConcludeStep

-----------------------------------------------------------------------------
\* The rounds of the PHV-first flow that may try again.
LEMMA NormalStep ==
  ASSUME IInv, ~ altPhvAlloc, Initial \/ NoContainerConflicts \/ RedoPHV1
  PROVE  IInv'
  <1> USE DEF IInv
  <1>1. ASSUME NEW s \in {"NOCC_TRY1", "REDO_PHV1", "NOCC_TRY2", "REDO_PHV2"},
               Summarize(s), placed' = Round, UNCHANGED <<fixed, trivial>>,
               firstRoundFit' \in BOOLEAN, darkSpillARA' \in BOOLEAN,
               \/ RerunTables(TRUE) /\ s \in Nocc
               \/ /\ s \notin Nocc
                  /\ \E meta \in BOOLEAN : RedoPHV(Round, meta),
               NormalLeft(s) < NormalLeft(state)
        PROVE  IInv'
    <2>1. numInvoked \in Nat /\ numInvoked' = numInvoked + 1 /\ Round = numInvoked + 1
      BY <1>1, MeasureFacts DEF Summarize, TypeOK, CountsTyped
    <2>2. /\ mauTables' \in {Round, mauTables} /\ mauFit' \in BOOLEAN
          /\ ignorePackConflicts' \in BOOLEAN /\ metaInitDisable' \in BOOLEAN
          /\ mauPlaced' \in BOOLEAN /\ ignoreContainerConflicts' \in BOOLEAN
          /\ ignoreContainerConflicts' <=> s \in Nocc
          /\ IF s \in Nocc THEN pc' = "tables" ELSE pc' = "mau"
      <3>1. CASE RerunTables(TRUE) /\ s \in Nocc
        BY <3>1 DEF RerunTables, mau, TypeOK, FlagsTyped
      <3>2. CASE s \notin Nocc /\ \E meta \in BOOLEAN : RedoPHV(Round, meta)
        BY <3>2 DEF RedoPHV, TablePlacementPassed, CatchPHVTrigger, TypeOK,
                    FlagsTyped
      <3> QED BY <1>1, <3>1, <3>2
    <2>3. FlagsTyped'
      BY <1>1, <2>2 DEF TypeOK, FlagsTyped, Summarize, given, options
    <2>4. {placed', trivial', mauTables'} \subseteq 0..(numInvoked + 1)
      BY <1>1, <2>1, <2>2 DEF TypeOK, CountsTyped
    <2>5. fixed' \in 0..ALT_PHV_ALLOC_TABLE_FIX_THRESHOLD
      BY <1>1 DEF TypeOK, CountsTyped
    <2>6. Left(s)' + FixesLeft' < Left(state) + FixesLeft
      <3>1. ~ altPhvAlloc'
        BY <1>1 DEF Summarize, given
      <3>2. Left(s)' = NormalLeft(s) /\ Left(state) = NormalLeft(state)
        BY <3>1 DEF Left, NormalLeft
      <3>3. NormalLeft(s) \in Nat /\ NormalLeft(state) \in Nat
        BY DEF NormalLeft
      <3> QED BY <1>1, <3>1, <3>2, <3>3 DEF FixesLeft
    <2>7. s \in States /\ s \notin Replay \cup TrivialState \cup {"ALT_FINALIZE_TABLE"}
      BY <1>1 DEF States, NormalState, Replay, TrivialState
    <2>8. ~ trivialAlloc /\ pc' \in {"mau", "tables"}
      BY <2>2 DEF TrivialOK
    <2> QED BY <1>1, <2>2, <2>3, <2>4, <2>5, <2>6, <2>7, <2>8, TryAgainStep
            DEF TrivialState
  <1>2. ASSUME Conclude("SUCCESS", FALSE), UNCHANGED darkSpillARA,
               state \in {"INITIAL", "REDO_PHV1"}
        PROVE  IInv'
    <2>1. state \notin Nocc \cup TrivialState
      BY <1>2 DEF Nocc, TrivialState
    <2> QED BY <1>2, <2>1, ConcludeStep
  <1>3. /\ darkSpillARA \in BOOLEAN /\ firstRoundFit \in BOOLEAN
        /\ PlacedCleanly \in BOOLEAN
    BY DEF TypeOK, FlagsTyped, PlacedCleanly, placementFailure, Fits
  <1>4. CASE Initial
    <2>1. NormalLeft("NOCC_TRY1") < NormalLeft("INITIAL")
      BY DEF NormalLeft
    <2>2. CASE Conclude("SUCCESS", FALSE)
      BY <1>2, <1>4, <2>2 DEF Initial
    <2>3. CASE ~ Conclude("SUCCESS", FALSE)
      BY <1>1, <1>3, <1>4, <2>1, <2>3 DEF Initial, Nocc
    <2> QED BY <2>2, <2>3
  <1>5. CASE NoContainerConflicts
    <2>1. /\ NormalLeft("REDO_PHV1") < NormalLeft("NOCC_TRY1")
          /\ NormalLeft("REDO_PHV2") < NormalLeft("NOCC_TRY2")
      BY DEF NormalLeft
    <2>2. \E meta \in BOOLEAN : RedoPHV(Round, meta)
      BY <1>5 DEF NoContainerConflicts, Fits
    <2>3. CASE state = "NOCC_TRY1"
      BY <1>1, <1>3, <1>5, <2>1, <2>2, <2>3 DEF NoContainerConflicts, Nocc
    <2>4. CASE state # "NOCC_TRY1"
      BY <1>1, <1>3, <1>5, <2>1, <2>2, <2>4 DEF NoContainerConflicts, Nocc
    <2> QED BY <2>3, <2>4
  <1>6. CASE RedoPHV1
    <2>1. NormalLeft("NOCC_TRY2") < NormalLeft("REDO_PHV1")
      BY DEF NormalLeft
    <2>2. CASE PlacedCleanly
      BY <1>2, <1>6, <2>2 DEF RedoPHV1
    <2>3. CASE ~ PlacedCleanly
      BY <1>1, <1>3, <1>6, <2>1, <2>3 DEF RedoPHV1, Nocc
    <2> QED BY <2>2, <2>3
  <1> QED BY <1>4, <1>5, <1>6

\* TableSummary, in either flow.
LEMMA TableSummaryStep ==
  ASSUME IInv, TableSummary
  PROVE  IInv'
  <1>1. CASE altPhvAlloc
    BY <1>1, AltTrivialStep, ReplayStep, LastStep DEF TableSummary, SummaryAlt
  <1>2. CASE ~ altPhvAlloc
    BY <1>2, NormalStep, LastStep DEF TableSummary, SummaryNormal
  <1> QED BY <1>1, <1>2

-----------------------------------------------------------------------------
(***************************************************************************)
(* Temporaries without a container: one more round, in the state that was  *)
(* concluded or in the final one.  The measure pays for it with one of the *)
(* rounds that may leave temporaries.                                      *)
(***************************************************************************)
LEMMA TempsStep ==
  ASSUME IInv, Temps
  PROVE  IInv'
  <1> USE DEF IInv
  <1>1. /\ pc = "temps" /\ tempRounds < MaxTempRounds /\ tempRounds' = tempRounds + 1
        /\ UNCHANGED <<summary, result, mau, trivialAlloc, options, given, darkSpillARA>>
    BY DEF Temps
  <1>2. \/ /\ pc' = "tables" /\ ignoreContainerConflicts' = FALSE
           /\ limit' \in BOOLEAN /\ (altPhvAlloc => ~ limit')
           /\ state' = IF limit' THEN prev_state ELSE FinalState
        \/ pc' = "error" /\ UNCHANGED <<state, limit, ignoreContainerConflicts>>
    <2>1. PICK allocated \in BOOLEAN :
            IF allocated \/ (~ altPhvAlloc /\ ~ limit)
            THEN /\ limit' = (limit \/ ~ allocated)
                 /\ FinalRerun(limit')
            ELSE /\ pc' = "error"
                 /\ UNCHANGED <<state, limit, ignoreContainerConflicts>>
      BY DEF Temps
    <2> QED BY <2>1 DEF FinalRerun, TablePlacementPassed, StatesOK, TypeOK,
                        FlagsTyped
  <1> USE <1>1, <1>2 DEF summary, result, mau, options, given
  <1>3. FlagsTyped'
    <2>1. FlagsTyped BY DEF TypeOK
    <2>2. /\ altPhvAlloc' = altPhvAlloc /\ firstRoundFit' = firstRoundFit
          /\ mauPlaced' = mauPlaced /\ mauFit' = mauFit
          /\ metaInitDisable' = metaInitDisable
          /\ ignorePackConflicts' = ignorePackConflicts
          /\ darkSpillARA' = darkSpillARA
          /\ lbBacktrack' = lbBacktrack /\ lbDisabled' = lbDisabled
          /\ trivialAlloc' = trivialAlloc
      OBVIOUS
    <2>3. limit' \in BOOLEAN /\ ignoreContainerConflicts' \in BOOLEAN
      BY <2>1 DEF FlagsTyped
    <2> QED BY ONLY <2>1, <2>2, <2>3 DEF FlagsTyped
  <1>4. CountsTyped'
    BY PlacementAssumption DEF TypeOK, CountsTyped
  <1>5. state' \in CompilationState
    BY DEF TypeOK, FinalState, CompilationState, NormalState, AltState
  <1>6. TypeOK'
    BY <1>3, <1>4, <1>5 DEF TypeOK
  <1>7. pc' = "tables" => state' \in States' \ (Nocc \cup TrivialState)
    BY DEF StatesOK, Concluded, States, FinalState, NormalState, AltState, Nocc,
           TrivialState
  <1>8. StatesOK' /\ NoccOK'
    BY <1>7 DEF StatesOK, NoccOK, InRound, Concluded
  <1>9. TrivialOK'
    BY <1>7 DEF TrivialOK, Concluded
  <1>10. ReplayOK'
    <2>1. pc' = "tables" => state' \notin Replay
      BY DEF StatesOK, FinalState, Replay, Concluded, States, NormalState
    <2> QED BY <2>1 DEF ReplayOK, InRound
  <1>11. MeasureOK'
    <2>1. RoundsLeft' \in Nat /\ RoundsLeft' <= RoundsLeft + 1
      <3>1. CASE pc' = "error"
        BY <3>1, MeasureFacts DEF RoundsLeft, InRound, Concluded
      <3>2. CASE pc' = "tables"
        <4>1. RoundsLeft = Left(prev_state) - 1 /\ RoundsLeft' = Left(state)'
          BY <3>2 DEF RoundsLeft, InRound, Concluded
        <4>2. CASE state' = prev_state
          <5>1. Left(state)' = Left(prev_state) /\ Left(prev_state) \in Nat
            BY <4>2 DEF Left, NormalLeft, AltLeft
          <5> QED BY <4>1, <5>1
        <4>3. CASE state' = FinalState
          <5>1. Left(state)' = 1 
            BY <4>3 DEF FinalState, Left, NormalLeft, AltLeft, Replay
          <5> QED BY <4>1, <5>1, MeasureFacts
        <4> QED BY <3>2, <4>2, <4>3
      <3> QED BY <3>1, <3>2
    <2>2. FixesLeft' = FixesLeft /\ RestartRounds' = RestartRounds
      BY DEF FixesLeft, RestartRounds, Restarts
    <2> QED BY <2>1, <2>2, MeasureFacts, PlacementAssumption
            DEF MeasureOK, Measure, TypeOK, CountsTyped, Concluded
  <1> QED BY <1>6, <1>8, <1>9, <1>10, <1>11

(***************************************************************************)
(* The long-branch catcher starts over.  It does so at most twice, and a   *)
(* compilation that starts over has at most four rounds to go (five if PHV *)
(* allocation comes first), because the round that may go back to          *)
(* ALT_INITIAL is over and `fixed` is kept.                                *)
(***************************************************************************)
LEMMA LongBranchStep ==
  ASSUME IInv, LongBranchAllocFailed
  PROVE  IInv'
  <1> USE DEF IInv, LongBranchAllocFailed, TablePlacementPassed, summary,
              result, given
  <1>1. /\ lbBacktrack' \in BOOLEAN /\ lbDisabled' \in BOOLEAN
        /\ Restarts' = Restarts - 1 /\ Restarts \in 1..2
    <2>1. /\ lbBacktrack \in BOOLEAN /\ lbDisabled = FALSE
          /\ \/ lbBacktrack = FALSE /\ lbBacktrack' = TRUE /\ lbDisabled' = FALSE
             \/ lbBacktrack = TRUE /\ lbBacktrack' = TRUE /\ lbDisabled' = TRUE
      BY DEF TypeOK, FlagsTyped, DoWithoutLongBranches
    <2>2. Restarts = IF lbBacktrack THEN 1 ELSE 2
      BY <2>1 DEF Restarts
    <2>3. Restarts' = IF lbDisabled' THEN 0 ELSE 1
      BY <2>1 DEF Restarts
    <2>4. lbBacktrack' \in BOOLEAN /\ lbDisabled' \in BOOLEAN
      BY <2>1
    <2> QED BY <2>1, <2>2, <2>3, <2>4
  <1>2. FlagsTyped'
    BY <1>1 DEF TypeOK, FlagsTyped
  <1>3. TypeOK'
    BY <1>2 DEF TypeOK, CountsTyped, InitialState, CompilationState, NormalState,
                AltState
  <1>4. StatesOK' /\ NoccOK'
    BY DEF StatesOK, NoccOK, InRound, Concluded, States, Nocc, InitialState,
           NormalState, AltState
  <1>5. TrivialOK' /\ ReplayOK'
    BY DEF TrivialOK, ReplayOK, InRound, Concluded, InitialState, Replay,
           TrivialState
  <1>6. MeasureOK'
    <2>1. numInvoked # 0 /\ numInvoked' = numInvoked
      BY DEF MeasureOK, Concluded
    <2>2. RoundsLeft' = IF altPhvAlloc THEN 4 ELSE 5
      BY <2>1 DEF RoundsLeft, InRound, Left, NormalLeft, AltLeft, InitialState,
                  Replay
    <2>3. RestartRounds' = RestartRounds - (IF altPhvAlloc THEN 4 ELSE 5)
      BY <1>1 DEF RestartRounds
    <2>4. FixesLeft' = FixesLeft
      BY DEF FixesLeft
    <2> QED BY <2>1, <2>2, <2>3, <2>4, MeasureFacts, PlacementAssumption
            DEF MeasureOK, Measure, TypeOK, CountsTyped, Concluded
  <1> QED BY <1>3, <1>4, <1>5, <1>6

\* A stuttering step.
LEMMA UnchangedStep ==
  ASSUME IInv, UNCHANGED vars
  PROVE  IInv'
  <1> USE DEF IInv, vars, summary, result, mau, options, given
  <1>1. TypeOK' /\ StatesOK' /\ NoccOK'
    BY DEF TypeOK, FlagsTyped, CountsTyped, StatesOK, NoccOK, InRound, Concluded,
           States
  <1>2. TrivialOK' /\ ReplayOK'
    BY DEF TrivialOK, ReplayOK, InRound, Concluded
  <1>3. MeasureOK'
    BY DEF MeasureOK, Measure, RoundsLeft, Left, NormalLeft, AltLeft, FixesLeft,
           RestartRounds, Restarts, InRound, Concluded
  <1> QED BY <1>1, <1>2, <1>3

-----------------------------------------------------------------------------
(***************************************************************************)
(* The inductive invariant holds in every state of every compilation.      *)
(***************************************************************************)
THEOREM PlacementInductive == Spec => []IInv
  <1>1. IInv /\ [Next]_vars => IInv'
    BY MauBacktrackerStep, HandOverStep, AllocatorThrowsStep, PlaceTablesStep,
       TableSummaryStep, TempsStep, LongBranchStep, UnchangedStep DEF Next, Ended
  <1> QED BY <1>1, InitIInv, PTL DEF Spec

(***************************************************************************)
(* TableSummary's switch has a case for every round it concludes, and      *)
(* there are only so many rounds, for every device and every outcome of    *)
(* PHV allocation and table placement.                                     *)
(***************************************************************************)
THEOREM RoundsAreHandled == Spec => []RoundsHandled
  <1>1. IInv => RoundsHandled
    BY MeasureFacts DEF IInv, RoundsHandled, StatesOK, StateHandled, RoundsBounded,
                        InRound, States
  <1> QED BY <1>1, PlacementInductive, PTL

(***************************************************************************)
(* How many: tables are placed at most 17 times, and once more for every   *)
(* round that leaves temporaries.                                          *)
(***************************************************************************)
THEOREM AtMostSeventeenRounds == Spec => [](numInvoked <= 17 + tempRounds)
  <1>1. IInv => numInvoked <= 17 + tempRounds
    BY MeasureFacts, PlacementAssumption
       DEF IInv, MeasureOK, Measure, TypeOK, CountsTyped
  <1> QED BY <1>1, PlacementInductive, PTL

(***************************************************************************)
(* Neither ignoreContainerConflicts nor trivial allocation is on in a      *)
(* round it is not meant for.                                              *)
(***************************************************************************)
THEOREM FlagsDoNotLeak == Spec => []FlagsOfTheRound
  <1>1. IInv => FlagsOfTheRound
    BY DEF IInv, FlagsOfTheRound, NoccOnlyInNoccRounds, TrivialOnlyInitially,
           NoccOK, TrivialOK, StatesOK, Nocc, TrivialState
  <1> QED BY <1>1, PlacementInductive, PTL

(***************************************************************************)
(* A table replay follows the placement made after trivial allocation.     *)
(***************************************************************************)
THEOREM ReplayIsOfTrivialPlacement == Spec => []ReplayFollowsTrivialPlacement
  <1>1. IInv => ReplayFollowsTrivialPlacement
    BY DEF IInv, ReplayFollowsTrivialPlacement, ReplayOK, InRound
  <1> QED BY <1>1, PlacementInductive, PTL
=============================================================================
