------------------------- MODULE PassManagerProofs -------------------------
(***************************************************************************)
(* Proofs about PassManager, for every tree of passes.                     *)
(*                                                                         *)
(* None of the invariants is inductive alone.  IInv says, for every        *)
(* manager that is walking its passes, where in the tree its loop stands   *)
(* (on the path to cur), that its program and its saved programs extend    *)
(* the program the walk began with by changes of earlier passes only, and  *)
(* that this program extends the one the enclosing manager holds.          *)
(*                                                                         *)
(* The second part is about histories: HInv says how the programs of one   *)
(* run relate, and gives the order of changes, the running flags and the   *)
(* refinement of PassSequence.                                             *)
(***************************************************************************)
EXTENDS PassManager, TLAPS

Enclosing(m) == m \in Manager /\ m < cur /\ cur <= Last[m]

\* The loop of m is at one of its passes.
At(m) == it[m] <= Last[m] /\ Parent[it[m]] = m

Consistent(m) ==
  /\ m < it[m] /\ it[m] <= Last[m] + 1
  /\ program[m] \in Program
  /\ Extends(program[m], entry[m], m + 1, it[m] - 1)

Saved(m) ==
  /\ \A i \in 1..Len(backup[m]) :
       /\ m < backup[m][i][1] /\ backup[m][i][1] <= it[m]
       /\ backup[m][i][1] <= Last[m] /\ Parent[backup[m][i][1]] = m
       /\ Extends(backup[m][i][2], entry[m], m + 1, backup[m][i][1] - 1)
  /\ \A i, j \in 1..Len(backup[m]) :
       i < j => backup[m][i][1] <= backup[m][j][1]

Entered(m) == m # 1 => Extends(entry[m], program[Parent[m]], m, Last[m])

EnclosingOK ==
  \A m \in Manager : Enclosing(m) =>
    /\ Consistent(m) /\ Saved(m) /\ Entered(m) /\ At(m)
    /\ it[m] <= cur /\ cur <= Last[it[m]]

CurrentOK ==
  /\ pc \notin {"apply", "done", "aborted"} =>
       cur \in Manager /\ Saved(cur) /\ Entered(cur)
  /\ pc = "apply" =>
       node \in Program /\ (cur # 1 => node = program[Parent[cur]])
  /\ pc \in {"loop", "returned", "catch"} => Consistent(cur)
  /\ pc = "loop" =>
       node = program[cur] /\ (it[cur] <= Last[cur] => At(cur))
  /\ pc \in {"returned", "catch"} => At(cur)
  /\ pc = "returned" =>
       node = Null \/ Extends(node, program[cur], it[cur], Last[it[cur]])
  /\ pc = "catch" => it[cur] <= thrower
  /\ pc = "finish" =>
       program[cur] = Null \/ Extends(program[cur], entry[cur], cur + 1, Last[cur])
  /\ pc \in {"done", "aborted"} => cur = 1

IInv == TypeOK /\ EnclosingOK /\ CurrentOK

-----------------------------------------------------------------------------
(***************************************************************************)
(* Lemmas about programs.                                                  *)
(***************************************************************************)
\* A program extends itself, by no changes at all.
LEMMA ExtendsRefl ==
  ASSUME NEW p \in Program, NEW lo \in Int, NEW hi \in Int
  PROVE  Extends(p, p, lo, hi)
  BY DEF Extends, Program

\* Extending by earlier passes and then by later ones.
LEMMA ExtendsTrans ==
  ASSUME NEW p \in Program, NEW q \in Program, NEW r \in Program,
         NEW lo \in Int, NEW mid1 \in Int, NEW mid2 \in Int, NEW hi \in Int,
         Extends(p, q, mid1, hi), Extends(q, r, lo, mid2),
         lo <= mid1, mid2 <= hi
  PROVE  Extends(p, r, lo, hi)
  <1>1. Len(p) \in Nat /\ Len(q) \in Nat /\ Len(r) \in Nat
    BY DEF Program
  <1>2. \A i \in 1..Len(p) : p[i] \in Int
    <2> TAKE i \in 1..Len(p)
    <2>1. p[i] \in Visitor BY <1>1 DEF Program
    <2>2. N \in Nat BY ConstantAssumption
    <2> QED BY <2>1, <2>2 DEF Visitor
  <1>3. \A i \in (Len(r) + 1)..Len(p) : lo <= p[i] /\ p[i] <= hi
    <2> TAKE i \in (Len(r) + 1)..Len(p)
    <2>1. CASE i <= Len(q)
      BY <2>1, <1>1, <1>2 DEF Extends
    <2>2. CASE i > Len(q)
      BY <2>2, <1>1, <1>2 DEF Extends
    <2> QED BY <2>1, <2>2, <1>1
  <1> QED BY <1>1, <1>3 DEF Extends

\* Changes made by passes lo..hi are changes made by any wider range.
LEMMA ExtendsWiden ==
  ASSUME NEW p \in Program, NEW q \in Program,
         NEW lo \in Int, NEW hi \in Int, NEW lo2 \in Int, NEW hi2 \in Int,
         Extends(p, q, lo, hi), lo2 <= lo, hi <= hi2
  PROVE  Extends(p, q, lo2, hi2)
  <1>1. \A i \in 1..Len(p) : p[i] \in Int
    BY ConstantAssumption DEF Program, Visitor
  <1> QED BY <1>1 DEF Extends, Program

\* A pass that changes the program appends itself to its history.
LEMMA ExtendsAppend ==
  ASSUME NEW p \in Program, NEW v \in Visitor
  PROVE  Append(p, v) \in Program /\ Extends(Append(p, v), p, v, v)
  BY DEF Extends, Program, Visitor

-----------------------------------------------------------------------------
(***************************************************************************)
(* Lemmas about the tree.                                                  *)
(***************************************************************************)
\* The numbers of the passes are integers between 1 and N.
LEMMA Numbers ==
  /\ N \in Int /\ 1 \in Visitor
  /\ \A v \in Visitor : /\ v \in Int /\ 1 <= v /\ v <= N
                        /\ Last[v] \in Visitor /\ Parent[v] \in Visitor
                        /\ v <= Last[v]
  BY ConstantAssumption, TreeAssumption DEF Visitor

\* A pass is owned by a manager, and its subtree lies in that manager's.
LEMMA NextPass ==
  ASSUME NEW v \in Visitor, v # 1
  PROVE  /\ Parent[v] \in Manager /\ Parent[v] < v /\ Last[v] <= Last[Parent[v]]
         /\ Last[v] < Last[Parent[v]] => Parent[Last[v] + 1] = Parent[v]
  BY TreeAssumption

\* What encloses v is the manager that owns v and whatever encloses that.
LEMMA Ancestors ==
  ASSUME NEW v \in Visitor, v # 1, NEW m \in Visitor
  PROVE  m < v /\ v <= Last[m] <=>
           m = Parent[v] \/ (m < Parent[v] /\ Parent[v] <= Last[m])
  <1> DEFINE P == Parent[v]
  <1>1. P \in Visitor /\ P < v /\ v <= Last[P]
    BY Numbers, NextPass
  <1>2. ASSUME m < v, v <= Last[m] PROVE m <= P /\ P <= Last[m]
    <2>1. m <= P BY <1>2, TreeAssumption
    <2> QED BY <2>1, <1>1, <1>2, Numbers
  <1>3. ASSUME m < P, P <= Last[m] PROVE m < v /\ v <= Last[m]
    <2>1. Last[P] <= Last[m] BY <1>1, <1>3, TreeAssumption
    <2>2. {m, P, v, Last[P], Last[m]} \subseteq Int BY <1>1, Numbers
    <2> HIDE DEF P
    <2> QED BY <2>1, <2>2, <1>1, <1>3
  <1> QED BY <1>1, <1>2, <1>3, Numbers

\* The passes of one manager do not contain each other.
LEMMA Siblings ==
  ASSUME NEW v \in Visitor, NEW w \in Visitor, v # 1, w # 1,
         Parent[v] = Parent[w], v < w
  PROVE  Last[v] < w
  <1>1. SUFFICES ASSUME w <= Last[v] PROVE FALSE
    BY Numbers
  <1>2. v <= Parent[w]
    BY <1>1, TreeAssumption
  <1> QED BY <1>2, NextPass, Numbers

\* A leaf is not a manager, is not the root, and has no passes below it.
LEMMA LeafFacts ==
  ASSUME NEW v \in Leaf
  PROVE  v \in Visitor /\ v # 1 /\ v \notin Manager /\ Last[v] = v
  BY TreeAssumption DEF Leaf, Manager, LeafKind, ManagerKind

\* A manager's first pass is the one after it in the numbering.
LEMMA ManagerFacts ==
  ASSUME NEW m \in Manager
  PROVE  m \in Visitor /\ (m < Last[m] => Parent[m + 1] = m)
  BY TreeAssumption DEF Manager

-----------------------------------------------------------------------------
(***************************************************************************)
(* The shape of a step: the managers around cur when cur stays, returns to *)
(* its parent, or calls one of its passes.                                 *)
(***************************************************************************)
\* A pass that is executing is the one its manager's loop is at.
LEMMA ParentAt ==
  ASSUME IInv, cur # 1
  PROVE  /\ Parent[cur] \in Manager /\ Enclosing(Parent[cur])
         /\ it[Parent[cur]] = cur
         /\ Consistent(Parent[cur]) /\ Saved(Parent[cur])
         /\ Entered(Parent[cur]) /\ At(Parent[cur])
  <1> DEFINE P == Parent[cur]
  <1>1. cur \in Visitor
    BY DEF IInv, TypeOK
  <1>2. P \in Manager /\ P \in Visitor /\ P < cur /\ cur <= Last[P]
    BY <1>1, NextPass, Numbers
  <1>3. Enclosing(P)
    BY <1>2 DEF Enclosing
  <1>4. /\ Consistent(P) /\ Saved(P) /\ Entered(P) /\ At(P)
        /\ it[P] <= cur /\ cur <= Last[it[P]]
    BY <1>2, <1>3 DEF IInv, EnclosingOK
  <1>5. it[P] \in Visitor /\ it[P] # 1 /\ Parent[it[P]] = P
    <2>1. it[P] \in 1..(N + 1) /\ P < it[P] /\ it[P] <= Last[P] /\ Parent[it[P]] = P
      BY <1>2, <1>4 DEF IInv, TypeOK, At, Consistent
    <2> QED BY <2>1, <1>2, Numbers DEF Visitor
  <1>6. it[P] = cur
    BY <1>1, <1>4, <1>5, Siblings, Numbers
  <1> QED BY <1>2, <1>3, <1>4, <1>6

\* Steps within one manager leave the managers around it alone.
LEMMA Stay ==
  ASSUME IInv, cur' = cur,
         \A m \in Visitor \ {cur} :
           /\ it'[m] = it[m] /\ program'[m] = program[m]
           /\ entry'[m] = entry[m] /\ backup'[m] = backup[m]
  PROVE  EnclosingOK'
  <1> SUFFICES ASSUME NEW m \in Manager, Enclosing(m)'
               PROVE  /\ Consistent(m)' /\ Saved(m)' /\ Entered(m)' /\ At(m)'
                      /\ (it[m] <= cur)' /\ (cur <= Last[it[m]])'
    BY DEF EnclosingOK
  <1>0. m \in Visitor /\ cur \in Visitor
    BY ManagerFacts DEF IInv, TypeOK
  <1>1. m \in Visitor /\ m # cur /\ Enclosing(m) /\ cur \in Visitor
    BY <1>0, Numbers DEF Enclosing
  <1>2. m # 1 => Parent[m] \in Visitor /\ Parent[m] # cur
    BY <1>1, NextPass, Numbers DEF Enclosing
  <1> QED BY <1>1, <1>2 DEF IInv, EnclosingOK, Consistent, Saved, Entered, At

\* A return or a rethrow to the enclosing manager.
LEMMA Up ==
  ASSUME IInv, cur # 1, cur' = Parent[cur],
         it' = it, program' = program, entry' = entry, backup' = backup
  PROVE  /\ EnclosingOK' /\ (cur \in Manager)'
         /\ Consistent(cur)' /\ Saved(cur)' /\ Entered(cur)' /\ At(cur)'
  <1>1. /\ Parent[cur] \in Manager /\ it[Parent[cur]] = cur
        /\ Consistent(Parent[cur]) /\ Saved(Parent[cur])
        /\ Entered(Parent[cur]) /\ At(Parent[cur])
    BY ParentAt
  <1>2. EnclosingOK'
    <2> SUFFICES ASSUME NEW m \in Manager, Enclosing(m)'
                 PROVE  /\ Consistent(m)' /\ Saved(m)' /\ Entered(m)' /\ At(m)'
                        /\ (it[m] <= cur)' /\ (cur <= Last[it[m]])'
      BY DEF EnclosingOK
    <2>1. m \in Visitor /\ cur \in Visitor /\ Parent[cur] \in Visitor
      BY ManagerFacts, Numbers DEF IInv, TypeOK
    <2>2. Enclosing(m)
      BY <2>1, Ancestors DEF Enclosing
    <2>3. /\ Consistent(m) /\ Saved(m) /\ Entered(m) /\ At(m)
          /\ it[m] <= cur /\ cur <= Last[it[m]]
      BY <2>2 DEF IInv, EnclosingOK
    <2>4. it[m] \in Visitor /\ it[m] # 1 /\ Parent[it[m]] = m
      <3>1. it[m] \in 1..(N + 1) /\ m < it[m] /\ it[m] <= Last[m]
        BY <2>1, <2>3 DEF IInv, TypeOK, At, Consistent
      <3> QED BY <3>1, <2>1, <2>3, Numbers DEF Visitor, At
    <2>5. it[m] # cur
      BY <2>4, <2>1, Numbers DEF Enclosing
    <2>6. it[m] <= Parent[cur] /\ Parent[cur] <= Last[it[m]]
      <3>1. it[m] < cur /\ cur <= Last[it[m]]
        BY <2>1, <2>3, <2>4, <2>5, Numbers
      <3>2. \/ it[m] = Parent[cur]
            \/ it[m] < Parent[cur] /\ Parent[cur] <= Last[it[m]]
        BY <3>1, <2>1, <2>4, Ancestors
      <3> QED BY <3>2, <2>1, <2>4, Numbers
    <2> QED BY <2>3, <2>6 DEF Consistent, Saved, Entered, At
  <1> QED BY <1>1, <1>2 DEF Consistent, Saved, Entered, At

\* A walk of cur's passes begins with program p.
LEMMA BeginStep ==
  ASSUME IInv, cur \in Manager, NEW p \in Program, Begin(cur, p),
         cur # 1 => Extends(p, program[Parent[cur]], cur, Last[cur])
  PROVE  /\ EnclosingOK' /\ CurrentOK'
         /\ pc' \in Control /\ cur' \in Visitor /\ node' \in Program \cup {Null}
         /\ it' \in [Visitor -> 1..(N + 1)]
         /\ program' \in [Visitor -> Program \cup {Null}]
         /\ entry' \in [Visitor -> Program]
         /\ backup' \in [Visitor -> Seq(Visitor \X Program)]
         /\ initial' \in [Visitor -> Nat]
         /\ early' \in [Visitor -> BOOLEAN]
  <1>1. TypeOK
    BY DEF IInv
  <1>2. /\ cur \in Visitor /\ cur \in Int /\ 1 <= cur /\ cur <= N
        /\ Last[cur] \in Int /\ cur <= Last[cur]
    BY <1>1, Numbers DEF TypeOK
  <1>3. /\ it'[cur] = cur + 1 /\ program'[cur] = p /\ entry'[cur] = p
        /\ backup'[cur] = << >>
    BY <1>1, <1>2 DEF TypeOK, Begin
  <1>4. cur' = cur /\ pc' = "loop" /\ node' = p
    BY DEF Begin
  <1>5. EnclosingOK'
    <2>1. \A m \in Visitor \ {cur} :
            /\ it'[m] = it[m] /\ program'[m] = program[m]
            /\ entry'[m] = entry[m] /\ backup'[m] = backup[m]
      BY <1>1 DEF TypeOK, Begin
    <2> QED BY <1>4, <2>1, Stay
  <1>6. CurrentOK'
    <2>1. Saved(cur)'
      BY <1>3, <1>4 DEF Saved
    <2>2. Entered(cur)'
      <3>1. cur # 1 => Parent[cur] \in Visitor /\ Parent[cur] # cur
        BY <1>2, NextPass, Numbers
      <3>2. cur # 1 => program'[Parent[cur]] = program[Parent[cur]]
        BY <3>1, <1>1 DEF TypeOK, Begin
      <3> QED BY <3>2, <1>3, <1>4 DEF Entered
    <2>3. Consistent(cur)'
      <3>1. Extends(p, p, cur + 1, cur + 1 - 1)
        BY <1>2, ExtendsRefl
      <3> QED BY <3>1, <1>2, <1>3, <1>4 DEF Consistent
    <2>4. (it[cur] <= Last[cur])' => At(cur)'
      BY <1>2, <1>3, <1>4, ManagerFacts DEF At
    <2> QED BY <1>3, <1>4, <2>1, <2>2, <2>3, <2>4 DEF CurrentOK
  <1>7. it' \in [Visitor -> 1..(N + 1)]
    <2>1. cur + 1 \in 1..(N + 1)
      BY <1>2, Numbers
    <2> QED BY <1>1, <2>1 DEF TypeOK, Begin
  <1>8. /\ initial' \in [Visitor -> Nat] /\ early' \in [Visitor -> BOOLEAN]
        /\ program' \in [Visitor -> Program \cup {Null}]
        /\ entry' \in [Visitor -> Program]
    BY <1>1 DEF TypeOK, Begin
  <1>9. backup' \in [Visitor -> Seq(Visitor \X Program)]
    <2>1. << >> \in Seq(Visitor \X Program)
      OBVIOUS
    <2> QED BY <1>1, <2>1 DEF TypeOK, Begin
  <1> QED BY <1>2, <1>4, <1>5, <1>6, <1>7, <1>8, <1>9 DEF Control

\* Manager cur, or a leaf, hands program p (or nullptr) to its parent.
LEMMA ReturnStep ==
  ASSUME IInv, Return(cur, node'), cur \in Visitor,
         node' \in Program \cup {Null},
         node' # Null /\ cur # 1 =>
           Extends(node', program[Parent[cur]], cur, Last[cur]),
         it' = it, program' = program, entry' = entry, backup' = backup
  PROVE  EnclosingOK' /\ CurrentOK' /\ pc' \in Control /\ cur' \in Visitor
  <1>1. CASE cur = 1
    <2>1. pc' = "done" /\ cur' = 1
      BY <1>1 DEF Return
    <2>2. EnclosingOK'
      BY <2>1, ManagerFacts, Numbers DEF EnclosingOK, Enclosing
    <2> QED BY <2>1, <2>2, Numbers DEF CurrentOK, Control
  <1>2. CASE cur # 1
    <2>1. pc' = "returned" /\ cur' = Parent[cur]
      BY <1>2 DEF Return
    <2>2. /\ EnclosingOK' /\ (cur \in Manager)'
          /\ Consistent(cur)' /\ Saved(cur)' /\ Entered(cur)' /\ At(cur)'
      BY <1>2, <2>1, Up
    <2>3. it'[cur'] = cur
      BY <1>2, <2>1, ParentAt
    <2> QED BY <1>2, <2>1, <2>2, <2>3, ManagerFacts DEF CurrentOK, Control
  <1> QED BY <1>1, <1>2

-----------------------------------------------------------------------------
(***************************************************************************)
(* One lemma per action.                                                   *)
(***************************************************************************)
\* The run begins with the outermost manager about to be applied.
LEMMA InitIInv ==
  ASSUME Init
  PROVE  IInv
  <1>1. TypeOK
    <2>1. << >> \in Program /\ << >> \in Seq(Visitor \X Program)
      BY DEF Program
    <2>2. \A v \in Visitor : v \in 1..(N + 1)
      BY Numbers
    <2>3. MaxTries \in 0..MaxTries
      BY ConstantAssumption
    <2> QED BY <2>1, <2>2, <2>3, Numbers DEF Init, TypeOK, Control
  <1>2. EnclosingOK
    BY ManagerFacts, Numbers DEF Init, EnclosingOK, Enclosing
  <1>3. CurrentOK
    BY DEF Init, CurrentOK, Program
  <1> QED BY <1>1, <1>2, <1>3 DEF IInv

\* A call of the manager: its program is the one its parent holds.
LEMMA ApplyManagerStep ==
  ASSUME IInv, ApplyManager \/ ApplyRepeated
  PROVE  IInv'
  <1>1. TypeOK /\ pc = "apply" /\ cur \in Manager /\ Begin(cur, node)
    BY DEF IInv, ApplyManager, ApplyRepeated
  <1>2. node \in Program
    BY <1>1 DEF IInv, CurrentOK
  <1>3. cur # 1 => Extends(node, program[Parent[cur]], cur, Last[cur])
    <2>1. cur \in Int /\ Last[cur] \in Int
      BY <1>1, Numbers DEF TypeOK
    <2>2. cur # 1 => node = program[Parent[cur]]
      BY <1>1 DEF IInv, CurrentOK
    <2> QED BY <1>2, <2>1, <2>2, ExtendsRefl
  <1>4. /\ errors' = errors /\ tries' = tries /\ trig' = trig
        /\ thrower' = thrower /\ running' = [running EXCEPT ![cur] = TRUE]
    BY DEF ApplyManager, ApplyRepeated, MarkRunning
  <1>5. /\ iterations' \in [Visitor -> Nat]
        /\ rinitial' \in [Visitor -> Nat]
    <2>1. CASE ApplyManager BY <2>1, <1>1 DEF TypeOK, ApplyManager
    <2>2. CASE ApplyRepeated BY <2>2, <1>1 DEF TypeOK, ApplyRepeated
    <2> QED BY <2>1, <2>2
  <1>6. TypeOK'
    BY <1>1, <1>2, <1>3, <1>4, <1>5, BeginStep DEF TypeOK
  <1> QED BY <1>1, <1>2, <1>3, <1>6, BeginStep DEF IInv

\* A PassIf whose condition is false hands its program straight back.
LEMMA SkipIfStep ==
  ASSUME IInv, SkipIf
  PROVE  IInv'
  <1>1. TypeOK /\ pc = "apply" /\ node' = node /\ Return(cur, node')
    BY DEF IInv, SkipIf, Return
  <1>2. node \in Program /\ (cur # 1 => node = program[Parent[cur]])
    BY <1>1 DEF IInv, CurrentOK
  <1>3. cur # 1 => Extends(node, program[Parent[cur]], cur, Last[cur])
    <2>1. cur \in Int /\ Last[cur] \in Int
      BY <1>1, Numbers DEF TypeOK
    <2> QED BY <1>2, <2>1, ExtendsRefl
  <1>4. EnclosingOK' /\ CurrentOK' /\ pc' \in Control /\ cur' \in Visitor
    BY <1>1, <1>2, <1>3, ReturnStep DEF SkipIf, TypeOK
  <1>5. TypeOK'
    BY <1>1, <1>2, <1>4 DEF TypeOK, SkipIf, MarkRunning
  <1> QED BY <1>4, <1>5 DEF IInv

\* A manager saves a backup for the pass at `it`, if need be, and runs it.
LEMMA InvokeStep ==
  ASSUME IInv, Invoke
  PROVE  IInv'
  <1> DEFINE v == it[cur]
  <1>1. TypeOK /\ EnclosingOK
    BY DEF IInv
  <1>2. /\ cur \in Manager /\ Saved(cur) /\ Entered(cur) /\ Consistent(cur)
        /\ At(cur) /\ pc = "loop" /\ v <= Last[cur]
    BY DEF IInv, CurrentOK, Invoke
  <1>3. /\ pc' = "apply" /\ cur' = v /\ node' = program[cur]
        /\ it' = it /\ program' = program /\ entry' = entry
    BY DEF Invoke
  <1>4. cur \in Visitor /\ cur \in Int /\ Last[cur] \in Int /\ Last[cur] <= N
    BY <1>1, Numbers DEF TypeOK
  <1>5. v \in Visitor /\ v # 1 /\ Parent[v] = cur /\ v \in Int /\ cur < v
    <2>1. v \in 1..(N + 1) /\ cur < v
      BY <1>1, <1>2, <1>4 DEF TypeOK, Consistent
    <2> QED BY <2>1, <1>2, <1>4, Numbers DEF At, Visitor
  <1>6. program[cur] \in Program
    BY <1>2 DEF Consistent
  <1>7. backup' \in [Visitor -> Seq(Visitor \X Program)]
    <2>1. BackupEntry(cur, v) \in Visitor \X Program
      BY <1>5, <1>6 DEF BackupEntry
    <2>2. Append(backup[cur], BackupEntry(cur, v)) \in Seq(Visitor \X Program)
      <3>1. backup[cur] \in Seq(Visitor \X Program) BY <1>1, <1>4 DEF TypeOK
      <3> QED BY <2>1, <3>1
    <2> QED BY <2>2, <1>1, <1>4 DEF TypeOK, Invoke
  <1>8. TypeOK'
    BY <1>1, <1>3, <1>5, <1>6, <1>7 DEF TypeOK, Invoke, Control
  <1>9. Saved(cur)
    BY <1>2
  <1>10. \A m \in Visitor \ {cur} : backup'[m] = backup[m]
    BY <1>1 DEF TypeOK, Invoke
  <1>11. \A i \in 1..Len(backup'[cur]) :
           /\ cur < backup'[cur][i][1] /\ backup'[cur][i][1] <= it[cur]
           /\ backup'[cur][i][1] <= Last[cur] /\ Parent[backup'[cur][i][1]] = cur
           /\ Extends(backup'[cur][i][2], entry[cur], cur + 1, backup'[cur][i][1] - 1)
    <2>1. CASE backup' = backup
      BY <2>1, <1>2 DEF Saved
    <2>2. CASE backup' = [backup EXCEPT ![cur] = Append(@, BackupEntry(cur, v))]
      <3>1. backup'[cur] = Append(backup[cur], <<v, program[cur]>>)
        BY <2>2, <1>1, <1>4 DEF TypeOK, BackupEntry
      <3> TAKE i \in 1..Len(backup'[cur])
      <3>2. backup[cur] \in Seq(Visitor \X Program)
        BY <1>1, <1>4 DEF TypeOK
      <3>3. CASE i = Len(backup[cur]) + 1
        <4>1. backup'[cur][i] = <<v, program[cur]>>
          BY <3>1, <3>2, <3>3
        <4> QED BY <4>1, <1>2, <1>5 DEF Consistent
      <3>4. CASE i # Len(backup[cur]) + 1
        <4>1. i \in 1..Len(backup[cur]) /\ backup'[cur][i] = backup[cur][i]
          BY <3>1, <3>2, <3>4, <1>5, <1>6
        <4> QED BY <4>1, <1>2 DEF Saved
      <3> QED BY <3>3, <3>4
    <2> QED BY <2>1, <2>2 DEF Invoke
  <1>12. \A i, j \in 1..Len(backup'[cur]) :
           i < j => backup'[cur][i][1] <= backup'[cur][j][1]
    <2>1. CASE backup' = backup
      BY <2>1, <1>2 DEF Saved
    <2>2. CASE backup' = [backup EXCEPT ![cur] = Append(@, BackupEntry(cur, v))]
      <3>1. backup'[cur] = Append(backup[cur], <<v, program[cur]>>)
        BY <2>2, <1>1, <1>4 DEF TypeOK, BackupEntry
      <3> SUFFICES ASSUME NEW i \in 1..Len(backup'[cur]),
                          NEW j \in 1..Len(backup'[cur]), i < j
                   PROVE  backup'[cur][i][1] <= backup'[cur][j][1]
        OBVIOUS
      <3>2. backup[cur] \in Seq(Visitor \X Program)
        BY <1>1, <1>4 DEF TypeOK
      <3>3. i \in 1..Len(backup[cur]) /\ backup'[cur][i] = backup[cur][i]
        BY <3>1, <3>2, <1>5, <1>6
      <3>4. CASE j = Len(backup[cur]) + 1
        <4>1. backup'[cur][j] = <<v, program[cur]>>
          BY <3>1, <3>2, <3>4
        <4> QED BY <4>1, <3>3, <1>2 DEF Saved
      <3>5. CASE j # Len(backup[cur]) + 1
        <4>1. j \in 1..Len(backup[cur]) /\ backup'[cur][j] = backup[cur][j]
          BY <3>1, <3>2, <3>5, <1>5, <1>6
        <4> QED BY <4>1, <3>3, <1>2 DEF Saved
      <3> QED BY <3>4, <3>5
    <2> QED BY <2>1, <2>2 DEF Invoke
  <1>13. EnclosingOK'
    <2> SUFFICES ASSUME NEW m \in Manager, Enclosing(m)'
                 PROVE  /\ Consistent(m)' /\ Saved(m)' /\ Entered(m)' /\ At(m)'
                        /\ (it[m] <= cur)' /\ (cur <= Last[it[m]])'
      BY DEF EnclosingOK
    <2>1. m \in Visitor
      BY ManagerFacts
    <2>2. CASE m = cur
      BY <2>2, <1>2, <1>3, <1>5, <1>11, <1>12, Numbers
         DEF Consistent, Saved, Entered, At
    <2>3. CASE m # cur
      <3>1. Enclosing(m)
        BY <2>1, <2>3, <1>3, <1>5, Ancestors DEF Enclosing
      <3>2. /\ Consistent(m) /\ Saved(m) /\ Entered(m) /\ At(m)
            /\ it[m] <= cur /\ cur <= Last[it[m]]
        BY <3>1, <1>1 DEF EnclosingOK
      <3>3. it[m] \in Visitor
        <4>1. it[m] \in 1..(N + 1) /\ it[m] <= Last[m]
          BY <2>1, <3>2, <1>1 DEF TypeOK, At
        <4> QED BY <4>1, <2>1, Numbers DEF Visitor
      <3>4. it[m] <= v /\ v <= Last[it[m]]
        <4>1. it[m] < v /\ v <= Last[it[m]]
          <5>1. \/ it[m] = Parent[v]
                \/ it[m] < Parent[v] /\ Parent[v] <= Last[it[m]]
            <6>1. it[m] \in Int
              BY <3>3, Numbers
            <6> QED BY <6>1, <3>2, <1>4, <1>5
          <5> HIDE DEF v
          <5> QED BY <5>1, <3>3, <1>5, Ancestors
        <4> QED BY <4>1, <3>3, <1>5, Numbers
      <3>5. backup'[m] = backup[m]
        BY <1>10, <2>1, <2>3
      <3> QED BY <3>2, <3>4, <3>5, <1>3 DEF Consistent, Saved, Entered, At
    <2> QED BY <2>2, <2>3
  <1>14. CurrentOK'
    BY <1>3, <1>5, <1>6 DEF CurrentOK
  <1> QED BY <1>8, <1>13, <1>14 DEF IInv

\* A manager has run out of passes.
LEMMA EndLoopStep ==
  ASSUME IInv, EndLoop
  PROVE  IInv'
  <1>1. TypeOK /\ pc = "loop" /\ pc' = "finish" /\ cur' = cur
        /\ it' = it /\ program' = program /\ entry' = entry /\ backup' = backup
    BY DEF IInv, EndLoop, frames
  <1>2. /\ cur \in Manager /\ Saved(cur) /\ Entered(cur) /\ Consistent(cur)
    BY <1>1 DEF IInv, CurrentOK
  <1>3. cur \in Visitor /\ cur \in Int /\ Last[cur] \in Int /\ it[cur] \in Int
    <2>1. cur \in Visitor /\ it[cur] \in 1..(N + 1)
      BY <1>1 DEF TypeOK
    <2> QED BY <2>1, Numbers
  <1>4. Extends(program[cur], entry[cur], cur + 1, Last[cur])
    <2>1. it[cur] - 1 <= Last[cur] /\ program[cur] \in Program
          /\ Extends(program[cur], entry[cur], cur + 1, it[cur] - 1)
      BY <1>2, <1>3 DEF Consistent
    <2>2. entry[cur] \in Program
      BY <1>1, <1>3 DEF TypeOK
    <2>3. cur + 1 \in Int /\ it[cur] - 1 \in Int /\ cur + 1 <= cur + 1
      BY <1>3
    <2>4. /\ program[cur] \in Program
          /\ Extends(program[cur], entry[cur], cur + 1, it[cur] - 1)
      BY <2>1
    <2>5. it[cur] - 1 <= Last[cur] /\ Last[cur] \in Int
      BY <2>1, <1>3
    <2> QED BY <2>2, <2>3, <2>4, <2>5, ExtendsWiden, ZenonT(30)
  <1>5. TypeOK'
    BY <1>1 DEF TypeOK, EndLoop, frames, Control
  <1>6. EnclosingOK'
    BY <1>1, Stay
  <1>7. CurrentOK'
    BY <1>1, <1>2, <1>4 DEF CurrentOK, Saved, Entered
  <1> QED BY <1>5, <1>6, <1>7 DEF IInv

\* A leaf pass returns a program, changed or not, or nullptr.
LEMMA LeafReturnsStep ==
  ASSUME IInv, LeafReturns
  PROVE  IInv'
  <1>1. TypeOK /\ pc = "apply" /\ cur \in Leaf
    BY DEF IInv, LeafReturns
  <1>2. cur \in Visitor /\ cur # 1 /\ Last[cur] = cur /\ cur \in Int
    BY <1>1, LeafFacts, Numbers
  <1>3. node \in Program /\ node = program[Parent[cur]]
    BY <1>1, <1>2 DEF IInv, CurrentOK
  <1>4. /\ node' \in Program \cup {Null}
        /\ node' # Null => Extends(node', program[Parent[cur]], cur, Last[cur])
    <2>1. CASE node' = node
      BY <2>1, <1>2, <1>3, ExtendsRefl
    <2>2. CASE node' = Append(node, cur)
      BY <2>2, <1>2, <1>3, ExtendsAppend
    <2>3. CASE node' = Null
      BY <2>3
    <2> QED BY <2>1, <2>2, <2>3 DEF LeafReturns
  <1>5. EnclosingOK' /\ CurrentOK' /\ pc' \in Control /\ cur' \in Visitor
    <2>1. Return(cur, node')
      BY <1>2 DEF LeafReturns, Return
    <2> QED BY <2>1, <1>2, <1>4, ReturnStep DEF LeafReturns
  <1>6. errors' \in Nat
    <2>1. errors \in Nat BY <1>1 DEF TypeOK
    <2>2. errors' \in {errors, errors + 1} BY DEF LeafReturns, ReportErrors
    <2> QED BY <2>1, <2>2
  <1>7. early' \in [Visitor -> BOOLEAN]
    <2>1. PICK exit \in BOOLEAN :
            early' = [early EXCEPT ![Parent[cur]] = @ \/ exit]
      BY DEF LeafReturns
    <2>2. early[Parent[cur]] \in BOOLEAN /\ (early[Parent[cur]] \/ exit) \in BOOLEAN
      BY <1>1, <1>2, Numbers DEF TypeOK
    <2> QED BY <2>1, <2>2, <1>1 DEF TypeOK
  <1>8. TypeOK'
    BY <1>1, <1>4, <1>5, <1>6, <1>7 DEF TypeOK, LeafReturns
  <1> QED BY <1>5, <1>8 DEF IInv

\* A leaf pass throws; the manager that runs it enters its catch clause.
LEMMA LeafThrowsStep ==
  ASSUME IInv, LeafThrows
  PROVE  IInv'
  <1>1. /\ TypeOK /\ cur \in Leaf /\ pc' = "catch" /\ cur' = Parent[cur]
        /\ thrower' = cur /\ node' = node
        /\ it' = it /\ program' = program /\ entry' = entry /\ backup' = backup
    BY DEF IInv, LeafThrows, frames
  <1>2. cur \in Visitor /\ cur # 1 /\ cur \in Int
    BY <1>1, LeafFacts, Numbers
  <1>3. /\ EnclosingOK' /\ (cur \in Manager)'
        /\ Consistent(cur)' /\ Saved(cur)' /\ Entered(cur)' /\ At(cur)'
    BY <1>1, <1>2, Up
  <1>4. it'[cur'] <= thrower'
    BY <1>1, <1>2, ParentAt
  <1>5. errors' \in Nat
    BY <1>1 DEF TypeOK, LeafThrows, ReportErrors
  <1>6. TypeOK'
    BY <1>1, <1>2, <1>5, Numbers DEF TypeOK, LeafThrows, frames, Control
  <1>7. CurrentOK'
    BY <1>1, <1>3, <1>4 DEF CurrentOK
  <1> QED BY <1>3, <1>6, <1>7 DEF IInv

\* A manager with no backup left passes the trigger on.
LEMMA RethrowStep ==
  ASSUME IInv, Rethrow
  PROVE  IInv'
  <1>1. /\ TypeOK /\ pc = "catch" /\ node' = node /\ thrower' = thrower
        /\ it' = it /\ program' = program /\ entry' = entry /\ backup' = backup
    BY DEF IInv, Rethrow, frames
  <1>2. cur \in Visitor /\ Consistent(cur) /\ it[cur] <= thrower
    BY <1>1 DEF IInv, CurrentOK, TypeOK
  <1>3. CASE cur = 1
    <2>1. pc' = "aborted" /\ cur' = 1
      BY <1>3 DEF Rethrow
    <2>2. EnclosingOK'
      BY <2>1, ManagerFacts, Numbers DEF EnclosingOK, Enclosing
    <2>3. TypeOK'
      BY <1>1, <2>1, Numbers DEF TypeOK, Rethrow, frames, Control
    <2> QED BY <2>1, <2>2, <2>3 DEF IInv, CurrentOK
  <1>4. CASE cur # 1
    <2>1. pc' = "catch" /\ cur' = Parent[cur]
      BY <1>4 DEF Rethrow
    <2>2. /\ EnclosingOK' /\ (cur \in Manager)'
          /\ Consistent(cur)' /\ Saved(cur)' /\ Entered(cur)' /\ At(cur)'
      BY <1>1, <1>4, <2>1, Up
    <2>3. it'[cur'] <= thrower'
      <3>1. it'[cur'] = cur
        BY <1>1, <1>4, <2>1, ParentAt
      <3>2. cur < it[cur] /\ it[cur] \in 1..(N + 1) /\ thrower \in Int /\ cur \in Int
        BY <1>1, <1>2, Numbers DEF TypeOK, Consistent
      <3> QED BY <3>1, <3>2, <1>1, <1>2
    <2>4. TypeOK'
      BY <1>1, <1>2, <2>1, Numbers DEF TypeOK, Rethrow, frames, Control
    <2> QED BY <2>1, <2>2, <2>3, <2>4 DEF IInv, CurrentOK
  <1> QED BY <1>3, <1>4

\* A manager takes a pass's result and moves on, or stops.
LEMMA ReturnedStep ==
  ASSUME IInv, Returned
  PROVE  IInv'
  <1> DEFINE v == it[cur]
  <1>1. TypeOK /\ pc = "returned" /\ cur' = cur /\ node' = node
        /\ entry' = entry /\ backup' = backup
        /\ program' = [program EXCEPT ![cur] = node]
    BY DEF IInv, Returned
  <1>2. /\ cur \in Manager /\ Saved(cur) /\ Entered(cur) /\ Consistent(cur)
        /\ At(cur) /\ (node = Null \/ Extends(node, program[cur], v, Last[v]))
    BY <1>1 DEF IInv, CurrentOK
  <1>3. cur \in Visitor /\ cur \in Int /\ Last[cur] \in Int /\ Last[cur] <= N
    BY <1>1, Numbers DEF TypeOK
  <1>4. /\ v \in Visitor /\ v # 1 /\ Parent[v] = cur /\ v \in Int /\ cur < v
        /\ v <= Last[cur]
    <2>1. v \in 1..(N + 1) /\ cur < v /\ v <= Last[cur]
      BY <1>1, <1>2, <1>3 DEF TypeOK, Consistent, At
    <2> QED BY <2>1, <1>2, <1>3, Numbers DEF At, Visitor
  <1>5. /\ Last[v] \in Int /\ v <= Last[v] /\ Last[v] <= Last[cur]
        /\ Last[v] + 1 <= Last[cur] => Parent[Last[v] + 1] = cur
    <2>1. Last[v] \in Int /\ v <= Last[v]
      BY <1>4, Numbers
    <2> QED BY <2>1, <1>3, <1>4, NextPass
  <1>6. program'[cur] = node /\ node \in Program \cup {Null}
    BY <1>1, <1>3 DEF TypeOK
  <1>7. node # Null => Extends(node, entry[cur], cur + 1, Last[v])
    <2>1. program[cur] \in Program /\ Extends(program[cur], entry[cur], cur + 1, v - 1)
      BY <1>2 DEF Consistent
    <2>2. entry[cur] \in Program
      BY <1>1, <1>3 DEF TypeOK
    <2>3. cur + 1 \in Int /\ v - 1 \in Int /\ cur + 1 <= v /\ v - 1 <= Last[v]
      BY <1>3, <1>4, <1>5
    <2> HIDE DEF v
    <2> QED BY <2>1, <2>2, <2>3, <1>2, <1>4, <1>5, <1>6, ExtendsTrans
  <1>8. Entered(cur)' /\ \A m \in Visitor \ {cur} : program'[m] = program[m]
    <2>1. \A m \in Visitor \ {cur} : program'[m] = program[m]
      BY <1>1 DEF TypeOK
    <2>2. cur # 1 => Parent[cur] \in Visitor /\ Parent[cur] # cur
      BY <1>3, NextPass, Numbers
    <2> QED BY <2>1, <2>2, <1>1, <1>2 DEF Entered
  <1>9. program' \in [Visitor -> Program \cup {Null}]
    BY <1>1, <1>6 DEF TypeOK
  <1>10. early' \in [Visitor -> BOOLEAN]
    <2>1. MustStop(cur) \in BOOLEAN
      <3>1. early[cur] \in BOOLEAN
        BY <1>1, <1>3 DEF TypeOK
      <3>2. \A x : (StopOnError[cur] /\ x) \in BOOLEAN
        OBVIOUS
      <3> QED BY <3>1, <3>2 DEF MustStop
    <2> QED BY <2>1, <1>1 DEF TypeOK, Returned
  <1>11. CASE MustStop(cur)
    <2>1. pc' = "finish" /\ it' = it
      BY <1>11 DEF Returned
    <2>2. TypeOK'
      BY <2>1, <1>1, <1>9, <1>10 DEF TypeOK, Returned, Control
    <2>3. EnclosingOK'
      BY <2>1, <1>1, <1>8, Stay
    <2>4. program'[cur] = Null \/ Extends(program'[cur], entry[cur], cur + 1, Last[cur])
      <3>1. entry[cur] \in Program
        BY <1>1, <1>3 DEF TypeOK
      <3> HIDE DEF v
      <3> QED BY <3>1, <1>3, <1>5, <1>6, <1>7, ExtendsWiden
    <2>5. Saved(cur)'
      BY <2>1, <1>1, <1>2 DEF Saved
    <2> QED BY <2>1, <2>2, <2>3, <2>4, <2>5, <1>1, <1>2, <1>8 DEF IInv, CurrentOK
  <1>12. CASE ~ MustStop(cur)
    <2>1. pc' = "loop" /\ it' = [it EXCEPT ![cur] = Last[@] + 1] /\ node \in Program
      BY <1>12, <1>6 DEF Returned, MustStop
    <2>2. it'[cur] = Last[v] + 1 /\ \A m \in Visitor \ {cur} : it'[m] = it[m]
      BY <2>1, <1>1, <1>3 DEF TypeOK
    <2>3. Last[v] + 1 \in 1..(N + 1)
      BY <1>3, <1>4, <1>5, Numbers
    <2>4. TypeOK'
      <3>1. it' \in [Visitor -> 1..(N + 1)]
        BY <2>1, <2>3, <1>1 DEF TypeOK
      <3> QED BY <2>1, <3>1, <1>1, <1>9, <1>10 DEF TypeOK, Returned, Control
    <2>5. EnclosingOK'
      BY <2>2, <1>1, <1>8, Stay
    <2>6. Consistent(cur)'
      <3>1. node # Null
        BY <2>1, ConstantAssumption
      <3>2. Extends(node, entry[cur], cur + 1, (Last[v] + 1) - 1)
        <4>1. (Last[v] + 1) - 1 = Last[v]
          BY <1>5
        <4> QED BY <4>1, <3>1, <1>7
      <3>3. cur < Last[v] + 1 /\ Last[v] + 1 <= Last[cur] + 1
        BY <1>3, <1>4, <1>5
      <3> QED BY <3>2, <3>3, <2>1, <2>2, <1>1, <1>6 DEF Consistent
    <2>7. Saved(cur)'
      <3>1. it[cur] <= it'[cur] /\ it[cur] \in Int /\ it'[cur] \in Int
        BY <2>2, <1>4, <1>5
      <3>2. \A i \in 1..Len(backup[cur]) : backup[cur][i][1] \in Int
        <4>1. backup[cur] \in Seq(Visitor \X Program)
          BY <1>1, <1>3 DEF TypeOK
        <4>2. \A i \in 1..Len(backup[cur]) : backup[cur][i] \in Visitor \X Program
          BY <4>1
        <4> QED BY <4>2, Numbers
      <3>3. \A i \in 1..Len(backup[cur]) : backup[cur][i][1] <= it'[cur]
        BY <3>1, <3>2, <1>2 DEF Saved
      <3> QED BY <3>3, <1>1, <1>2 DEF Saved
    <2>8. (it[cur] <= Last[cur])' => At(cur)'
      BY <2>2, <1>1, <1>5 DEF At
    <2> QED BY <2>1, <2>4, <2>5, <2>6, <2>7, <2>8, <1>1, <1>2, <1>6, <1>8
            DEF IInv, CurrentOK
  <1> QED BY <1>11, <1>12

\* The catch clause drops an entry of the pass at `it`.
LEMMA PopOwnStep ==
  ASSUME IInv, PopOwn
  PROVE  IInv'
  <1> DEFINE b == backup[cur]
             c == SubSeq(b, 1, Len(b) - 1)
  <1>1. /\ TypeOK /\ pc = "catch" /\ pc' = pc /\ cur' = cur /\ node' = node
        /\ it' = it /\ program' = program /\ entry' = entry /\ b # << >>
        /\ backup' = [backup EXCEPT ![cur] = c] /\ thrower' = thrower
    BY DEF IInv, PopOwn, control
  <1>2. /\ cur \in Manager /\ Saved(cur) /\ Entered(cur) /\ Consistent(cur)
        /\ At(cur) /\ it[cur] <= thrower
    BY <1>1 DEF IInv, CurrentOK
  <1>3. cur \in Visitor /\ b \in Seq(Visitor \X Program)
    BY <1>1 DEF TypeOK
  <1>4. /\ c \in Seq(Visitor \X Program) /\ Len(c) = Len(b) - 1
        /\ \A i \in 1..Len(c) : i \in 1..Len(b) /\ c[i] = b[i]
    BY <1>1, <1>3
  <1>5. backup'[cur] = c /\ \A m \in Visitor \ {cur} : backup'[m] = backup[m]
    BY <1>1, <1>3 DEF TypeOK
  <1>6. backup' \in [Visitor -> Seq(Visitor \X Program)]
    <2> HIDE DEF c
    <2> QED BY <1>1, <1>4 DEF TypeOK
  <1>7. TypeOK'
    BY <1>1, <1>6 DEF TypeOK, PopOwn
  <1>8. EnclosingOK'
    BY <1>1, <1>5, Stay
  <1>9. Saved(cur)'
    <2> HIDE DEF c
    <2>1. \A i \in 1..Len(c) :
            /\ cur < c[i][1] /\ c[i][1] <= it[cur]
            /\ c[i][1] <= Last[cur] /\ Parent[c[i][1]] = cur
            /\ Extends(c[i][2], entry[cur], cur + 1, c[i][1] - 1)
      BY <1>2, <1>4 DEF Saved
    <2>2. \A i, j \in 1..Len(c) : i < j => c[i][1] <= c[j][1]
      BY <1>2, <1>4 DEF Saved
    <2> QED BY <2>1, <2>2, <1>1, <1>5 DEF Saved
  <1>10. CurrentOK'
    BY <1>1, <1>2, <1>9 DEF CurrentOK, Consistent, Entered, At
  <1> QED BY <1>7, <1>8, <1>10 DEF IInv

\* The top of the stack, in the catch clause: an earlier pass of cur.
LEMMA TopFacts ==
  ASSUME IInv, Restore
  PROVE  /\ cur \in Manager /\ cur \in Visitor
         /\ Top(cur)[1] \in Visitor /\ Top(cur)[1] # 1 /\ Top(cur)[2] \in Program
         /\ cur < Top(cur)[1] /\ Top(cur)[1] < it[cur]
         /\ Top(cur)[1] <= Last[cur] /\ Parent[Top(cur)[1]] = cur
         /\ Extends(Top(cur)[2], entry[cur], cur + 1, Top(cur)[1] - 1)
         /\ \A i \in 1..Len(backup[cur]) : backup[cur][i][1] <= Top(cur)[1]
  <1> DEFINE b == backup[cur]
             n == Len(b)
  <1>1. TypeOK /\ pc = "catch" /\ b # << >> /\ Top(cur)[1] # it[cur]
    BY DEF IInv, Restore, OwnEntry
  <1>2. cur \in Manager /\ Saved(cur)
    BY <1>1 DEF IInv, CurrentOK
  <1>3. cur \in Visitor /\ b \in Seq(Visitor \X Program) /\ it[cur] \in 1..(N + 1)
    BY <1>1 DEF TypeOK
  <1>4. n \in 1..n /\ b[n] \in Visitor \X Program /\ Top(cur) = b[n]
    BY <1>1, <1>3 DEF Top
  <1>5. Top(cur)[1] \in Visitor /\ Top(cur)[2] \in Program
    BY <1>4
  <1>6. /\ cur < Top(cur)[1] /\ Top(cur)[1] <= it[cur]
        /\ Top(cur)[1] <= Last[cur] /\ Parent[Top(cur)[1]] = cur
        /\ Extends(Top(cur)[2], entry[cur], cur + 1, Top(cur)[1] - 1)
    BY <1>2, <1>4 DEF Saved
  <1>7. Top(cur)[1] # 1 /\ Top(cur)[1] < it[cur]
    BY <1>1, <1>3, <1>5, <1>6, Numbers
  <1>8. \A i \in 1..n : b[i][1] <= Top(cur)[1]
    <2> TAKE i \in 1..n
    <2>1. CASE i = n
      <3>1. b[i] = Top(cur) /\ Top(cur)[1] \in Int
        BY <2>1, <1>4, <1>5, Numbers
      <3> QED BY <3>1
    <2>2. CASE i # n
      <3>1. n \in Nat /\ i < n
        BY <2>2, <1>3
      <3> QED BY <3>1, <1>2, <1>4 DEF Saved
    <2> QED BY <2>1, <2>2
  <1> QED BY <1>2, <1>3, <1>5, <1>6, <1>7, <1>8

\* Going back to an entry of the stack, whether its pass accepts or not.
LEMMA RestoreStep ==
  ASSUME IInv, Restore, cur' = cur, entry' = entry, backup' = backup
  PROVE  /\ EnclosingOK' /\ Saved(cur)' /\ Entered(cur)'
         /\ Consistent(cur)' /\ At(cur)'
         /\ it' \in [Visitor -> 1..(N + 1)]
         /\ program' \in [Visitor -> Program \cup {Null}]
         /\ it'[cur] = Top(cur)[1] /\ program'[cur] = RestoredProgram(cur)
  <1> DEFINE t == Top(cur)
  <1>1. TypeOK /\ pc = "catch" /\ it' = [it EXCEPT ![cur] = t[1]]
        /\ program' = [program EXCEPT ![cur] = t[2]]
    BY DEF IInv, Restore, RestoredProgram
  <1>2. /\ cur \in Manager /\ cur \in Visitor
        /\ t[1] \in Visitor /\ t[1] # 1 /\ t[2] \in Program
        /\ cur < t[1] /\ t[1] < it[cur]
        /\ t[1] <= Last[cur] /\ Parent[t[1]] = cur
        /\ Extends(t[2], entry[cur], cur + 1, t[1] - 1)
        /\ \A i \in 1..Len(backup[cur]) : backup[cur][i][1] <= t[1]
    BY TopFacts
  <1> HIDE DEF t
  <1>3. /\ it'[cur] = t[1] /\ program'[cur] = t[2]
        /\ \A m \in Visitor \ {cur} :
             it'[m] = it[m] /\ program'[m] = program[m]
    BY <1>1, <1>2 DEF TypeOK
  <1>4. EnclosingOK'
    BY <1>3, Stay
  <1>5. Saved(cur) /\ Entered(cur)
    BY <1>1 DEF IInv, CurrentOK
  <1>6. Saved(cur)'
    BY <1>2, <1>3, <1>5 DEF Saved
  <1>7. Entered(cur)'
    <2>1. cur # 1 => Parent[cur] \in Visitor /\ Parent[cur] # cur
      BY <1>2, NextPass, Numbers
    <2> QED BY <2>1, <1>3, <1>5 DEF Entered
  <1>8. Consistent(cur)' /\ At(cur)'
    <2>0. t[1] \in Int /\ Last[cur] \in Int
      BY <1>2, Numbers
    <2>1. t[1] <= Last[cur] + 1
      BY <2>0, <1>2
    <2> QED BY <2>1, <1>2, <1>3 DEF Consistent, At
  <1>9. it' \in [Visitor -> 1..(N + 1)]
    <2>1. t[1] \in 1..(N + 1)
      BY <1>2, Numbers
    <2> QED BY <2>1, <1>1 DEF TypeOK
  <1>10. program' \in [Visitor -> Program \cup {Null}]
    BY <1>1, <1>2 DEF TypeOK
  <1> QED BY <1>3, <1>4, <1>6, <1>7, <1>8, <1>9, <1>10 DEF t, RestoredProgram

\* The pass on top of the stack accepts: the manager resumes there.
LEMMA AcceptStep ==
  ASSUME IInv, Accept
  PROVE  IInv'
  <1>1. /\ TypeOK /\ Restore /\ cur' = cur /\ entry' = entry /\ backup' = backup
        /\ pc' = "loop" /\ node' = RestoredProgram(cur)
    BY DEF IInv, Accept
  <1>2. /\ EnclosingOK' /\ Saved(cur)' /\ Entered(cur)'
        /\ Consistent(cur)' /\ At(cur)'
        /\ it' \in [Visitor -> 1..(N + 1)]
        /\ program' \in [Visitor -> Program \cup {Null}]
        /\ program'[cur] = RestoredProgram(cur)
    BY <1>1, RestoreStep
  <1>3. cur \in Manager /\ RestoredProgram(cur) \in Program
    BY <1>1, TopFacts DEF RestoredProgram
  <1>4. tries' \in [Visitor -> 0..MaxTries]
    <2>1. PICK u \in Visitor : /\ FirstAccepting(Top(cur)[1], u)
                               /\ tries' = [tries EXCEPT ![u] = @ - 1]
      BY DEF Accept
    <2>2. tries[u] - 1 \in 0..MaxTries
      <3>1. tries[u] \in 0..MaxTries /\ tries[u] > 0
        BY <1>1, <2>1 DEF TypeOK, FirstAccepting, Accepts
      <3> QED BY <3>1, ConstantAssumption
    <2> QED BY <2>1, <2>2, <1>1 DEF TypeOK
  <1>5. TypeOK'
    BY <1>1, <1>2, <1>3, <1>4 DEF TypeOK, Accept, Control
  <1>6. CurrentOK'
    BY <1>1, <1>2, <1>3 DEF CurrentOK
  <1> QED BY <1>2, <1>5, <1>6 DEF IInv

\* The pass on top of the stack refuses: the catch clause goes on.
LEMMA RefuseStep ==
  ASSUME IInv, Refuse
  PROVE  IInv'
  <1>1. /\ TypeOK /\ Restore /\ cur' = cur /\ entry' = entry /\ backup' = backup
        /\ pc = "catch" /\ pc' = pc /\ node' = node /\ thrower' = thrower
    BY DEF IInv, Refuse, Restore, control
  <1>2. /\ EnclosingOK' /\ Saved(cur)' /\ Entered(cur)'
        /\ Consistent(cur)' /\ At(cur)'
        /\ it' \in [Visitor -> 1..(N + 1)]
        /\ program' \in [Visitor -> Program \cup {Null}]
        /\ it'[cur] = Top(cur)[1]
    BY <1>1, RestoreStep
  <1>3. cur \in Manager /\ it'[cur] <= thrower
    <2>1. it[cur] <= thrower /\ it[cur] \in 1..(N + 1) /\ thrower \in Visitor
      BY <1>1 DEF IInv, CurrentOK, TypeOK
    <2>2. /\ cur \in Manager /\ cur \in Visitor /\ Top(cur)[1] \in Visitor
          /\ Top(cur)[1] < it[cur]
      BY <1>1, TopFacts
    <2>3. Top(cur)[1] \in Int /\ thrower \in Int
      BY <2>1, <2>2, Numbers
    <2> QED BY <2>1, <2>2, <2>3, <1>2
  <1>4. TypeOK'
    BY <1>1, <1>2 DEF TypeOK, Refuse
  <1>5. CurrentOK'
    BY <1>1, <1>2, <1>3 DEF CurrentOK
  <1> QED BY <1>2, <1>4, <1>5 DEF IInv

\* What a manager hands back extends what its parent gave it.
LEMMA ResultExtends ==
  ASSUME IInv, pc = "finish"
  PROVE  /\ cur \in Manager /\ cur \in Visitor /\ entry[cur] \in Program
         /\ program[cur] \in Program \cup {Null}
         /\ cur # 1 => Extends(entry[cur], program[Parent[cur]], cur, Last[cur])
         /\ program[cur] # Null /\ cur # 1 =>
              Extends(program[cur], program[Parent[cur]], cur, Last[cur])
  <1>1. /\ TypeOK /\ cur \in Manager /\ Entered(cur)
        /\ program[cur] = Null \/ Extends(program[cur], entry[cur], cur + 1, Last[cur])
    BY DEF IInv, CurrentOK
  <1>2. /\ cur \in Visitor /\ entry[cur] \in Program
        /\ program[cur] \in Program \cup {Null}
    BY <1>1 DEF TypeOK
  <1>3. cur \in Int /\ Last[cur] \in Int /\ cur + 1 \in Int /\ cur <= cur + 1
    BY <1>2, Numbers
  <1>4. ASSUME cur # 1, program[cur] # Null
        PROVE  Extends(program[cur], program[Parent[cur]], cur, Last[cur])
    <2>1. program[Parent[cur]] \in Program
      BY <1>4, ParentAt DEF Consistent
    <2>2. Extends(entry[cur], program[Parent[cur]], cur, Last[cur])
      BY <1>1, <1>4 DEF Entered
    <2>3. Extends(program[cur], entry[cur], cur + 1, Last[cur])
      BY <1>1, <1>4
    <2>4. program[cur] \in Program /\ entry[cur] \in Program
      BY <1>2, <1>4
    <2>5. /\ cur \in Int /\ Last[cur] \in Int /\ cur + 1 \in Int
          /\ cur <= cur + 1 /\ Last[cur] <= Last[cur]
      BY <1>3
    <2> QED BY <2>1, <2>2, <2>3, <2>4, <2>5, ExtendsTrans, ZenonT(30)
  <1> QED BY <1>1, <1>2, <1>4 DEF Entered

\* Counting walks keeps natural numbers.
LEMMA CountNat ==
  ASSUME TypeOK, NEW m \in Visitor, Count(m)
  PROVE  iterations' \in [Visitor -> Nat]
  <1>1. iterations \in [Visitor -> Nat]
    BY DEF TypeOK
  <1>2. iterations[m] \in Nat
    BY <1>1
  <1>3. iterations[m] + 1 \in Nat
    BY <1>2
  <1> QED BY <1>1, <1>2, <1>3 DEF Count

\* A manager, or a PassRepeated that failed or converged, returns.
LEMMA FinishStep ==
  ASSUME IInv, FinishManager \/ RepeatFailed \/ RepeatDone
  PROVE  IInv'
  <1>1. /\ TypeOK /\ pc = "finish" /\ Return(cur, node')
        /\ node' = program[cur] \/ node' = entry[cur]
        /\ it' = it /\ program' = program /\ entry' = entry /\ backup' = backup
        /\ initial' = initial /\ early' = early /\ rinitial' = rinitial
        /\ errors' = errors /\ tries' = tries /\ trig' = trig /\ thrower' = thrower
        /\ running' = [running EXCEPT ![cur] = FALSE]
    BY DEF IInv, FinishManager, RepeatFailed, RepeatDone, Return, ClearRunning
  <1>2. /\ cur \in Visitor /\ node' \in Program \cup {Null}
        /\ node' # Null /\ cur # 1 =>
             Extends(node', program[Parent[cur]], cur, Last[cur])
    BY <1>1, ResultExtends
  <1>3. EnclosingOK' /\ CurrentOK' /\ pc' \in Control /\ cur' \in Visitor
    BY <1>1, <1>2, ReturnStep
  <1>4. iterations' \in [Visitor -> Nat]
    <2>1. CASE iterations' = iterations
      BY <2>1, <1>1 DEF TypeOK
    <2>2. CASE Count(cur)
      BY <2>2, <1>1, <1>2, CountNat
    <2> QED BY <2>1, <2>2 DEF FinishManager, RepeatFailed, RepeatDone
  <1>5. TypeOK'
    BY <1>1, <1>2, <1>3, <1>4 DEF TypeOK
  <1> QED BY <1>3, <1>5 DEF IInv

\* A PassRepeated begins another walk with what the last one produced.
LEMMA RepeatAgainStep ==
  ASSUME IInv, RepeatAgain
  PROVE  IInv'
  <1>1. /\ TypeOK /\ pc = "finish" /\ Begin(cur, program[cur])
        /\ program[cur] # Null /\ rinitial' = rinitial
        /\ errors' = errors /\ tries' = tries /\ trig' = trig /\ thrower' = thrower
        /\ running' = [running EXCEPT ![cur] = TRUE]
        /\ Count(cur)
    BY DEF IInv, RepeatAgain, Converged, Remark, MarkRunning
  <1>2. /\ cur \in Manager /\ cur \in Visitor /\ program[cur] \in Program
        /\ cur # 1 => Extends(program[cur], program[Parent[cur]], cur, Last[cur])
    BY <1>1, ResultExtends
  <1>3. iterations' \in [Visitor -> Nat]
    BY <1>1, <1>2, CountNat
  <1>4. TypeOK'
    BY <1>1, <1>2, <1>3, BeginStep DEF TypeOK
  <1> QED BY <1>1, <1>2, <1>4, BeginStep DEF IInv

\* A step that changes nothing, or a run that has ended.
LEMMA UnchangedStep ==
  ASSUME IInv, UNCHANGED vars
  PROVE  IInv'
  <1>1. /\ pc' = pc /\ cur' = cur /\ node' = node /\ it' = it
        /\ program' = program /\ entry' = entry /\ backup' = backup
        /\ initial' = initial /\ early' = early /\ running' = running
        /\ iterations' = iterations /\ rinitial' = rinitial
        /\ errors' = errors /\ tries' = tries /\ trig' = trig /\ thrower' = thrower
    BY DEF vars, control, frames
  <1>2. TypeOK'
    BY <1>1 DEF IInv, TypeOK
  <1>3. EnclosingOK'
    BY <1>1, Stay
  <1>4. CurrentOK'
    BY <1>1 DEF IInv, CurrentOK, Saved, Entered, Consistent, At
  <1> QED BY <1>2, <1>3, <1>4 DEF IInv

\* IInv is inductive.
LEMMA NextIInv ==
  ASSUME IInv, [Next]_vars
  PROVE  IInv'
  <1>1. CASE Next
    BY <1>1, ApplyManagerStep, SkipIfStep, InvokeStep, EndLoopStep,
       LeafReturnsStep, LeafThrowsStep, ReturnedStep, PopOwnStep, AcceptStep,
       RefuseStep, RethrowStep, FinishStep, RepeatAgainStep, UnchangedStep
       DEF Next, Terminated
  <1>2. CASE UNCHANGED vars
    BY <1>2, UnchangedStep
  <1> QED BY <1>1, <1>2

-----------------------------------------------------------------------------
(***************************************************************************)
(* The inductive invariant holds of every run, for every tree.             *)
(***************************************************************************)
THEOREM Inductive == Spec => []IInv
  <1>1. Init => IInv
    BY InitIInv
  <1>2. IInv /\ [Next]_vars => IInv'
    BY NextIInv
  <1> QED BY <1>1, <1>2, PTL DEF Spec

(***************************************************************************)
(* Type correctness; in particular a loop never steps beyond its manager's *)
(* passes and nullptr is never saved as a backup or begun a walk with.     *)
(***************************************************************************)
THEOREM TypeCorrect == Spec => []TypeOK
  <1>1. IInv => TypeOK
    BY DEF IInv
  <1> QED BY <1>1, Inductive, PTL

(***************************************************************************)
(* Whatever was thrown, refused and restored: the program a manager holds  *)
(* carries changes of its earlier passes only.                             *)
(***************************************************************************)
THEOREM EarlierPassesOnly == Spec => []ChangedOnlyByEarlierPasses
  <1>1. IInv => ChangedOnlyByEarlierPasses
    <2> SUFFICES ASSUME IInv, NEW m \in Manager, Walking(m),
                        ~ (m = cur /\ pc = "finish")
                 PROVE  Extends(program[m], entry[m], m + 1, it[m] - 1)
      BY DEF ChangedOnlyByEarlierPasses
    <2>1. CASE m = cur
      <3>0. cur \in Int
        BY Numbers DEF IInv, TypeOK
      <3>1. pc \in {"loop", "returned", "catch"}
        BY <2>1, <3>0 DEF Walking, IInv, TypeOK, Control
      <3> QED BY <2>1, <3>1 DEF IInv, CurrentOK, Consistent
    <2>2. CASE m # cur
      BY <2>2 DEF Walking, Enclosing, IInv, EnclosingOK, Consistent
    <2> QED BY <2>1, <2>2
  <1> QED BY <1>1, Inductive, PTL

(***************************************************************************)
(* Every program on a backup stack is safe to go back to, and the stacks   *)
(* are in pass order.                                                      *)
(***************************************************************************)
THEOREM BackupsAreRestorable == Spec => []BackupsRestorable
  <1>1. IInv => BackupsRestorable
    <2> SUFFICES ASSUME IInv, NEW m \in Manager, Walking(m)
                 PROVE  Saved(m)
      BY DEF BackupsRestorable, Saved
    <2>1. CASE m = cur
      <3>1. cur \in Int
        BY Numbers DEF IInv, TypeOK
      <3> QED BY <2>1, <3>1 DEF Walking, IInv, CurrentOK
    <2>2. CASE m # cur
      BY <2>2 DEF Walking, Enclosing, IInv, EnclosingOK
    <2> QED BY <2>1, <2>2
  <1> QED BY <1>1, Inductive, PTL

\* No pass is applied to nullptr.
THEOREM NullIsNeverApplied == Spec => []NullNeverApplied
  <1>1. IInv => NullNeverApplied
    BY ConstantAssumption DEF IInv, CurrentOK, Consistent, NullNeverApplied
  <1> QED BY <1>1, Inductive, PTL

(***************************************************************************)
(* After an error, a manager that stops on errors only runs a pass it has  *)
(* just gone back to.                                                      *)
(***************************************************************************)
THEOREM RetriesOnly == Spec => []OnlyRetriesAfterErrors
  <1>1. Init => OnlyRetriesAfterErrors
    BY DEF Init, OnlyRetriesAfterErrors
  <1>2. ASSUME IInv, OnlyRetriesAfterErrors, [Next]_vars
        PROVE  OnlyRetriesAfterErrors'
    <2> USE DEF OnlyRetriesAfterErrors, Top
    <2>1. TypeOK
      BY <1>2 DEF IInv
    <2>2. ASSUME cur \in Visitor, NEW p, Begin(cur, p), errors' = errors
          PROVE  OnlyRetriesAfterErrors'
      <3>1. cur' = cur /\ initial'[cur] = errors /\ errors \in Nat
        BY <2>1, <2>2 DEF TypeOK, Begin
      <3> QED BY <3>1, <2>2
    <2>3. CASE ApplyManager \/ ApplyRepeated \/ RepeatAgain
      <3>1. cur \in Visitor
        BY <2>1 DEF TypeOK
      <3> QED BY <2>2, <2>3, <3>1 DEF ApplyManager, ApplyRepeated, RepeatAgain
    <2>4. CASE Returned
      BY <2>4 DEF Returned, MustStop
    <2>5. CASE Accept
      <3>1. cur \in Visitor /\ it'[cur] = Top(cur)[1]
        BY <1>2, <2>5, RestoreStep, TopFacts DEF Accept
      <3>2. backup' = backup /\ cur' = cur /\ backup[cur] # << >>
        BY <2>5 DEF Accept, Restore
      <3> QED BY <3>1, <3>2
    <2>6. CASE SkipIf \/ FinishManager \/ RepeatFailed \/ RepeatDone
      BY <2>6 DEF SkipIf, FinishManager, RepeatFailed, RepeatDone, Return
    <2>7. CASE Invoke \/ EndLoop \/ LeafReturns \/ LeafThrows
      BY <2>7 DEF Invoke, EndLoop, LeafReturns, LeafThrows
    <2>8. CASE PopOwn \/ Refuse \/ Rethrow
      BY <2>8 DEF PopOwn, Refuse, Restore, Rethrow, control
    <2>9. CASE UNCHANGED vars
      BY <1>2, <2>9 DEF vars, control, frames
    <2> QED BY <1>2, <2>3, <2>4, <2>5, <2>6, <2>7, <2>8, <2>9 DEF Next, Terminated
  <1> QED BY <1>1, <1>2, Inductive, PTL DEF Spec

(***************************************************************************)
(* Triggers travel backwards: the pass that accepts one comes before the   *)
(* pass that threw it, at every depth of the tree.                         *)
(***************************************************************************)
THEOREM TriggersTravelBackwards == Spec => HandledByAnEarlierPass
  <1>1. ASSUME IInv, [Next]_vars
        PROVE  [\A u \in Visitor : tries'[u] # tries[u] => u < thrower]_vars
    <2>1. CASE Accept
      <3> SUFFICES ASSUME NEW u \in Visitor, tries'[u] # tries[u]
                   PROVE  u < thrower
        OBVIOUS
      <3>1. PICK w \in Visitor : /\ FirstAccepting(Top(cur)[1], w)
                                 /\ tries' = [tries EXCEPT ![w] = @ - 1]
        BY <2>1 DEF Accept
      <3>2. u = w
        BY <3>1, <1>1 DEF IInv, TypeOK
      <3>3. /\ pc = "catch" /\ cur \in Visitor /\ it[cur] <= thrower /\ At(cur)
            /\ it[cur] \in 1..(N + 1) /\ thrower \in Visitor /\ Consistent(cur)
        BY <1>1, <2>1 DEF Accept, Restore, IInv, CurrentOK, TypeOK
      <3>4. /\ Top(cur)[1] \in Visitor /\ Top(cur)[1] # 1 /\ Top(cur)[1] < it[cur]
            /\ Parent[Top(cur)[1]] = cur
        BY <1>1, <2>1, TopFacts DEF Accept
      <3>5. it[cur] \in Visitor /\ it[cur] # 1 /\ Parent[it[cur]] = cur
        <4>1. cur < it[cur] /\ it[cur] <= Last[cur] /\ Parent[it[cur]] = cur
          BY <3>3 DEF At, Consistent
        <4> QED BY <4>1, <3>3, Numbers DEF Visitor
      <3>6. Last[Top(cur)[1]] < it[cur]
        BY <3>4, <3>5, Siblings
      <3>7. w <= Last[Top(cur)[1]]
        BY <3>1 DEF FirstAccepting
      <3>8. {w, Last[Top(cur)[1]], it[cur], thrower} \subseteq Int
        BY <3>3, <3>4, <3>5, Numbers
      <3> QED BY <3>2, <3>3, <3>6, <3>7, <3>8
    <2>2. CASE ~ Accept
      <3>1. tries' = tries
        BY <1>1, <2>2
           DEF Next, ApplyManager, SkipIf, ApplyRepeated, Invoke, EndLoop,
               LeafReturns, LeafThrows, Returned, PopOwn, Refuse, Rethrow,
               FinishManager, RepeatFailed, RepeatDone, RepeatAgain,
               Terminated, vars
      <3> QED BY <3>1
    <2> QED BY <2>1, <2>2
  <1> QED BY <1>1, Inductive, PTL DEF Spec, HandledByAnEarlierPass

-----------------------------------------------------------------------------
(***************************************************************************)
(* More about PassManager, for every tree of passes: init_apply has marked *)
(* every manager that runs a pass, no pass changes the program twice or    *)
(* out of order, and backtracking is undo (PassSequence).                  *)
(*                                                                         *)
(* IInv (PassManagerProofs) says which passes may have changed the program *)
(* of each manager.  HInv adds how the programs of one run relate: every   *)
(* saved program is a prefix of the ones saved after it and of the one in  *)
(* hand, the rest being the work of later passes, and a walk begins with a *)
(* program that none of its passes has changed, except in a PassRepeated.  *)
(***************************************************************************)
\* Passes x and y are repeated together.
Together(x, y) ==
  \E m \in Manager : Kind[m] = "repeated" /\ {x, y} \subseteq m..Last[m]

\* Pass x may change p next.
Clear(p, x) == \A i \in 1..Len(p) : p[i] < x \/ Together(p[i], x)

Ordered(p) ==
  \A i, j \in 1..Len(p) : i < j /\ p[i] >= p[j] => Together(p[i], p[j])

\* None of m's passes, nor any before m, has to be undone in entry[m].
EntryClear(m) == \A x \in m..Last[m] : Clear(entry[m], x)

Behind(m) ==
  /\ \A i \in 1..Len(backup[m]) :
       Extends(program[m], backup[m][i][2], backup[m][i][1], it[m] - 1)
  /\ \A i, j \in 1..Len(backup[m]) : i < j =>
       Extends(backup[m][j][2], backup[m][i][2], backup[m][i][1], backup[m][j][1] - 1)

WalkOK(m) == running[m] /\ EntryClear(m)

FramesOK ==
  /\ \A m \in Manager : Enclosing(m) => WalkOK(m) /\ Behind(m)
  /\ pc \in {"loop", "returned", "catch", "finish"} => WalkOK(cur)
  /\ pc \in {"loop", "returned", "catch"} => Behind(cur)

NodeOK ==
  /\ pc = "apply" /\ cur = 1 => node = << >>
  /\ pc = "catch" => node \in Program /\ Extends(node, program[cur], it[cur], N)
  /\ pc = "finish" => node = program[cur]

\* Programs are only copied, and changed by appending.
OrderOK ==
  /\ node # Null => Ordered(node)
  /\ \A m \in Visitor :
       /\ program[m] # Null => Ordered(program[m])
       /\ Ordered(entry[m])
       /\ \A i \in 1..Len(backup[m]) : Ordered(backup[m][i][2])

HInv == FramesOK /\ NodeOK /\ OrderOK

-----------------------------------------------------------------------------
(***************************************************************************)
(* Lemmas about programs.                                                  *)
(***************************************************************************)
\* The elements of a program are pass numbers.
LEMMA Elements ==
  ASSUME NEW p \in Program
  PROVE  Len(p) \in Nat /\ \A i \in 1..Len(p) : p[i] \in Visitor /\ p[i] \in Int
  BY Numbers DEF Program

\* Changes by passes before x leave a program that x may change next.
LEMMA ClearExtended ==
  ASSUME NEW p \in Program, NEW q \in Program, NEW x \in Int,
         NEW lo \in Int, NEW hi \in Int,
         Extends(p, q, lo, hi), hi < x, Clear(q, x)
  PROVE  Clear(p, x)
  <1> SUFFICES ASSUME NEW i \in 1..Len(p)
               PROVE  p[i] < x \/ Together(p[i], x)
    BY DEF Clear
  <1>1. Len(p) \in Nat /\ Len(q) \in Nat /\ p[i] \in Int
    BY Elements
  <1>2. CASE i <= Len(q)
    BY <1>1, <1>2 DEF Extends, Clear
  <1>3. CASE i > Len(q)
    BY <1>1, <1>3 DEF Extends
  <1> QED BY <1>1, <1>2, <1>3

\* So do changes by passes that are repeated together with x.
LEMMA ClearRepeated ==
  ASSUME NEW p \in Program, NEW q \in Program, NEW m \in Manager,
         NEW x \in m..Last[m], Kind[m] = "repeated",
         Extends(p, q, m + 1, Last[m]), Clear(q, x)
  PROVE  Clear(p, x)
  <1> SUFFICES ASSUME NEW i \in 1..Len(p)
               PROVE  p[i] < x \/ Together(p[i], x)
    BY DEF Clear
  <1>1. Len(p) \in Nat /\ Len(q) \in Nat /\ p[i] \in Int
    BY Elements
  <1>2. m \in Int /\ Last[m] \in Int
    BY ManagerFacts, Numbers
  <1>3. CASE i <= Len(q)
    BY <1>1, <1>3 DEF Extends, Clear
  <1>4. CASE i > Len(q)
    <2>1. p[i] \in m..Last[m]
      BY <1>1, <1>2, <1>4 DEF Extends
    <2> QED BY <2>1 DEF Together
  <1> QED BY <1>1, <1>3, <1>4

\* A change by a pass that may come next keeps the order.
LEMMA OrderedAppend ==
  ASSUME NEW p \in Program, NEW v \in Visitor, Ordered(p), Clear(p, v)
  PROVE  Ordered(Append(p, v))
  <1> DEFINE q == Append(p, v)
  <1> SUFFICES ASSUME NEW i \in 1..Len(q), NEW j \in 1..Len(q), i < j, q[i] >= q[j]
               PROVE  Together(q[i], q[j])
    BY DEF Ordered
  <1>1. Len(p) \in Nat /\ Len(q) = Len(p) + 1 /\ q[Len(p) + 1] = v
    BY DEF Program
  <1>2. \A k \in 1..Len(p) : q[k] = p[k]
    BY DEF Program
  <1> HIDE DEF q
  <1>3. i \in 1..Len(p) /\ p[i] \in Int /\ v \in Int
    BY <1>1, Elements, Numbers
  <1>4. CASE j \in 1..Len(p)
    BY <1>2, <1>3, <1>4 DEF Ordered
  <1>5. CASE j = Len(p) + 1
    BY <1>1, <1>2, <1>3, <1>5 DEF Clear
  <1> QED BY <1>1, <1>4, <1>5

-----------------------------------------------------------------------------
(***************************************************************************)
(* The managers around cur when cur stays, returns, or calls a pass.       *)
(***************************************************************************)
\* Steps within one manager leave the managers around it alone.
LEMMA HStay ==
  ASSUME IInv, HInv, cur' = cur,
         \A m \in Visitor \ {cur} :
           /\ it'[m] = it[m] /\ program'[m] = program[m]
           /\ entry'[m] = entry[m] /\ backup'[m] = backup[m]
           /\ running'[m] = running[m],
         NEW m \in Manager, Enclosing(m)'
  PROVE  WalkOK(m)' /\ Behind(m)'
  <1>1. m \in Visitor /\ m # cur /\ Enclosing(m)
    <2>1. m \in Visitor /\ m \in Int
      BY ManagerFacts, Numbers
    <2> QED BY <2>1 DEF Enclosing
  <1>2. WalkOK(m) /\ Behind(m)
    BY <1>1 DEF HInv, FramesOK
  <1> QED BY <1>1, <1>2 DEF WalkOK, Behind, EntryClear

\* A return or a throw to the enclosing manager.
LEMMA HUp ==
  ASSUME IInv, HInv, cur # 1, cur' = Parent[cur],
         it' = it, program' = program, entry' = entry, backup' = backup,
         \A m \in Visitor \ {cur} : running'[m] = running[m]
  PROVE  /\ \A m \in Manager : Enclosing(m)' => WalkOK(m)' /\ Behind(m)'
         /\ WalkOK(cur)' /\ Behind(cur)'
  <1>1. Parent[cur] \in Manager /\ Enclosing(Parent[cur])
    BY ParentAt
  <1>2. cur \in Visitor /\ Parent[cur] \in Visitor /\ Parent[cur] < cur
    BY NextPass, Numbers DEF IInv, TypeOK
  <1>3. ASSUME NEW m \in Manager, Enclosing(m)
        PROVE  WalkOK(m)' /\ Behind(m)'
    <2>1. m \in Visitor /\ m # cur
      BY <1>3, ManagerFacts, Numbers DEF Enclosing
    <2>2. WalkOK(m) /\ Behind(m)
      BY <1>3 DEF HInv, FramesOK
    <2> QED BY <2>1, <2>2 DEF WalkOK, Behind, EntryClear
  <1>4. ASSUME NEW m \in Manager, Enclosing(m)'
        PROVE  Enclosing(m)
    BY <1>2, <1>4, Ancestors, ManagerFacts DEF Enclosing
  <1>5. PICK P \in Manager : cur' = P /\ Enclosing(P)
    BY <1>1
  <1>6. WalkOK(cur)' /\ Behind(cur)'
    <2>1. WalkOK(P)' /\ Behind(P)'
      BY <1>3, <1>5
    <2> QED BY <1>5, <2>1 DEF WalkOK, Behind, EntryClear
  <1> QED BY <1>3, <1>4, <1>6

-----------------------------------------------------------------------------
(***************************************************************************)
(* One lemma per action.                                                   *)
(***************************************************************************)
\* The run begins with an empty history and no walk under way.
LEMMA InitHInv ==
  ASSUME Init
  PROVE  HInv
  <1>1. FramesOK
    BY ManagerFacts, Numbers DEF Init, FramesOK, Enclosing
  <1>2. NodeOK
    BY DEF Init, NodeOK
  <1>3. Ordered(<< >>)
    BY DEF Ordered
  <1>4. OrderOK
    <2>1. node = << >>
      BY DEF Init
    <2>2. \A m \in Visitor : /\ program[m] = << >> /\ entry[m] = << >>
                             /\ backup[m] = << >>
      BY DEF Init
    <2>3. \A i \in 1..Len(<< >>) : FALSE
      OBVIOUS
    <2> QED BY <1>3, <2>1, <2>2, <2>3 DEF OrderOK
  <1> QED BY <1>1, <1>2, <1>4 DEF HInv

\* A walk of cur's passes begins with a program that its passes may change.
LEMMA HBegin ==
  ASSUME IInv, HInv, cur \in Manager, NEW p \in Program, Begin(cur, p),
         running' = [running EXCEPT ![cur] = TRUE],
         \A x \in cur..Last[cur] : Clear(p, x), Ordered(p)
  PROVE  HInv'
  <1>1. TypeOK /\ cur \in Visitor
    BY DEF IInv, TypeOK
  <1>2. /\ program'[cur] = p /\ entry'[cur] = p /\ backup'[cur] = << >>
        /\ running'[cur] = TRUE /\ cur' = cur /\ pc' = "loop" /\ node' = p
    BY <1>1 DEF TypeOK, Begin
  <1>3. \A m \in Visitor \ {cur} :
          /\ it'[m] = it[m] /\ program'[m] = program[m]
          /\ entry'[m] = entry[m] /\ backup'[m] = backup[m]
          /\ running'[m] = running[m]
    BY <1>1 DEF TypeOK, Begin
  <1>4. \A m \in Manager : Enclosing(m)' => WalkOK(m)' /\ Behind(m)'
    BY <1>2, <1>3, HStay
  <1>5. WalkOK(cur)'
    BY <1>2 DEF WalkOK, EntryClear
  <1>6. Behind(cur)'
    BY <1>2 DEF Behind
  <1>7. FramesOK' /\ NodeOK'
    BY <1>2, <1>4, <1>5, <1>6 DEF FramesOK, NodeOK
  <1>8. OrderOK'
    <2>1. \A i \in 1..Len(<< >>) : FALSE
      OBVIOUS
    <2> SUFFICES ASSUME NEW m \in Visitor
                 PROVE  /\ program'[m] # Null => Ordered(program'[m])
                        /\ Ordered(entry'[m])
                        /\ \A i \in 1..Len(backup'[m]) : Ordered(backup'[m][i][2])
      BY <1>2 DEF OrderOK, Ordered
    <2> QED BY <1>2, <1>3, <2>1 DEF HInv, OrderOK
  <1> QED BY <1>7, <1>8 DEF HInv

\* A call of the manager: earlier passes made all the changes in its program.
LEMMA HApply ==
  ASSUME IInv, HInv, ApplyManager \/ ApplyRepeated
  PROVE  HInv'
  <1>1. /\ TypeOK /\ pc = "apply" /\ cur \in Manager /\ Begin(cur, node)
        /\ running' = [running EXCEPT ![cur] = TRUE]
    BY DEF IInv, ApplyManager, ApplyRepeated, MarkRunning
  <1>2. node \in Program /\ node # Null
    BY <1>1, ConstantAssumption DEF IInv, CurrentOK
  <1>3. ASSUME NEW x \in cur..Last[cur]
        PROVE  Clear(node, x)
    <2>1. CASE cur = 1
      <3>1. node = << >>
        BY <1>1, <2>1 DEF HInv, NodeOK
      <3> QED BY <3>1 DEF Clear
    <2>2. CASE cur # 1
      <3>1. PICK P \in Manager : P = Parent[cur]
        BY <2>2, ParentAt
      <3>2. /\ node = program[P] /\ it[P] = cur /\ Enclosing(P) /\ Consistent(P)
        BY <1>1, <2>2, <3>1, ParentAt DEF IInv, CurrentOK
      <3>3. EntryClear(P)
        BY <3>2 DEF HInv, FramesOK, WalkOK
      <3>4. /\ P \in Visitor /\ P \in Int /\ cur \in Int /\ Last[cur] \in Int
            /\ Last[P] \in Int /\ P < cur /\ Last[cur] <= Last[P]
        BY <1>1, <2>2, <3>1, NextPass, Numbers DEF TypeOK
      <3>5. Clear(entry[P], x)
        BY <3>3, <3>4 DEF EntryClear
      <3>6. Extends(node, entry[P], P + 1, cur - 1) /\ entry[P] \in Program
        BY <1>1, <3>2, <3>4 DEF Consistent, TypeOK
      <3>7. x \in Int /\ cur - 1 < x /\ P + 1 \in Int /\ cur - 1 \in Int
        BY <3>4
      <3> QED BY <1>2, <3>5, <3>6, <3>7, ClearExtended, ZenonT(30)
    <2> QED BY <2>1, <2>2
  <1>4. Ordered(node)
    BY <1>2 DEF HInv, OrderOK
  <1> QED BY <1>1, <1>2, <1>3, <1>4, HBegin

\* Another walk of a PassRepeated: its own passes made the changes since.
LEMMA HRepeatAgain ==
  ASSUME IInv, HInv, RepeatAgain
  PROVE  HInv'
  <1>1. /\ TypeOK /\ pc = "finish" /\ Begin(cur, program[cur])
        /\ Kind[cur] = "repeated" /\ program[cur] # Null
        /\ running' = [running EXCEPT ![cur] = TRUE]
    BY DEF IInv, RepeatAgain, Converged, Remark, MarkRunning
  <1>2. /\ cur \in Manager /\ cur \in Visitor /\ program[cur] \in Program
        /\ entry[cur] \in Program
        /\ Extends(program[cur], entry[cur], cur + 1, Last[cur])
    BY <1>1 DEF IInv, CurrentOK, TypeOK
  <1>3. EntryClear(cur)
    BY <1>1 DEF HInv, FramesOK, WalkOK
  <1>4. ASSUME NEW x \in cur..Last[cur]
        PROVE  Clear(program[cur], x)
    <2>1. Clear(entry[cur], x)
      BY <1>3 DEF EntryClear
    <2> QED BY <1>1, <1>2, <2>1, ClearRepeated
  <1>5. Ordered(program[cur])
    BY <1>1, <1>2 DEF HInv, OrderOK
  <1> QED BY <1>1, <1>2, <1>4, <1>5, HBegin

\* Back to the enclosing manager with a program that was already there.
LEMMA HReturn ==
  ASSUME IInv, HInv, NEW p, Return(cur, p), p # Null => Ordered(p),
         it' = it, program' = program, entry' = entry, backup' = backup,
         \A m \in Visitor \ {cur} : running'[m] = running[m]
  PROVE  HInv'
  <1>1. node' = p
    BY DEF Return
  <1>2. OrderOK'
    BY <1>1 DEF HInv, OrderOK, Ordered
  <1>3. CASE cur = 1
    <2>1. pc' = "done" /\ cur' = 1
      BY <1>3 DEF Return
    <2>2. FramesOK'
      BY <2>1, ManagerFacts, Numbers DEF FramesOK, Enclosing
    <2> QED BY <1>2, <2>1, <2>2 DEF HInv, NodeOK
  <1>4. CASE cur # 1
    <2>1. pc' = "returned" /\ cur' = Parent[cur]
      BY <1>4 DEF Return
    <2>2. FramesOK'
      BY <1>4, <2>1, HUp DEF FramesOK
    <2> QED BY <1>2, <2>1, <2>2 DEF HInv, NodeOK
  <1> QED BY <1>3, <1>4

\* A manager, or a PassIf that is skipped, returns.
LEMMA HFinish ==
  ASSUME IInv, HInv, SkipIf \/ FinishManager \/ RepeatFailed \/ RepeatDone
  PROVE  HInv'
  <1>1. TypeOK /\ cur \in Visitor
    BY DEF IInv, TypeOK
  <1>2. \A m \in Visitor \ {cur} : running'[m] = running[m]
    BY <1>1 DEF TypeOK, SkipIf, FinishManager, RepeatFailed, RepeatDone,
                MarkRunning, ClearRunning
  <1>3. it' = it /\ program' = program /\ entry' = entry /\ backup' = backup
    BY DEF SkipIf, FinishManager, RepeatFailed, RepeatDone
  <1>4. \E p \in {node, program[cur], entry[cur]} : Return(cur, p)
    BY DEF SkipIf, FinishManager, RepeatFailed, RepeatDone
  <1>5. \A p \in {node, program[cur], entry[cur]} : p # Null => Ordered(p)
    BY <1>1 DEF HInv, OrderOK
  <1> QED BY <1>2, <1>3, <1>4, <1>5, HReturn

\* A manager runs the pass at `it`, with a backup if it may backtrack.
LEMMA HInvoke ==
  ASSUME IInv, HInv, Invoke
  PROVE  HInv'
  <1> DEFINE b == backup[cur]
             c == backup'[cur]
             e == BackupEntry(cur, it[cur])
  <1>1. TypeOK /\ pc = "loop" /\ cur \in Manager /\ cur \in Visitor
    BY DEF Invoke, IInv, CurrentOK, TypeOK
  <1>2. /\ pc' = "apply" /\ cur' = it[cur] /\ node' = program[cur]
        /\ it' = it /\ program' = program /\ entry' = entry /\ running' = running
    BY DEF Invoke
  <1>3. Consistent(cur) /\ At(cur) /\ Saved(cur) /\ Behind(cur) /\ WalkOK(cur)
    BY <1>1 DEF IInv, CurrentOK, HInv, FramesOK, Invoke
  <1>4. it[cur] \in Visitor /\ it[cur] # 1 /\ Parent[it[cur]] = cur /\ cur < it[cur]
    <2>1. it[cur] \in 1..(N + 1) /\ cur < it[cur] /\ it[cur] <= Last[cur]
      BY <1>1, <1>3 DEF TypeOK, Consistent, At
    <2> QED BY <2>1, <1>1, <1>3, Numbers DEF At, Visitor
  <1>5. program[cur] \in Program /\ b \in Seq(Visitor \X Program)
    BY <1>1, <1>3 DEF Consistent, TypeOK
  <1>6. /\ c = b \/ c = Append(b, e)
        /\ \A m \in Visitor \ {cur} : backup'[m] = backup[m]
    BY <1>1 DEF TypeOK, Invoke
  <1>7. e[1] = it[cur] /\ e[2] = program[cur]
    BY DEF BackupEntry
  <1> HIDE DEF e
  <1>8. /\ Len(b) \in Nat
        /\ \/ Len(c) = Len(b)
           \/ Len(c) = Len(b) + 1 /\ c[Len(b) + 1] = e
        /\ \A i \in 1..Len(b) : c[i] = b[i]
    BY <1>5, <1>6
  <1> HIDE DEF c
  <1>9. /\ \A i \in 1..Len(c) : Extends(program[cur], c[i][2], c[i][1], it[cur] - 1)
        /\ \A i, j \in 1..Len(c) : i < j =>
             Extends(c[j][2], c[i][2], c[i][1], c[j][1] - 1)
    <2>1. \A i \in 1..Len(b) : Extends(program[cur], b[i][2], b[i][1], it[cur] - 1)
      BY <1>3 DEF Behind
    <2>2. Extends(program[cur], program[cur], it[cur], it[cur] - 1)
      BY <1>4, <1>5, Numbers, ExtendsRefl
    <2>3. \A i, j \in 1..Len(b) : i < j =>
            Extends(b[j][2], b[i][2], b[i][1], b[j][1] - 1)
      BY <1>3 DEF Behind
    <2>4. \A i \in 1..Len(c) :
            i \in 1..Len(b) \/ (i = Len(b) + 1 /\ c[i] = e)
      BY <1>8
    <2>5. ASSUME NEW i \in 1..Len(c)
          PROVE  Extends(program[cur], c[i][2], c[i][1], it[cur] - 1)
      BY <2>1, <2>2, <2>4, <1>7, <1>8
    <2>6. ASSUME NEW i \in 1..Len(c), NEW j \in 1..Len(c), i < j
          PROVE  Extends(c[j][2], c[i][2], c[i][1], c[j][1] - 1)
      <3>1. i \in 1..Len(b) /\ c[i] = b[i]
        BY <2>4, <2>6, <1>8
      <3>2. CASE j \in 1..Len(b)
        BY <2>3, <2>6, <3>1, <3>2, <1>8
      <3>3. CASE c[j] = e
        BY <2>1, <3>1, <3>3, <1>7
      <3> QED BY <2>4, <3>2, <3>3
    <2> QED BY <2>5, <2>6
  <1>10. ASSUME NEW m \in Manager, Enclosing(m)'
         PROVE  WalkOK(m)' /\ Behind(m)'
    <2>1. m \in Visitor
      BY ManagerFacts
    <2>2. m = cur \/ Enclosing(m)
      BY <1>2, <1>4, <1>10, <2>1, Ancestors DEF Enclosing
    <2>3. CASE m = cur
      <3>1. WalkOK(m)'
        BY <1>2, <1>3, <2>3 DEF WalkOK, EntryClear
      <3>2. backup'[m] = c /\ program'[m] = program[cur] /\ it'[m] = it[cur]
        BY <1>2, <2>3 DEF c
      <3> QED BY <1>9, <3>1, <3>2 DEF Behind
    <2>4. CASE m # cur
      <3>1. WalkOK(m) /\ Behind(m) /\ backup'[m] = backup[m]
        BY <1>6, <2>1, <2>2, <2>4 DEF HInv, FramesOK
      <3> QED BY <1>2, <3>1 DEF WalkOK, EntryClear, Behind
    <2> QED BY <2>3, <2>4
  <1>11. FramesOK' /\ NodeOK'
    BY <1>2, <1>4, <1>10 DEF FramesOK, NodeOK
  <1>12. OrderOK'
    <2>1. program[cur] # Null => Ordered(program[cur])
      BY <1>1 DEF HInv, OrderOK
    <2>2. ASSUME NEW m \in Visitor, NEW i \in 1..Len(backup'[m])
          PROVE  Ordered(backup'[m][i][2])
      <3>1. CASE m # cur
        BY <1>6, <2>2, <3>1 DEF HInv, OrderOK
      <3>2. CASE m = cur
        <4>1. i \in 1..Len(c) /\ backup'[m] = c
          BY <2>2, <3>2 DEF c
        <4>2. \A k \in 1..Len(b) : Ordered(b[k][2])
          BY <1>1 DEF HInv, OrderOK
        <4>3. Ordered(e[2])
          BY <1>5, <1>7, <2>1, ConstantAssumption
        <4> QED BY <1>8, <4>1, <4>2, <4>3
      <3> QED BY <3>1, <3>2
    <2> QED BY <1>2, <2>1, <2>2 DEF HInv, OrderOK, Ordered
  <1> QED BY <1>11, <1>12 DEF HInv

\* A leaf returns: at most it has appended itself.
LEMMA HLeafReturns ==
  ASSUME IInv, HInv, LeafReturns
  PROVE  HInv'
  <1>1. /\ TypeOK /\ pc = "apply" /\ cur \in Leaf /\ cur' = Parent[cur]
        /\ pc' = "returned" /\ it' = it /\ program' = program /\ entry' = entry
        /\ backup' = backup /\ running' = running
        /\ node' \in {node, Append(node, cur), Null}
    BY DEF IInv, LeafReturns
  <1>2. cur \in Visitor /\ cur # 1
    BY <1>1, LeafFacts
  <1>3. FramesOK' /\ NodeOK'
    BY <1>1, <1>2, HUp DEF FramesOK, NodeOK
  <1>4. PICK P \in Manager : P = Parent[cur]
    BY <1>2, ParentAt
  <1>5. /\ node \in Program /\ node = program[P] /\ it[P] = cur
        /\ Enclosing(P) /\ Consistent(P)
    BY <1>1, <1>2, <1>4, ParentAt DEF IInv, CurrentOK
  <1>6. Clear(node, cur)
    <2>1. EntryClear(P)
      BY <1>5 DEF HInv, FramesOK, WalkOK
    <2>2. P \in Visitor /\ P \in Int /\ cur \in Int /\ P < cur /\ cur <= Last[P]
      BY <1>2, <1>5, ManagerFacts, Numbers DEF Enclosing
    <2>3. Clear(entry[P], cur)
      BY <2>1, <2>2, Numbers DEF EntryClear
    <2>4. Extends(node, entry[P], P + 1, cur - 1) /\ entry[P] \in Program
      BY <1>1, <1>5, <2>2 DEF Consistent, TypeOK
    <2>5. cur - 1 < cur /\ P + 1 \in Int /\ cur - 1 \in Int
      BY <2>2
    <2> QED BY <1>5, <2>2, <2>3, <2>4, <2>5, ClearExtended, ZenonT(30)
  <1>7. Ordered(node) /\ Ordered(Append(node, cur))
    BY <1>2, <1>5, <1>6, OrderedAppend, ConstantAssumption DEF HInv, OrderOK
  <1>8. OrderOK'
    BY <1>1, <1>7 DEF HInv, OrderOK
  <1> QED BY <1>3, <1>8 DEF HInv

\* A leaf throws: the program in hand is still the one its manager holds.
LEMMA HLeafThrows ==
  ASSUME IInv, HInv, LeafThrows
  PROVE  HInv'
  <1>1. /\ TypeOK /\ pc = "apply" /\ cur \in Leaf /\ cur' = Parent[cur]
        /\ pc' = "catch" /\ node' = node /\ it' = it /\ program' = program
        /\ entry' = entry /\ backup' = backup /\ running' = running
    BY DEF IInv, LeafThrows, frames
  <1>2. cur \in Visitor /\ cur # 1 /\ cur \in Int
    BY <1>1, LeafFacts, Numbers
  <1>3. FramesOK'
    BY <1>1, <1>2, HUp DEF FramesOK
  <1>4. node \in Program /\ node = program[Parent[cur]] /\ it[Parent[cur]] = cur
    BY <1>1, <1>2, ParentAt DEF IInv, CurrentOK
  <1>5. NodeOK'
    <2>1. Extends(node, node, cur, N)
      BY <1>2, <1>4, Numbers, ExtendsRefl
    <2> QED BY <1>1, <1>4, <2>1 DEF NodeOK
  <1>6. OrderOK'
    BY <1>1 DEF HInv, OrderOK
  <1> QED BY <1>3, <1>5, <1>6 DEF HInv

\* The loop is over: the program in hand is the manager's.
LEMMA HEndLoop ==
  ASSUME IInv, HInv, EndLoop
  PROVE  HInv'
  <1>1. /\ TypeOK /\ pc = "loop" /\ pc' = "finish" /\ cur' = cur /\ node' = node
        /\ it' = it /\ program' = program /\ entry' = entry /\ backup' = backup
        /\ running' = running
    BY DEF IInv, EndLoop, frames
  <1>2. \A m \in Manager : Enclosing(m)' => WalkOK(m)' /\ Behind(m)'
    BY <1>1, HStay
  <1>3. WalkOK(cur) /\ node = program[cur]
    BY <1>1 DEF HInv, FramesOK, IInv, CurrentOK
  <1>4. WalkOK(cur)'
    BY <1>1, <1>3 DEF WalkOK, EntryClear
  <1>5. FramesOK' /\ NodeOK'
    BY <1>1, <1>2, <1>3, <1>4 DEF FramesOK, NodeOK
  <1>6. OrderOK'
    BY <1>1 DEF HInv, OrderOK
  <1> QED BY <1>5, <1>6 DEF HInv

\* A pass has returned: what was saved is behind its result as well.
LEMMA HReturned ==
  ASSUME IInv, HInv, Returned
  PROVE  HInv'
  <1> DEFINE b == backup[cur]
             i0 == it[cur]
  <1>1. /\ TypeOK /\ pc = "returned" /\ cur' = cur /\ node' = node
        /\ program' = [program EXCEPT ![cur] = node] /\ entry' = entry
        /\ backup' = backup /\ running' = running
        /\ \/ pc' = "finish" /\ it' = it
           \/ /\ pc' = "loop" /\ it' = [it EXCEPT ![cur] = Last[@] + 1]
              /\ node # Null
    BY DEF IInv, Returned, MustStop
  <1>2. cur \in Visitor /\ cur \in Manager
    BY <1>1 DEF IInv, CurrentOK, TypeOK
  <1>3. /\ program'[cur] = node
        /\ \A m \in Visitor \ {cur} : it'[m] = it[m] /\ program'[m] = program[m]
    BY <1>1, <1>2 DEF TypeOK
  <1>4. \A m \in Manager : Enclosing(m)' => WalkOK(m)' /\ Behind(m)'
    BY <1>1, <1>3, HStay
  <1>5. WalkOK(cur)'
    <2>1. WalkOK(cur)
      BY <1>1 DEF HInv, FramesOK
    <2> QED BY <1>1, <2>1 DEF WalkOK, EntryClear
  <1>6. ASSUME pc' = "loop"
        PROVE  Behind(cur)'
    <2>1. node \in Program /\ node # Null /\ it'[cur] = Last[i0] + 1
      BY <1>1, <1>2, <1>6 DEF TypeOK
    <2>2. /\ Consistent(cur) /\ At(cur) /\ Behind(cur) /\ Saved(cur)
          /\ Extends(node, program[cur], i0, Last[i0])
      BY <1>1, <2>1 DEF IInv, CurrentOK, HInv, FramesOK
    <2>3. program[cur] \in Program /\ b \in Seq(Visitor \X Program)
      BY <1>1, <1>2, <2>2 DEF Consistent, TypeOK
    <2>4. i0 \in Visitor /\ i0 \in Int /\ Last[i0] \in Int /\ i0 <= Last[i0]
      <3>1. i0 \in 1..(N + 1) /\ i0 <= Last[cur]
        BY <1>1, <1>2, <2>2 DEF TypeOK, At
      <3> QED BY <3>1, <1>2, Numbers DEF Visitor
    <2> HIDE DEF i0
    <2>5. ASSUME NEW i \in 1..Len(b)
          PROVE  Extends(node, b[i][2], b[i][1], Last[i0])
      <3>1. b[i] \in Visitor \X Program
        BY <2>3
      <3>2. b[i][1] \in Visitor /\ b[i][2] \in Program
        BY <3>1
      <3>3. b[i][1] \in Int
        BY <3>2, Numbers
      <3>4. Extends(program[cur], b[i][2], b[i][1], i0 - 1) /\ b[i][1] <= i0
        BY <2>2 DEF Behind, Saved, i0
      <3>5. i0 - 1 \in Int /\ i0 - 1 <= Last[i0]
        BY <2>4
      <3> DEFINE q == b[i][2]
                 k == b[i][1]
                 l == Last[i0]
      <3>6. /\ node \in Program /\ program[cur] \in Program /\ q \in Program
            /\ k \in Int /\ i0 \in Int /\ i0 - 1 \in Int /\ l \in Int
            /\ Extends(node, program[cur], i0, l)
            /\ Extends(program[cur], q, k, i0 - 1) /\ k <= i0 /\ i0 - 1 <= l
        BY <2>1, <2>2, <2>3, <2>4, <3>2, <3>3, <3>4, <3>5 DEF i0
      <3> HIDE DEF q, k, l
      <3>7. Extends(node, q, k, l)
        BY <3>6, ExtendsTrans, ZenonT(30)
      <3> QED BY <3>7 DEF q, k, l
    <2>6. it'[cur] - 1 = Last[i0]
      BY <2>1, <2>4
    <2> QED BY <1>1, <1>3, <2>2, <2>5, <2>6 DEF Behind
  <1>7. FramesOK' /\ NodeOK'
    BY <1>1, <1>3, <1>4, <1>5, <1>6 DEF FramesOK, NodeOK
  <1>8. OrderOK'
    BY <1>1, <1>3 DEF HInv, OrderOK
  <1> QED BY <1>7, <1>8 DEF HInv

\* The catch clause drops an entry.
LEMMA HPopOwn ==
  ASSUME IInv, HInv, PopOwn
  PROVE  HInv'
  <1> DEFINE b == backup[cur]
             c == SubSeq(b, 1, Len(b) - 1)
  <1>1. /\ TypeOK /\ pc = "catch" /\ pc' = pc /\ cur' = cur /\ node' = node
        /\ it' = it /\ program' = program /\ entry' = entry /\ b # << >>
        /\ backup' = [backup EXCEPT ![cur] = c] /\ running' = running
    BY DEF IInv, PopOwn, control
  <1>2. cur \in Visitor /\ b \in Seq(Visitor \X Program)
    BY <1>1 DEF TypeOK
  <1>3. \A i \in 1..Len(c) : i \in 1..Len(b) /\ c[i] = b[i]
    BY <1>1, <1>2
  <1>4. backup'[cur] = c /\ \A m \in Visitor \ {cur} : backup'[m] = backup[m]
    BY <1>1, <1>2 DEF TypeOK
  <1> HIDE DEF c
  <1>5. \A m \in Manager : Enclosing(m)' => WalkOK(m)' /\ Behind(m)'
    BY <1>1, <1>4, HStay
  <1>6. WalkOK(cur) /\ Behind(cur)
    BY <1>1 DEF HInv, FramesOK
  <1>7. WalkOK(cur)'
    BY <1>1, <1>6 DEF WalkOK, EntryClear
  <1>8. Behind(cur)'
    <2>1. \A i \in 1..Len(c) : Extends(program[cur], c[i][2], c[i][1], it[cur] - 1)
      BY <1>3, <1>6 DEF Behind
    <2>2. \A i, j \in 1..Len(c) : i < j =>
            Extends(c[j][2], c[i][2], c[i][1], c[j][1] - 1)
      BY <1>3, <1>6 DEF Behind
    <2> QED BY <1>1, <1>4, <2>1, <2>2 DEF Behind
  <1>9. FramesOK' /\ NodeOK'
    BY <1>1, <1>5, <1>7, <1>8 DEF FramesOK, NodeOK, HInv
  <1>10. OrderOK'
    <2>1. ASSUME NEW m \in Visitor, NEW i \in 1..Len(backup'[m])
          PROVE  Ordered(backup'[m][i][2])
      BY <1>2, <1>3, <1>4, <2>1 DEF HInv, OrderOK
    <2> QED BY <1>1, <2>1 DEF HInv, OrderOK
  <1> QED BY <1>9, <1>10 DEF HInv

\* Going back to the top entry: the entries below it are behind it.
LEMMA HRestore ==
  ASSUME IInv, HInv, Restore, cur' = cur, entry' = entry, backup' = backup,
         running' = running
  PROVE  /\ \A m \in Manager : Enclosing(m)' => WalkOK(m)' /\ Behind(m)'
         /\ WalkOK(cur)' /\ Behind(cur)'
         /\ Extends(node, Top(cur)[2], Top(cur)[1], N)
         /\ Ordered(Top(cur)[2])
         /\ \A m \in Visitor : program'[m] # Null => Ordered(program'[m])
  <1> DEFINE b == backup[cur]
             n == Len(b)
             t == Top(cur)
  <1>1. TypeOK /\ pc = "catch" /\ b # << >>
    BY DEF IInv, Restore
  <1>2. /\ cur \in Visitor /\ t[1] \in Visitor /\ t[2] \in Program
        /\ t[1] < it[cur]
    BY TopFacts
  <1>3. /\ it'[cur] = t[1] /\ program'[cur] = t[2]
        /\ \A m \in Visitor \ {cur} : it'[m] = it[m] /\ program'[m] = program[m]
    BY <1>1, <1>2 DEF TypeOK, Restore, RestoredProgram
  <1>4. n \in Nat /\ n \in 1..n /\ t = b[n]
    <2>1. b \in Seq(Visitor \X Program)
      BY <1>1, <1>2 DEF TypeOK
    <2> QED BY <1>1, <2>1 DEF Top
  <1>5. WalkOK(cur) /\ Behind(cur) /\ Consistent(cur)
    BY <1>1 DEF HInv, FramesOK, IInv, CurrentOK
  <1>6. Ordered(t[2])
    BY <1>2, <1>4 DEF HInv, OrderOK
  <1> HIDE DEF t
  <1>7. \A m \in Manager : Enclosing(m)' => WalkOK(m)' /\ Behind(m)'
    BY <1>3, HStay
  <1>8. WalkOK(cur)'
    BY <1>5 DEF WalkOK, EntryClear
  <1>9. Behind(cur)'
    <2>1. Extends(t[2], t[2], t[1], t[1] - 1)
      BY <1>2, Numbers, ExtendsRefl
    <2>2. ASSUME NEW i \in 1..n
          PROVE  Extends(t[2], b[i][2], b[i][1], t[1] - 1)
      <3>1. CASE i = n
        BY <1>4, <2>1, <3>1
      <3>2. CASE i # n
        <4>1. i < n
          BY <1>4, <3>2
        <4> QED BY <1>4, <1>5, <4>1 DEF Behind
      <3> QED BY <3>1, <3>2
    <2> QED BY <1>3, <1>5, <2>2 DEF Behind
  <1>10. Extends(node, t[2], t[1], N)
    <2> DEFINE p == program[cur]
               q == t[2]
               k == t[1]
               i0 == it[cur]
    <2>1. node \in Program /\ Extends(node, p, i0, N)
      BY <1>1 DEF HInv, NodeOK
    <2>2. Extends(p, q, k, i0 - 1)
      BY <1>4, <1>5 DEF Behind
    <2>3. p \in Program /\ q \in Program /\ k \in Int /\ N \in Int
      BY <1>2, <1>5, Numbers DEF Consistent
    <2>4. i0 \in Int /\ i0 - 1 \in Int /\ k <= i0 /\ i0 - 1 <= N
      <3>1. i0 \in 1..(N + 1)
        BY <1>1, <1>2 DEF TypeOK
      <3> QED BY <1>2, <2>3, <3>1
    <2> HIDE DEF p, q, k, i0
    <2>5. Extends(node, q, k, N)
      BY <2>1, <2>2, <2>3, <2>4, ExtendsTrans, ZenonT(30)
    <2> QED BY <2>5 DEF q, k
  <1>11. \A m \in Visitor : program'[m] # Null => Ordered(program'[m])
    BY <1>3, <1>6 DEF HInv, OrderOK
  <1> QED BY <1>6, <1>7, <1>8, <1>9, <1>10, <1>11 DEF t

\* The pass on top of the stack accepts or refuses.
LEMMA HAnswer ==
  ASSUME IInv, HInv, Accept \/ Refuse
  PROVE  HInv'
  <1>1. /\ TypeOK /\ Restore /\ cur' = cur /\ entry' = entry /\ backup' = backup
        /\ running' = running
        /\ \/ pc' = "loop" /\ node' = Top(cur)[2]
           \/ pc' = "catch" /\ node' = node
    BY DEF IInv, Accept, Refuse, Restore, RestoredProgram, control
  <1>2. /\ \A m \in Manager : Enclosing(m)' => WalkOK(m)' /\ Behind(m)'
        /\ WalkOK(cur)' /\ Behind(cur)'
        /\ Extends(node, Top(cur)[2], Top(cur)[1], N)
        /\ Ordered(Top(cur)[2])
        /\ \A m \in Visitor : program'[m] # Null => Ordered(program'[m])
    BY <1>1, HRestore
  <1>3. FramesOK'
    BY <1>1, <1>2 DEF FramesOK
  <1>4. NodeOK'
    <2>1. node \in Program
      BY <1>1 DEF HInv, NodeOK, Restore
    <2>2. it'[cur] = Top(cur)[1] /\ program'[cur] = Top(cur)[2]
      BY <1>1, RestoreStep DEF RestoredProgram
    <2> QED BY <1>1, <1>2, <2>1, <2>2 DEF NodeOK
  <1>5. OrderOK'
    BY <1>1, <1>2 DEF HInv, OrderOK
  <1> QED BY <1>3, <1>4, <1>5 DEF HInv

\* A trigger leaves a manager: what it began with is behind the program.
LEMMA HRethrow ==
  ASSUME IInv, HInv, Rethrow
  PROVE  HInv'
  <1>1. /\ TypeOK /\ pc = "catch" /\ node' = node /\ it' = it
        /\ program' = program /\ entry' = entry /\ backup' = backup
        /\ running' = running
    BY DEF IInv, Rethrow, frames
  <1>2. OrderOK'
    BY <1>1 DEF HInv, OrderOK
  <1>3. CASE cur = 1
    <2>1. pc' = "aborted" /\ cur' = 1
      BY <1>3 DEF Rethrow
    <2>2. FramesOK'
      BY <2>1, ManagerFacts, Numbers DEF FramesOK, Enclosing
    <2> QED BY <1>2, <2>1, <2>2 DEF HInv, NodeOK
  <1>4. CASE cur # 1
    <2>1. pc' = "catch" /\ cur' = Parent[cur]
      BY <1>4 DEF Rethrow
    <2>2. FramesOK'
      BY <1>1, <1>4, <2>1, HUp DEF FramesOK
    <2> DEFINE p == program[cur]
               e == entry[cur]
               q == program[Parent[cur]]
               i0 == it[cur]
               l == Last[cur]
    <2>3. cur \in Visitor /\ cur \in Int /\ l \in Int /\ l <= N
      BY <1>1, Numbers DEF TypeOK
    <2>4. /\ node \in Program /\ Extends(node, p, i0, N) /\ p \in Program
          /\ Extends(p, e, cur + 1, i0 - 1) /\ e \in Program
          /\ Extends(e, q, cur, l)
      BY <1>1, <1>4, <2>3
         DEF HInv, NodeOK, IInv, CurrentOK, Consistent, Entered, TypeOK
    <2>5. i0 \in Int /\ cur < i0 /\ i0 <= N + 1
      <3>1. i0 \in 1..(N + 1) /\ cur < i0
        BY <1>1, <2>3 DEF TypeOK, IInv, CurrentOK, Consistent
      <3> QED BY <3>1, Numbers
    <2>6. q \in Program /\ it[Parent[cur]] = cur
      BY <1>4, ParentAt DEF Consistent
    <2>7. /\ N \in Int /\ i0 - 1 \in Int /\ cur + 1 \in Int /\ cur + 1 <= i0
          /\ i0 - 1 <= N /\ cur <= cur + 1
      BY <2>3, <2>5, Numbers
    <2> HIDE DEF p, e, q, i0, l
    <2>8. Extends(node, e, cur + 1, N)
      BY <2>4, <2>5, <2>7, ExtendsTrans, ZenonT(30)
    <2>9. Extends(node, q, cur, N)
      BY <2>3, <2>4, <2>6, <2>7, <2>8, ExtendsTrans, ZenonT(30)
    <2>10. NodeOK'
      BY <1>1, <2>1, <2>4, <2>6, <2>9 DEF NodeOK, q
    <2> QED BY <1>2, <2>2, <2>10 DEF HInv
  <1> QED BY <1>3, <1>4

\* A step that changes nothing, or a run that has ended.
LEMMA HUnchanged ==
  ASSUME IInv, HInv, UNCHANGED vars
  PROVE  HInv'
  <1>1. /\ pc' = pc /\ cur' = cur /\ node' = node /\ it' = it
        /\ program' = program /\ entry' = entry /\ backup' = backup
        /\ running' = running
    BY DEF vars, control, frames
  <1>2. FramesOK'
    BY <1>1 DEF HInv, FramesOK, Enclosing, WalkOK, EntryClear, Behind
  <1>3. NodeOK' /\ OrderOK'
    BY <1>1 DEF HInv, NodeOK, OrderOK
  <1> QED BY <1>2, <1>3 DEF HInv

\* HInv is inductive, relative to IInv.
LEMMA NextHInv ==
  ASSUME IInv, HInv, [Next]_vars
  PROVE  HInv'
  BY HApply, HRepeatAgain, HFinish, HInvoke, HLeafReturns, HLeafThrows, HEndLoop,
     HReturned, HPopOwn, HAnswer, HRethrow, HUnchanged DEF Next, Terminated

(***************************************************************************)
(* How the programs of one run relate, in every reachable state.           *)
(***************************************************************************)
THEOREM Histories == Spec => []HInv
  BY InitHInv, NextHInv, Inductive, PTL DEF Spec

(***************************************************************************)
(* No pass changes the program twice or out of order, except the passes    *)
(* that one PassRepeated repeats together: for every tree of passes and    *)
(* any pattern of triggers, refusals and rethrows.                         *)
(***************************************************************************)
THEOREM InPassOrder == Spec => []ChangesInPassOrder
  <1>1. HInv => ChangesInPassOrder
    BY DEF HInv, OrderOK, Ordered, Together, ChangesInPassOrder
  <1> QED BY <1>1, Histories, PTL

(***************************************************************************)
(* apply_visitor's BUG_CHECK on `running` never fires: every               *)
(* manager that is about to run a pass has been through init_apply.        *)
(***************************************************************************)
THEOREM AlwaysRunning == Spec => []RunningWhileWalking
  <1>1. HInv => RunningWhileWalking
    BY DEF HInv, FramesOK, WalkOK, RunningWhileWalking
  <1> QED BY <1>1, Histories, PTL

-----------------------------------------------------------------------------
(***************************************************************************)
(* Backtracking is undo.  In a tree without a PassRepeated, every step of  *)
(* the manager is a step of PassSequence, or changes neither the program   *)
(* in hand nor the position.                                               *)
(***************************************************************************)
NoRepeated == \A v \in Visitor : Kind[v] # "repeated"

Step == [Abstract!Next]_<<node, Position>>

\* Without a PassRepeated, entry[m] holds changes of passes before m only.
LEMMA EarlierOnly ==
  ASSUME IInv, HInv, NoRepeated, NEW m \in Manager, EntryClear(m),
         NEW i \in 1..Len(entry[m])
  PROVE  entry[m][i] < m
  <1>1. m \in Visitor /\ m \in m..Last[m]
    BY ManagerFacts, Numbers
  <1>2. ~ Together(entry[m][i], m)
    BY ManagerFacts DEF Together, NoRepeated
  <1> QED BY <1>1, <1>2 DEF EntryClear, Clear

\* The positions a step moves between.
LEMMA Positions ==
  ASSUME IInv
  PROVE  /\ pc = "apply" => Position = cur - 1
         /\ pc = "loop" => Position = it[cur] - 1
         /\ pc = "returned" => Position = Last[it[cur]]
         /\ pc = "finish" => Position = Last[cur]
         /\ pc \in {"catch", "aborted"} => Position = thrower - 1
         /\ pc = "done" => Position = N
  BY DEF Position

\* A step that keeps the program and does not move back.
LEMMA AdvanceSame ==
  ASSUME node' = node, Position \in Int, Position' \in Int,
         Position <= Position', Position' <= N
  PROVE  Step
  BY Numbers DEF Step, Abstract!Next, Abstract!Advance

\* A return to the enclosing manager moves past the pass that returns.
LEMMA ReturnPosition ==
  ASSUME IInv, NEW p, Return(cur, p), it' = it
  PROVE  Position' = Last[cur] /\ cur \in Visitor /\ Last[cur] \in Int /\ Last[cur] <= N
  <1>1. cur \in Visitor /\ Last[cur] \in Int /\ Last[cur] <= N
    BY Numbers DEF IInv, TypeOK
  <1>2. CASE cur = 1
    <2>1. pc' = "done"
      BY <1>2 DEF Return
    <2>2. Position' = N
      BY <2>1 DEF Position
    <2> QED BY <1>1, <1>2, <2>2, TreeAssumption
  <1>3. CASE cur # 1
    <2>1. pc' = "returned" /\ it'[cur'] = cur
      BY <1>3, ParentAt DEF Return
    <2>2. Position' = Last[cur]
      BY <2>1 DEF Position
    <2> QED BY <1>1, <2>2
  <1> QED BY <1>2, <1>3

\* Accepting a trigger undoes what was done since the accepting point.
LEMMA AcceptUndoes ==
  ASSUME IInv, HInv, NoRepeated, Accept
  PROVE  Step
  <1> DEFINE t == Top(cur)
             q == t[2]
             k == t[1]
  <1>1. /\ TypeOK /\ Restore /\ cur' = cur /\ pc = "catch" /\ pc' = "loop"
        /\ node' = q /\ entry' = entry /\ backup' = backup /\ running' = running
    BY DEF IInv, Accept, Restore, RestoredProgram
  <1>2. /\ cur \in Manager /\ cur \in Visitor /\ k \in Visitor /\ q \in Program
        /\ cur < k /\ k < it[cur]
        /\ Extends(q, entry[cur], cur + 1, k - 1)
    BY <1>1, TopFacts
  <1>3. Extends(node, q, k, N) /\ it'[cur] = k
    BY <1>1, HRestore, RestoreStep
  <1>4. node \in Program /\ node # Null
    BY <1>1, ConstantAssumption DEF HInv, NodeOK
  <1> HIDE DEF t, q, k
  <1>5. /\ k \in Int /\ cur \in Int /\ N \in Int /\ thrower \in Int /\ 1 <= cur
        /\ k < thrower
    <2>1. it[cur] <= thrower /\ it[cur] \in 1..(N + 1) /\ thrower \in Visitor
      BY <1>1, <1>2 DEF IInv, CurrentOK, TypeOK
    <2> QED BY <1>2, <2>1, Numbers
  <1>6. Position = thrower - 1 /\ Position' = k - 1
    BY <1>1, <1>3 DEF Position
  <1>7. /\ Len(q) \in 0..Len(node) /\ q = SubSeq(node, 1, Len(q))
        /\ Len(q) \in Nat /\ Len(node) \in Nat
    <2>1. Len(q) \in Nat /\ Len(node) \in Nat /\ Len(q) <= Len(node)
      BY <1>2, <1>3, <1>4 DEF Extends, Program
    <2>2. \A i \in 1..Len(q) : q[i] = node[i]
      BY <1>3 DEF Extends
    <2>3. q \in Seq(Visitor) /\ node \in Seq(Visitor)
      BY <1>2, <1>4 DEF Program
    <2> QED BY <2>1, <2>2, <2>3
  <1>8. \A i \in 1..Len(q) : node[i] <= k - 1
    <2> TAKE i \in 1..Len(q)
    <2>1. node[i] = q[i] /\ q[i] \in Int /\ entry[cur] \in Program
      BY <1>1, <1>2, <1>3, Elements DEF Extends, TypeOK
    <2>2. CASE i <= Len(entry[cur])
      <3>1. i \in 1..Len(entry[cur]) /\ entry[cur][i] \in Int
        BY <2>1, <2>2, <1>7, Elements
      <3>2. EntryClear(cur)
        BY <1>1 DEF HInv, FramesOK, WalkOK
      <3>3. entry[cur][i] < cur
        BY <1>2, <3>1, <3>2, EarlierOnly
      <3>4. q[i] = entry[cur][i]
        BY <1>2, <3>1 DEF Extends
      <3> QED BY <1>2, <1>5, <2>1, <3>3, <3>4
    <2>3. CASE i > Len(entry[cur])
      <3>1. Len(entry[cur]) \in Nat
        BY <2>1, Elements
      <3>2. i \in (Len(entry[cur]) + 1)..Len(q)
        BY <1>7, <2>3, <3>1
      <3> QED BY <1>2, <2>1, <3>2 DEF Extends
    <2>4. Len(entry[cur]) \in Nat
      BY <2>1, Elements
    <2> QED BY <1>7, <2>2, <2>3, <2>4
  <1>9. \A i \in (Len(q) + 1)..Len(node) : node[i] > k - 1
    <2> TAKE i \in (Len(q) + 1)..Len(node)
    <2>1. k <= node[i]
      BY <1>3 DEF Extends
    <2>2. node[i] \in Int
      BY <1>4, <1>7, Elements
    <2> QED BY <1>5, <2>1, <2>2
  <1>10. Abstract!MadeBy(node, k - 1, Len(q))
    BY <1>8, <1>9 DEF Abstract!MadeBy
  <1>11. k - 1 \in 0..(thrower - 1 - 1)
    BY <1>2, <1>5
  <1>12. Abstract!Undo
    <2>1. \E n \in 0..Len(node) :
            Abstract!MadeBy(node, k - 1, n) /\ node' = SubSeq(node, 1, n)
      BY <1>1, <1>7, <1>10
    <2> QED BY <1>4, <1>6, <1>11, <2>1 DEF Abstract!Undo
  <1> QED BY <1>12 DEF Step, Abstract!Next

\* A leaf appends itself to the program in hand, keeps it, or loses it.
LEMMA LeafAdvances ==
  ASSUME IInv, LeafReturns
  PROVE  Step
  <1>1. /\ pc = "apply" /\ cur \in Leaf /\ cur' = Parent[cur] /\ pc' = "returned"
        /\ it' = it /\ node' \in {node, Append(node, cur), Null}
    BY DEF LeafReturns
  <1>2. cur \in Visitor /\ cur # 1 /\ Last[cur] = cur /\ cur \in Int /\ cur <= N
    BY <1>1, LeafFacts, Numbers
  <1>3. it'[cur'] = cur
    BY <1>1, <1>2, ParentAt
  <1>4. Position = cur - 1 /\ Position' = cur
    BY <1>1, <1>2, <1>3 DEF Position
  <1>5. node # Null
    BY <1>1, ConstantAssumption DEF IInv, CurrentOK
  <1>6. cur \in (cur - 1)..N /\ cur \in (cur - 1 + 1)..cur
    BY <1>2, Numbers
  <1>7. CASE node' = Null
    BY <1>4, <1>6, <1>7 DEF Step, Abstract!Next, Abstract!Lose
  <1>8. CASE node' = node
    BY <1>4, <1>6, <1>8 DEF Step, Abstract!Next, Abstract!Advance
  <1>9. CASE node' = Append(node, cur)
    BY <1>4, <1>5, <1>6, <1>9 DEF Step, Abstract!Next, Abstract!Advance
  <1> QED BY <1>1, <1>7, <1>8, <1>9

\* Calls, returns and the end of a loop only move forwards.
LEMMA ManagerAdvances ==
  ASSUME IInv, HInv, NoRepeated,
         \/ ApplyManager \/ SkipIf \/ Invoke \/ EndLoop \/ Returned \/ FinishManager
  PROVE  Step
  <1>1. TypeOK /\ cur \in Visitor /\ cur \in Int /\ cur <= N /\ N \in Int
    BY Numbers DEF IInv, TypeOK
  <1>2. CASE ApplyManager
    <2>1. /\ pc = "apply" /\ pc' = "loop" /\ cur' = cur /\ node' = node
          /\ it'[cur] = cur + 1
      BY <1>1, <1>2 DEF ApplyManager, Begin, TypeOK
    <2>2. Position = cur - 1
      BY <2>1 DEF Position
    <2>3. Position' = it'[cur] - 1
      BY <2>1 DEF Position
    <2> QED BY <1>1, <2>1, <2>2, <2>3, AdvanceSame
  <1>3. CASE SkipIf
    <2>1. pc = "apply" /\ Return(cur, node) /\ it' = it /\ node' = node
      BY <1>3 DEF SkipIf, Return
    <2>2. Position = cur - 1
      BY <2>1 DEF Position
    <2>3. Position' = Last[cur] /\ Last[cur] \in Int /\ Last[cur] <= N
      BY <2>1, ReturnPosition
    <2> QED BY <1>1, <2>1, <2>2, <2>3, AdvanceSame, Numbers
  <1>4. CASE Invoke
    <2>1. /\ pc = "loop" /\ pc' = "apply" /\ cur' = it[cur] /\ node' = node
      BY <1>4 DEF Invoke, IInv, CurrentOK
    <2>2. Position = it[cur] - 1 /\ Position' = it[cur] - 1
      BY <2>1 DEF Position
    <2> QED BY <2>1, <2>2 DEF Step
  <1>5. CASE EndLoop
    <2>1. /\ pc = "loop" /\ pc' = "finish" /\ cur' = cur /\ node' = node
          /\ it[cur] > Last[cur]
      BY <1>5 DEF EndLoop
    <2>2. it[cur] <= Last[cur] + 1 /\ it[cur] \in Int /\ Last[cur] \in Int
      <3>1. it[cur] <= Last[cur] + 1
        BY <2>1 DEF IInv, CurrentOK, Consistent
      <3>2. it[cur] \in 1..(N + 1)
        BY <1>1 DEF TypeOK
      <3>3. it[cur] \in Int /\ Last[cur] \in Visitor
        BY <1>1, <3>2, Numbers
      <3>4. Last[cur] \in Int
        BY <3>3, Numbers
      <3> QED BY <3>1, <3>3, <3>4
    <2>3. Position = it[cur] - 1 /\ Position' = Last[cur]
      BY <2>1 DEF Position
    <2> QED BY <2>1, <2>2, <2>3 DEF Step
  <1>6. CASE Returned
    <2>1. /\ pc = "returned" /\ cur' = cur /\ node' = node
          /\ \/ pc' = "finish" /\ it' = it
             \/ pc' = "loop" /\ it'[cur] = Last[it[cur]] + 1
      BY <1>1, <1>6 DEF Returned, TypeOK
    <2>2. /\ it[cur] \in Visitor /\ Last[it[cur]] \in Int /\ Last[cur] \in Int
          /\ Last[it[cur]] <= Last[cur] /\ Last[cur] <= N
      <3>1. /\ At(cur) /\ it[cur] \in 1..(N + 1) /\ cur < it[cur]
            /\ it[cur] <= Last[cur]
        BY <1>1, <2>1 DEF IInv, CurrentOK, TypeOK, At, Consistent
      <3>2. it[cur] \in Visitor /\ it[cur] # 1 /\ Parent[it[cur]] = cur
        BY <1>1, <3>1, Numbers DEF At, Visitor
      <3> QED BY <1>1, <3>2, NextPass, Numbers
    <2>3. Position = Last[it[cur]]
      BY <2>1 DEF Position
    <2>4. CASE pc' = "finish"
      <3>1. Position' = Last[cur]
        BY <2>1, <2>4 DEF Position
      <3> QED BY <2>1, <2>2, <2>3, <3>1, AdvanceSame
    <2>5. CASE pc' = "loop" /\ it'[cur] = Last[it[cur]] + 1
      <3>1. Position' = Last[it[cur]]
        BY <2>1, <2>2, <2>5 DEF Position
      <3> QED BY <2>1, <2>3, <3>1 DEF Step
    <2> QED BY <2>1, <2>4, <2>5
  <1>7. CASE FinishManager
    <2>1. pc = "finish" /\ Return(cur, program[cur]) /\ it' = it
      BY <1>7 DEF FinishManager
    <2>2. node' = node
      BY <2>1 DEF Return, HInv, NodeOK
    <2>3. Position = Last[cur]
      BY <2>1 DEF Position
    <2>4. Position' = Last[cur]
      BY <2>1, ReturnPosition
    <2> QED BY <2>2, <2>3, <2>4 DEF Step
  <1> QED BY <1>2, <1>3, <1>4, <1>5, <1>6, <1>7

\* A trigger on its way changes neither the program nor the position.
LEMMA ThrowStutters ==
  ASSUME IInv, LeafThrows \/ PopOwn \/ Refuse \/ Rethrow
  PROVE  Step
  <1>1. CASE LeafThrows
    <2>1. pc = "apply" /\ pc' = "catch" /\ thrower' = cur /\ node' = node
      BY <1>1 DEF LeafThrows
    <2>2. Position = cur - 1 /\ Position' = cur - 1
      BY <2>1 DEF Position
    <2> QED BY <2>1, <2>2 DEF Step
  <1>2. CASE PopOwn \/ Refuse \/ Rethrow
    <2>1. /\ pc = "catch" /\ pc' \in {"catch", "aborted"}
          /\ thrower' = thrower /\ node' = node
      BY <1>2 DEF PopOwn, Refuse, Rethrow, Restore, control
    <2>2. Position = thrower - 1 /\ Position' = thrower - 1
      BY <2>1 DEF Position
    <2> QED BY <2>1, <2>2 DEF Step
  <1> QED BY <1>1, <1>2

(***************************************************************************)
(* Backtracking is undo, in every tree without a PassRepeated: a trigger   *)
(* that some pass accepts removes exactly the changes made since, at every *)
(* depth and however many managers it has passed.                          *)
(***************************************************************************)
THEOREM Refinement ==
  ASSUME NoRepeated
  PROVE  Spec => BacktrackingIsUndo
  <1>1. Init => Abstract!Init
    BY DEF Init, Abstract!Init, Position
  <1>2. ASSUME IInv, HInv, [Next]_vars
        PROVE  Step
    <2>1. ~ (ApplyRepeated \/ RepeatFailed \/ RepeatDone \/ RepeatAgain)
      BY <1>2 DEF NoRepeated, IInv, TypeOK, ApplyRepeated, RepeatFailed, RepeatDone,
                  RepeatAgain
    <2>2. CASE UNCHANGED vars
      BY <2>2 DEF vars, control, frames, Step, Position
    <2> QED BY <1>2, <2>1, <2>2, AcceptUndoes, LeafAdvances, ManagerAdvances,
               ThrowStutters DEF Next, Terminated
  <1>3. IInv /\ HInv /\ [Next]_vars => [Abstract!Next]_Abstract!vars
    BY <1>2 DEF Step, Abstract!vars
  <1> QED BY <1>1, <1>3, Inductive, Histories, PTL
          DEF Spec, BacktrackingIsUndo, Abstract!Spec
=============================================================================
