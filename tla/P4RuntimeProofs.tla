-------------------------- MODULE P4RuntimeProofs --------------------------
(***************************************************************************)
(* The ids and the aliases of the P4Runtime symbol table are right, for    *)
(* every program, every order in which its declarations are met, every     *)
(* hash function and every width of the ids and of the hash values.        *)
(***************************************************************************)
EXTENDS P4RuntimeSymbols, NumberLemmas, FiniteSetTheorems, TLAPS

-----------------------------------------------------------------------------
(***************************************************************************)
(* The inductive invariant.                                                *)
(***************************************************************************)

\* What the proofs need to know of the program at hand.
ProgramOK ==
  /\ \A d \in DOMAIN program : /\ d[1] \in Types /\ d[2] \in ToSet(Names)
                               /\ program[d] \in Nat \cup {NoId}
  /\ \A n \in ToSet(Names) : hash[n] \in 0..(2^HashBits - 1)

TableTyped ==
  /\ todo \subseteq DOMAIN program
  /\ symbolTables \in [(DOMAIN program) \ todo -> Nat]
  /\ pending \subseteq Types
  /\ todo # {} => pending = Types

\* No id is given twice, and those given are known to be taken.
TakenOK ==
  /\ \A s \in Symbols :
       symbolTables[s] # INVALID_ID => symbolTables[s] \in assignedIds
  /\ \A s, t \in Symbols : symbolTables[s] # INVALID_ID
       /\ symbolTables[s] = symbolTables[t] => s = t

AnnotatedOK ==
  errors = {} => \A s \in Symbols : program[s] # NoId =>
                   symbolTables[s] = constructId(s[1], program[s])

\* A type that is done leaves a symbol without an id only when none is left.
TypesOK ==
  \A s \in Symbols : symbolTables[s] = INVALID_ID /\ s[1] \notin pending =>
    /\ "overlimit" \in errors
    /\ \A low \in 0..(2^IdBits - 1) : constructId(s[1], low) \in assignedIds

\* A node of the tree of suffixes counts the names that pass through it.
Through(s) == {n \in NamesIn(Symbols) : s \in NodesOf(n)}
Nodes == UNION {NodesOf(n) : n \in NamesIn(Symbols)}
TreeOK ==
  /\ IsFiniteSet(NamesIn(Symbols))
  /\ instances \in [Nodes -> Nat]
  /\ \A s \in Nodes : instances[s] = Cardinality(Through(s))

IInv ==
  ProgramOK /\ TableTyped /\ TakenOK /\ AnnotatedOK /\ TypesOK /\ TreeOK

-----------------------------------------------------------------------------
(***************************************************************************)
(* Ids.                                                                    *)
(***************************************************************************)
LEMMA LeastIn == ASSUME NEW S \in SUBSET Nat, S # {} PROVE Min(S) \in S
  <1>1. \E x \in S : \A y \in S : x <= y BY LeastOf
  <1> QED BY <1>1, Zenon DEF Min

\* An id has the prefix of its type, which is not 0.
LEMMA ConstructedId ==
  ASSUME NEW type \in Types, NEW value \in Nat
  PROVE  /\ constructId(type, value) \in Nat
         /\ constructId(type, value) # INVALID_ID
         /\ constructId(type, value) # NoId
  <1>1. PICK b \in Nat \ {0} : b = 2^IdBits BY SymbolsAssumption
  <1>2. type \in Nat \ {0} BY SymbolsAssumption
  <1>3. constructId(type, value) = type * b + (value % b)
    BY <1>1 DEF constructId
  <1>4. PICK r \in Nat : r = value % b OBVIOUS
  <1>5. type * b \in Nat /\ type * b >= 1 BY <1>2
  <1>6. PICK tb \in Nat : tb = type * b /\ tb >= 1 BY <1>5
  <1>7. constructId(type, value) = tb + r BY <1>3, <1>4, <1>6
  <1> QED BY <1>6, <1>7 DEF INVALID_ID, NoId

(***************************************************************************)
(* probeForId: the id it finds is free, and when it finds none there is    *)
(* none, although it counts the hash value up and not the id.              *)
(***************************************************************************)
LEMMA ProbeFinds ==
  ASSUME NEW type \in Types, NEW source \in 0..(2^HashBits - 1)
  PROVE  /\ probeForId(type, source) # NoId =>
              /\ probeForId(type, source) \in Nat
              /\ probeForId(type, source) # INVALID_ID
              /\ probeForId(type, source) \notin assignedIds
         /\ probeForId(type, source) = NoId =>
              \A low \in 0..(2^IdBits - 1) :
                constructId(type, low) \in assignedIds
  <1>1. PICK b \in Nat \ {0}, h \in Nat \ {0} :
          b = 2^IdBits /\ h = 2^HashBits /\ b <= h
    BY SymbolsAssumption
  <1>2. source \in Nat BY <1>1
  <1> DEFINE free == {k \in 0..(h - 1) :
                       constructId(type, (source + k) % h) \notin assignedIds}
             found == constructId(type, (source + Min(free)) % h)
  <1>3. probeForId(type, source) = IF free = {} THEN NoId ELSE found
    BY <1>1 DEF probeForId
  <1>4. CASE free # {}
    <2>1. free \in SUBSET Nat BY <1>1
    <2>2. Min(free) \in free
      <3> HIDE DEF free
      <3> QED BY <1>4, <2>1, LeastIn
    <2>3. found \notin assignedIds BY <2>2
    <2>4. PICK k \in Nat : k = Min(free) BY <2>1, <2>2
    <2>5. (source + k) % h \in Nat BY <1>1, <1>2, <2>4
    <2>6. found \in Nat /\ found # INVALID_ID /\ found # NoId
      BY <2>4, <2>5, ConstructedId
    <2> QED BY <1>3, <1>4, <2>3, <2>6
  <1>5. CASE free = {}
    <2>1. probeForId(type, source) = NoId BY <1>3, <1>5
    <2>2. ASSUME NEW low \in 0..(b - 1)
          PROVE  constructId(type, low) \in assignedIds
      <3>1. low \in 0..(h - 1) BY <1>1
      <3>2. PICK k \in 0..(h - 1) : (source + k) % h = low
        <4> HIDE DEF free, found
        <4> QED BY ONLY h \in Nat \ {0}, <1>2, <3>1, ProbeReaches
      <3>3. k \notin free BY <1>5
      <3> QED BY <3>2, <3>3
    <2> QED BY <1>1, <2>1, <2>2
  <1> QED BY <1>4, <1>5

-----------------------------------------------------------------------------
(***************************************************************************)
(* The invariant holds at first, and each step keeps it.                   *)
(***************************************************************************)

\* An empty table is right.
LEMMA EmptyOK ==
  ASSUME ProgramOK, todo = DOMAIN program, symbolTables = Empty,
         instances = Empty, pending = Types
  PROVE  IInv
  <1>1. Symbols = {} /\ NamesIn(Symbols) = {} /\ Nodes = {}
    BY DEF Symbols, Empty, NamesIn, Nodes
  <1>2. TableTyped BY DEF TableTyped, Empty
  <1>3. TakenOK /\ AnnotatedOK /\ TypesOK
    BY <1>1 DEF TakenOK, AnnotatedOK, TypesOK
  <1>4. TreeOK BY <1>1, FS_EmptySet DEF TreeOK, Empty
  <1> QED BY <1>2, <1>3, <1>4 DEF IInv

LEMMA InitOK == Init => IInv
  <1> SUFFICES ASSUME Init PROVE IInv OBVIOUS
  <1>1. PICK p \in Programs : program = p[1] /\ hash = p[2] BY DEF Init
  <1>2. ProgramOK BY <1>1, SymbolsAssumption DEF ProgramOK
  <1> QED BY <1>2, EmptyOK DEF Init

\* The tree depends on the names only.
LEMMA SameTree ==
  ASSUME TreeOK, Symbols' = Symbols, instances' = instances
  PROVE  TreeOK'
  BY DEF TreeOK, Nodes, Through, NamesIn

\* The table's symbols are the declarations met so far.
LEMMA SymbolsMet ==
  ASSUME TableTyped
  PROVE  Symbols = (DOMAIN program) \ todo
  BY DEF TableTyped, Symbols

\* The node of a suffix counts a name that is new once, one that is not never.
LEMMA TreeGrows ==
  ASSUME TreeOK, NEW name, NamesIn(Symbols)' = NamesIn(Symbols) \cup {name},
         instances' = addSymbol(name)
  PROVE  TreeOK'
  <1> DEFINE N == NamesIn(Symbols)
             N2 == N \cup {name}
             T(s) == {n \in N : s \in NodesOf(n)}
             T2(s) == {n \in N2 : s \in NodesOf(n)}
  <1>1. IsFiniteSet(N2) BY FS_AddElement DEF TreeOK
  <1>2. CASE name \in N
    <2>1. N2 = N /\ instances' = instances BY <1>2 DEF addSymbol
    <2>2. NamesIn(Symbols)' = NamesIn(Symbols) BY <2>1
    <2> QED BY <2>1, <2>2 DEF TreeOK, Nodes, Through
  <1>3. CASE name \notin N
    <2>1. instances' = [s \in DOMAIN instances \cup NodesOf(name) |->
            (IF s \in DOMAIN instances THEN instances[s] ELSE 0)
              + (IF s \in NodesOf(name) THEN 1 ELSE 0)]
      BY <1>3 DEF addSymbol
    <2>2. DOMAIN instances = Nodes BY DEF TreeOK
    <2>3. Nodes' = Nodes \cup NodesOf(name) BY DEF Nodes
    <2>4. ASSUME NEW s
          PROVE  /\ IsFiniteSet(T(s)) /\ Cardinality(T(s)) \in Nat
                 /\ s \in Nodes => instances[s] = Cardinality(T(s))
                 /\ s \notin Nodes => T(s) = {}
      <3>1. IsFiniteSet(T(s)) BY FS_Subset DEF TreeOK
      <3>2. Cardinality(T(s)) \in Nat BY <3>1, FS_CardinalityType
      <3>3. s \in Nodes => instances[s] = Cardinality(T(s))
        BY DEF TreeOK, Through
      <3> QED BY <3>1, <3>2, <3>3 DEF Nodes
    <2>5. ASSUME NEW s \in Nodes' PROVE instances'[s] = Cardinality(T2(s))
      <3>1. (IF s \in Nodes THEN instances[s] ELSE 0) = Cardinality(T(s))
        BY <2>4, FS_EmptySet
      <3>2. CASE s \in NodesOf(name)
        <4>1. T2(s) = T(s) \cup {name} /\ name \notin T(s) BY <1>3, <3>2
        <4>2. Cardinality(T2(s)) = Cardinality(T(s)) + 1
          BY <2>4, <4>1, FS_AddElement
        <4>3. instances'[s] = (IF s \in Nodes THEN instances[s] ELSE 0) + 1
          BY <2>1, <2>2, <2>3, <3>2
        <4> QED BY <3>1, <4>2, <4>3
      <3>3. CASE s \notin NodesOf(name)
        <4>1. T2(s) = T(s) BY <3>3
        <4>2. instances'[s] = (IF s \in Nodes THEN instances[s] ELSE 0) + 0
          BY <2>1, <2>2, <2>3, <3>3
        <4>3. PICK c \in Nat : c = Cardinality(T(s)) BY <2>4
        <4>4. instances'[s] = c BY <3>1, <4>2, <4>3
        <4> QED BY <4>1, <4>3, <4>4
      <3> QED BY <3>2, <3>3
    <2>6. ASSUME NEW s \in Nodes' PROVE Cardinality(T2(s)) \in Nat
      <3>1. IsFiniteSet(T2(s)) BY <1>1, FS_Subset
      <3> QED BY <3>1, FS_CardinalityType
    <2>7. instances' \in [Nodes' -> Nat]
      BY <2>1, <2>2, <2>3, <2>5, <2>6
    <2>8. ASSUME NEW s PROVE Through(s)' = T2(s) BY DEF Through
    <2> QED BY <1>1, <2>5, <2>7, <2>8 DEF TreeOK
  <1> QED BY <1>2, <1>3

\* add: a symbol with or without an @id.
LEMMA AddOK ==
  ASSUME IInv, NEW d \in todo, Add(d)
  PROVE  IInv'
  <1>1. PICK id : id = externalId(d[1], program[d]) OBVIOUS
  <1>2. /\ todo' = todo \ {d}
        /\ symbolTables' = Extend(symbolTables, d,
             IF id = NoId \/ id \in assignedIds THEN INVALID_ID ELSE id)
        /\ assignedIds' = assignedIds \cup ({id} \ {NoId})
        /\ instances' = addSymbol(d[2])
        /\ errors' = errors
             \cup (IF id \in assignedIds THEN {"multiple"} ELSE {})
             \cup (IF program[d] # NoId /\ id = NoId THEN {"prefix"} ELSE {})
        /\ program' = program /\ hash' = hash /\ pending' = pending
    BY <1>1 DEF Add
  <1>3. ProgramOK /\ TableTyped /\ TakenOK /\ AnnotatedOK /\ TreeOK
    BY DEF IInv
  <1>4. d \in DOMAIN program /\ d \notin Symbols /\ pending = Types
    BY <1>3, SymbolsMet DEF TableTyped
  <1>5. /\ d[1] \in Types /\ program[d] \in Nat \cup {NoId}
    BY <1>3, <1>4 DEF ProgramOK
  <1>6. /\ id # NoId => /\ id \in Nat /\ id # INVALID_ID
                        /\ id = constructId(d[1], program[d])
        /\ program[d] = NoId => id = NoId
    <2>1. program[d] = NoId => id = NoId BY <1>1 DEF externalId
    <2>2. ASSUME id # NoId
          PROVE  id = constructId(d[1], program[d]) /\ program[d] \in Nat
      BY <1>1, <1>5, <2>2 DEF externalId
    <2> QED BY <1>5, <2>1, <2>2, ConstructedId
  <1> DEFINE new == IF id = NoId \/ id \in assignedIds THEN INVALID_ID ELSE id
  <1>7. new \in Nat BY <1>6 DEF INVALID_ID
  <1>8. /\ Symbols' = Symbols \cup {d}
        /\ symbolTables'[d] = new
        /\ \A s \in Symbols : symbolTables'[s] = symbolTables[s]
    BY <1>2, <1>4 DEF Extend, Symbols
  <1>9. TableTyped'
    <2>1. symbolTables' \in [(DOMAIN program') \ todo' -> Nat]
      BY <1>2, <1>3, <1>4, <1>7 DEF TableTyped, Extend
    <2> QED BY <1>2, <1>3, <1>4, <2>1 DEF TableTyped
  <1> HIDE DEF new
  <1>10. new # INVALID_ID => new = id /\ id # NoId /\ id \notin assignedIds
    BY DEF new
  <1>11. TakenOK'
    <2>1. ASSUME NEW s \in Symbols', symbolTables'[s] # INVALID_ID
          PROVE  symbolTables'[s] \in assignedIds'
      BY <1>2, <1>3, <1>8, <1>10, <2>1 DEF TakenOK
    <2>2. ASSUME NEW s \in Symbols', NEW t \in Symbols',
                 symbolTables'[s] # INVALID_ID,
                 symbolTables'[s] = symbolTables'[t]
          PROVE  s = t
      BY <1>3, <1>8, <1>10, <2>2 DEF TakenOK
    <2> QED BY <2>1, <2>2 DEF TakenOK
  <1>12. AnnotatedOK'
    <2> SUFFICES ASSUME errors' = {}, NEW s \in Symbols', program[s] # NoId
                 PROVE  symbolTables'[s] = constructId(s[1], program[s])
      BY <1>2 DEF AnnotatedOK
    <2>1. errors = {} /\ id \notin assignedIds BY <1>2
    <2>2. CASE s = d
      <3>1. id # NoId BY <1>2, <2>2
      <3> QED BY <1>6, <1>8, <2>1, <2>2, <3>1 DEF new
    <2>3. CASE s # d BY <1>3, <1>8, <2>1, <2>3 DEF AnnotatedOK
    <2> QED BY <2>2, <2>3
  <1>13. TypesOK'
    <2>1. \A s \in Symbols' : s[1] \in Types
      BY <1>3, <1>4, <1>8, SymbolsMet DEF ProgramOK
    <2> QED BY <1>2, <1>4, <2>1 DEF TypesOK
  <1>14. TreeOK'
    <2>1. NamesIn(Symbols)' = NamesIn(Symbols) \cup {d[2]}
      BY <1>8 DEF NamesIn
    <2> QED BY <1>2, <1>3, <2>1, TreeGrows
  <1>15. ProgramOK' BY <1>2, <1>3 DEF ProgramOK
  <1> QED BY <1>9, <1>11, <1>12, <1>13, <1>14, <1>15 DEF IInv

\* The type whose turn it is, and the names of its symbols.
LEMMA TurnOf ==
  ASSUME IInv, pending # {}
  PROVE  /\ now \in pending /\ now \in Types
         /\ \A s \in Unassigned(now) :
              /\ s \in Symbols /\ s[1] = now /\ symbolTables[s] = INVALID_ID
              /\ hash[s[2]] \in 0..(2^HashBits - 1)
  <1>1. ProgramOK /\ TableTyped BY DEF IInv
  <1>2. pending \in SUBSET Nat BY <1>1, SymbolsAssumption DEF TableTyped
  <1>3. now \in pending BY <1>2, LeastIn DEF now
  <1>4. ASSUME NEW s \in Unassigned(now)
        PROVE  /\ s \in Symbols /\ s[1] = now /\ symbolTables[s] = INVALID_ID
               /\ hash[s[2]] \in 0..(2^HashBits - 1)
    <2>1. s \in Symbols /\ s[1] = now /\ symbolTables[s] = INVALID_ID
      BY DEF Unassigned
    <2>2. s[2] \in ToSet(Names) BY <1>1, <2>1, SymbolsMet DEF ProgramOK
    <2> QED BY <1>1, <2>1, <2>2 DEF ProgramOK
  <1> QED BY <1>1, <1>3, <1>4 DEF TableTyped

\* computeIdsForSymbols gives the next symbol an id.
LEMMA AssignOK ==
  ASSUME IInv, AssignId
  PROVE  IInv'
  <1>1. PICK s \in NextSymbol(now) :
          LET id == probeForId(now, hash[s[2]])
          IN  /\ id # NoId
              /\ symbolTables' = [symbolTables EXCEPT ![s] = id]
              /\ assignedIds' = assignedIds \cup {id}
    BY DEF AssignId
  <1>2. PICK id : id = probeForId(now, hash[s[2]]) OBVIOUS
  <1>3. /\ symbolTables' = [symbolTables EXCEPT ![s] = id]
        /\ assignedIds' = assignedIds \cup {id} /\ id # NoId
        /\ pending # {} /\ pending' = pending /\ program' = program
        /\ hash' = hash /\ todo' = todo /\ instances' = instances
        /\ errors' = errors
    BY <1>1, <1>2 DEF AssignId
  <1>4. ProgramOK /\ TableTyped /\ TakenOK /\ AnnotatedOK /\ TypesOK /\ TreeOK
    BY DEF IInv
  <1>5. s \in Unassigned(now) BY DEF NextSymbol
  <1>6. /\ s \in Symbols /\ symbolTables[s] = INVALID_ID /\ now \in Types
        /\ hash[s[2]] \in 0..(2^HashBits - 1)
    BY <1>3, <1>5, TurnOf
  <1>7. id \in Nat /\ id # INVALID_ID /\ id \notin assignedIds
    BY <1>2, <1>3, <1>6, ProbeFinds
  <1>8. /\ Symbols' = Symbols /\ symbolTables'[s] = id
        /\ \A t \in Symbols : t # s => symbolTables'[t] = symbolTables[t]
    BY <1>3, <1>4, <1>6 DEF Symbols, TableTyped
  <1>9. ProgramOK' /\ TableTyped'
    <2>1. symbolTables' \in [(DOMAIN program') \ todo' -> Nat]
      BY <1>3, <1>4, <1>7 DEF TableTyped
    <2> QED BY <1>3, <1>4, <2>1 DEF TableTyped, ProgramOK
  <1>10. TakenOK'
    <2>1. ASSUME NEW t \in Symbols', symbolTables'[t] # INVALID_ID
          PROVE  symbolTables'[t] \in assignedIds'
      BY <1>3, <1>4, <1>8, <2>1 DEF TakenOK
    <2>2. ASSUME NEW t \in Symbols', NEW r \in Symbols',
                 symbolTables'[t] # INVALID_ID,
                 symbolTables'[t] = symbolTables'[r]
          PROVE  t = r
      BY <1>4, <1>7, <1>8, <2>2 DEF TakenOK
    <2> QED BY <2>1, <2>2 DEF TakenOK
  <1>11. AnnotatedOK'
    <2> SUFFICES ASSUME errors = {}, NEW t \in Symbols, program[t] # NoId
                 PROVE  symbolTables'[t] = constructId(t[1], program[t])
      BY <1>3, <1>8 DEF AnnotatedOK
    <2>1. symbolTables[t] = constructId(t[1], program[t])
      BY <1>4 DEF AnnotatedOK
    <2>2. t[1] \in Types /\ program[t] \in Nat
      BY <1>4, SymbolsMet DEF ProgramOK
    <2>3. symbolTables[t] # INVALID_ID BY <2>1, <2>2, ConstructedId
    <2> QED BY <1>6, <1>8, <2>1, <2>3
  <1>12. TypesOK'
    <2> SUFFICES ASSUME NEW t \in Symbols, symbolTables'[t] = INVALID_ID,
                        t[1] \notin pending
                 PROVE  /\ "overlimit" \in errors
                        /\ \A low \in 0..(2^IdBits - 1) :
                             constructId(t[1], low) \in assignedIds'
      BY <1>3, <1>8 DEF TypesOK
    <2>1. symbolTables[t] = INVALID_ID BY <1>7, <1>8
    <2> QED BY <1>3, <1>4, <2>1 DEF TypesOK
  <1>13. TreeOK' BY <1>3, <1>4, <1>8, SameTree
  <1> QED BY <1>9, <1>10, <1>11, <1>12, <1>13 DEF IInv

\* A type is done, with all its symbols or because no id is left.
LEMMA PendingOK ==
  ASSUME IInv, pending # {}, pending' = pending \ {now},
         errors \subseteq errors',
         Unassigned(now) # {} =>
           /\ "overlimit" \in errors'
           /\ \A low \in 0..(2^IdBits - 1) :
                constructId(now, low) \in assignedIds,
         UNCHANGED <<program, hash, todo, symbolTables, assignedIds, instances>>,
         Collected
  PROVE  IInv'
  <1>1. ProgramOK /\ TableTyped /\ TakenOK /\ AnnotatedOK /\ TypesOK /\ TreeOK
    BY DEF IInv
  <1>2. Symbols' = Symbols BY DEF Symbols
  <1>3. ProgramOK' /\ TableTyped' /\ TakenOK'
    BY <1>1, <1>2 DEF ProgramOK, TableTyped, TakenOK, Collected
  <1>4. AnnotatedOK'
    <2> SUFFICES ASSUME errors' = {}, NEW s \in Symbols, program[s] # NoId
                 PROVE  symbolTables[s] = constructId(s[1], program[s])
      BY <1>2 DEF AnnotatedOK
    <2>1. errors = {} OBVIOUS
    <2> QED BY <1>1, <2>1 DEF AnnotatedOK
  <1>5. TypesOK'
    <2> SUFFICES ASSUME NEW s \in Symbols, symbolTables[s] = INVALID_ID,
                        s[1] \notin pending \ {now}
                 PROVE  /\ "overlimit" \in errors'
                        /\ \A low \in 0..(2^IdBits - 1) :
                             constructId(s[1], low) \in assignedIds
      BY <1>2 DEF TypesOK
    <2>1. CASE s[1] = now
      <3>1. s \in Unassigned(now) BY <2>1 DEF Unassigned
      <3> QED BY <2>1, <3>1
    <2>2. CASE s[1] # now
      <3>1. s[1] \notin pending BY <2>2
      <3> QED BY <1>1, <3>1 DEF TypesOK
    <2> QED BY <2>1, <2>2
  <1>6. TreeOK' BY <1>1, <1>2, SameTree
  <1> QED BY <1>3, <1>4, <1>5, <1>6 DEF IInv

LEMMA NoIdLeftOK == ASSUME IInv, NoIdLeft PROVE IInv'
  <1>1. PICK s \in NextSymbol(now) : probeForId(now, hash[s[2]]) = NoId
    BY DEF NoIdLeft
  <1>2. s \in Unassigned(now) BY DEF NextSymbol
  <1>3. pending # {} /\ Collected BY DEF NoIdLeft
  <1>4. now \in Types /\ hash[s[2]] \in 0..(2^HashBits - 1)
    BY <1>2, <1>3, TurnOf
  <1>5. \A low \in 0..(2^IdBits - 1) : constructId(now, low) \in assignedIds
    BY <1>1, <1>4, ProbeFinds
  <1> QED BY <1>3, <1>5, PendingOK DEF NoIdLeft

LEMMA TypeDoneOK == ASSUME IInv, TypeDone PROVE IInv'
  BY PendingOK DEF TypeDone

\* The second construction starts from an empty table.
LEMMA AgainOK == ASSUME IInv, BuildAgain PROVE IInv'
  <1>1. /\ program' = program /\ hash' = hash /\ todo' = DOMAIN program
        /\ symbolTables' = Empty /\ instances' = Empty /\ pending' = Types
    BY DEF BuildAgain, Construct
  <1>2. Symbols' = {} /\ NamesIn(Symbols)' = {} /\ Nodes' = {}
    BY <1>1 DEF Symbols, Empty, NamesIn, Nodes
  <1>3. ProgramOK' BY <1>1 DEF IInv, ProgramOK
  <1>4. TableTyped' BY <1>1 DEF TableTyped, Empty
  <1>5. TakenOK' /\ AnnotatedOK' /\ TypesOK'
    BY <1>2 DEF TakenOK, AnnotatedOK, TypesOK
  <1>6. TreeOK' BY <1>1, <1>2, FS_EmptySet DEF TreeOK, Empty
  <1> QED BY <1>3, <1>4, <1>5, <1>6 DEF IInv

-----------------------------------------------------------------------------
(***************************************************************************)
(* The inductive invariant of create().                                    *)
(***************************************************************************)
THEOREM SymbolsInductive == Spec => []IInv
  <1>1. Init => IInv BY InitOK
  <1>2. IInv /\ [Next]_vars => IInv'
    <2> SUFFICES ASSUME IInv, [Next]_vars PROVE IInv' OBVIOUS
    <2>1. CASE \E d \in todo : Add(d) BY <2>1, AddOK
    <2>2. CASE AssignId BY <2>2, AssignOK
    <2>3. CASE NoIdLeft BY <2>3, NoIdLeftOK
    <2>4. CASE TypeDone BY <2>4, TypeDoneOK
    <2>5. CASE BuildAgain BY <2>5, AgainOK
    <2>6. CASE UNCHANGED vars
      <3>1. /\ program' = program /\ hash' = hash /\ todo' = todo
            /\ symbolTables' = symbolTables /\ assignedIds' = assignedIds
            /\ instances' = instances /\ pending' = pending
            /\ errors' = errors /\ Symbols' = Symbols
        BY <2>6 DEF vars, Symbols
      <3>2. ProgramOK' /\ TableTyped' /\ TakenOK' /\ AnnotatedOK' /\ TypesOK'
        BY <3>1
        DEF IInv, ProgramOK, TableTyped, TakenOK, AnnotatedOK, TypesOK
      <3>3. TreeOK' BY <3>1, SameTree DEF IInv
      <3> QED BY <3>2, <3>3 DEF IInv
    <2> QED BY <2>1, <2>2, <2>3, <2>4, <2>5, <2>6 DEF Next
  <1> QED BY <1>1, <1>2, PTL DEF Spec

(***************************************************************************)
(* create: "a unique id computed for each symbol".  Ids from annotations   *)
(* and from hashes never meet, an @id is kept, and a symbol is without an  *)
(* id only when its type has no id left.                                   *)
(***************************************************************************)
THEOREM IdsAreRight == Spec => []IdsRight
  <1>1. IInv => IdsRight
    <2> SUFFICES ASSUME IInv PROVE IdsRight OBVIOUS
    <2>1. IdsUnique BY DEF IInv, TakenOK, IdsUnique
    <2>2. IdsComplete BY DEF IInv, TypesOK, IdsComplete, Done
    <2>3. AnnotatedIdsKept BY DEF IInv, AnnotatedOK, AnnotatedIdsKept
    <2> QED BY <2>1, <2>2, <2>3 DEF IdsRight
  <1> QED BY <1>1, SymbolsInductive, PTL

-----------------------------------------------------------------------------
(***************************************************************************)
(* Aliases.                                                                *)
(***************************************************************************)

\* A node that counts less than two is of one name only,
LEMMA OneName ==
  ASSUME TreeOK, NEW s, NEW n \in Through(s), NEW m \in Through(s),
         instances[s] < 2
  PROVE  n = m
  <1> SUFFICES ASSUME n # m PROVE FALSE OBVIOUS
  <1> DEFINE T == Through(s)
  <1>1. s \in Nodes /\ T \subseteq NamesIn(Symbols) BY DEF Through, Nodes
  <1>2. IsFiniteSet(T) BY <1>1, FS_Subset DEF TreeOK
  <1>3. instances[s] = Cardinality(T) BY <1>1 DEF TreeOK
  <1> HIDE DEF T
  <1>4. n \in T /\ m \in T BY DEF T
  <1>5. /\ IsFiniteSet(T \ {n})
        /\ Cardinality(T \ {n}) = Cardinality(T) - 1
    BY <1>2, <1>4, FS_RemoveElement
  <1>6. m \in T \ {n} BY <1>4
  <1>7. /\ IsFiniteSet((T \ {n}) \ {m})
        /\ Cardinality((T \ {n}) \ {m}) = Cardinality(T \ {n}) - 1
    BY <1>5, <1>6, FS_RemoveElement
  <1>8. /\ Cardinality(T) \in Nat /\ Cardinality(T \ {n}) \in Nat
        /\ Cardinality((T \ {n}) \ {m}) \in Nat
    BY <1>2, <1>5, <1>7, FS_CardinalityType
  <1> QED BY <1>3, <1>5, <1>7, <1>8

\* and any other is of two.
LEMMA TwoNames ==
  ASSUME TreeOK, NEW s, NEW n \in Through(s), ~ (instances[s] < 2)
  PROVE  \E m \in Through(s) : m # n
  <1> SUFFICES ASSUME \A m \in Through(s) : m = n PROVE FALSE OBVIOUS
  <1>1. s \in Nodes BY DEF Through, Nodes
  <1>2. Through(s) = {n} OBVIOUS
  <1>3. Cardinality({n}) = 1 BY FS_Singleton
  <1> QED BY <1>1, <1>2, <1>3 DEF TreeOK

\* The suffixes of a name are nodes of the tree.
LEMMA SuffixNodes ==
  ASSUME NEW n \in ToSet(Names)
  PROVE  /\ n \in Seq(ToSet(n)) /\ Len(n) \in Nat \ {0}
         /\ DOMAIN n = 1..Len(n) /\ SubSeq(n, 1, Len(n)) = n
         /\ \A k \in 1..Len(n) : /\ SubSeq(n, k, Len(n)) \in NodesOf(n)
                                 /\ Len(SubSeq(n, k, Len(n))) = Len(n) - k + 1
         /\ \A s \in NodesOf(n) :
              \E k \in 1..Len(n) : s = SubSeq(n, k, Len(n))
  <1>1. n \in Seq(ToSet(n)) /\ n # << >> BY SymbolsAssumption
  <1>2. Len(n) \in Nat \ {0} /\ DOMAIN n = 1..Len(n)
    BY <1>1
  <1>3. SubSeq(n, 1, Len(n)) = n BY <1>1, <1>2
  <1>4. ASSUME NEW k \in 1..Len(n)
        PROVE  /\ SubSeq(n, k, Len(n)) \in NodesOf(n)
               /\ Len(SubSeq(n, k, Len(n))) = Len(n) - k + 1
    <2>1. Len(SubSeq(n, k, Len(n))) = Len(n) - k + 1 BY <1>1, <1>2
    <2>2. Len(n) - k + 1 # 0 BY <1>2
    <2>3. SubSeq(n, k, Len(n)) # << >> BY <2>1, <2>2
    <2> QED BY <2>1, <2>3 DEF NodesOf, Suffixes
  <1>5. \A s \in NodesOf(n) : \E k \in 1..Len(n) : s = SubSeq(n, k, Len(n))
    BY DEF NodesOf, Suffixes
  <1> QED BY <1>1, <1>2, <1>3, <1>4, <1>5

(***************************************************************************)
(* shortestUniqueSuffix: the suffix from some component k on, unique or    *)
(* the whole name, and no shorter suffix is unique.                        *)
(***************************************************************************)
LEMMA AliasIs ==
  ASSUME IInv, NEW n \in NamesIn(Symbols)
  PROVE  \E k \in 1..Len(n) :
           /\ shortestUniqueSuffix(n) = SubSeq(n, k, Len(n))
           /\ instances[shortestUniqueSuffix(n)] < 2
                \/ shortestUniqueSuffix(n) = n
           /\ \A l \in 1..Len(n) :
                l > k => ~ (instances[SubSeq(n, l, Len(n))] < 2)
  <1>1. n \in ToSet(Names)
    <2>1. PICK d \in Symbols : n = d[2] BY DEF NamesIn
    <2> QED BY <2>1, SymbolsMet DEF IInv, ProgramOK
  <1>2. /\ Len(n) \in Nat \ {0} /\ DOMAIN n = 1..Len(n)
        /\ SubSeq(n, 1, Len(n)) = n
    BY <1>1, SuffixNodes
  <1> DEFINE unique == {l \in DOMAIN n : instances[SubSeq(n, l, Len(n))] < 2}
             from == IF unique = {} THEN 1 ELSE Max(unique)
  <1>3. shortestUniqueSuffix(n) = SubSeq(n, from, Len(n))
    BY DEF shortestUniqueSuffix
  <1>4. CASE unique = {}
    <2>1. from = 1 /\ 1 \in 1..Len(n) BY <1>2, <1>4
    <2>2. \A l \in 1..Len(n) : ~ (instances[SubSeq(n, l, Len(n))] < 2)
      BY <1>2, <1>4
    <2> HIDE DEF from
    <2> QED BY <1>2, <1>3, <2>1, <2>2
  <1>5. CASE unique # {}
    <2>1. unique \in SUBSET (0..Len(n)) BY <1>2
    <2>2. \E x \in unique : \A y \in unique : x >= y
      <3> HIDE DEF unique
      <3> QED BY <1>2, <1>5, <2>1, GreatestOf
    <2>3. from \in unique /\ \A y \in unique : from >= y
      <3> HIDE DEF unique
      <3> QED BY <1>5, <2>2, Zenon DEF Max
    <2> HIDE DEF from
    <2>4. from \in 1..Len(n) /\ instances[SubSeq(n, from, Len(n))] < 2
      BY <1>2, <2>3
    <2>5. ASSUME NEW l \in 1..Len(n), l > from
          PROVE  ~ (instances[SubSeq(n, l, Len(n))] < 2)
      <3>1. l \notin unique BY <1>2, <2>3, <2>4, <2>5
      <3> QED BY <1>2, <3>1
    <2> QED BY <1>3, <2>4, <2>5
  <1> QED BY <1>4, <1>5

(***************************************************************************)
(* The alias is a node of the name's path that one name passes through,    *)
(* unless it is the whole name.                                            *)
(***************************************************************************)
LEMMA AliasIsNode ==
  ASSUME IInv, NEW n \in NamesIn(Symbols), n \in ToSet(Names)
  PROVE  /\ shortestUniqueSuffix(n) \in NodesOf(n)
         /\ instances[shortestUniqueSuffix(n)] < 2
              \/ shortestUniqueSuffix(n) = n
  <1>1. PICK k \in 1..Len(n) :
          /\ shortestUniqueSuffix(n) = SubSeq(n, k, Len(n))
          /\ instances[shortestUniqueSuffix(n)] < 2
               \/ shortestUniqueSuffix(n) = n
    BY AliasIs
  <1>2. SubSeq(n, k, Len(n)) \in NodesOf(n) BY SuffixNodes
  <1> QED BY <1>1, <1>2, Zenon

(***************************************************************************)
(* getAlias: "the shortest unique suffix of path components in the name".  *)
(* Aliases tell all names apart and none could be shorter, also among      *)
(* names that are suffixes of one another or that several types share.     *)
(***************************************************************************)
THEOREM AliasesAreRight == Spec => []AliasesRight
  <1>1. ASSUME IInv PROVE AliasesRight
    <2>1. TreeOK BY <1>1 DEF IInv
    <2>2. ASSUME NEW n \in NamesIn(Symbols) PROVE n \in ToSet(Names)
      <3>1. PICK d \in Symbols : n = d[2] BY DEF NamesIn
      <3> QED BY <1>1, <3>1, SymbolsMet DEF IInv, ProgramOK
    <2>3. ASSUME NEW n \in NamesIn(Symbols), NEW m \in NamesIn(Symbols),
                 shortestUniqueSuffix(n) = shortestUniqueSuffix(m)
          PROVE  n = m
      <3>1. PICK s : s = shortestUniqueSuffix(n) OBVIOUS
      <3>2. s \in NodesOf(n) /\ (instances[s] < 2 \/ s = n)
        BY <1>1, <2>2, <3>1, AliasIsNode
      <3>3. s \in NodesOf(m) /\ (instances[s] < 2 \/ s = m)
        BY <1>1, <2>2, <2>3, <3>1, AliasIsNode
      <3>4. n \in Through(s) /\ m \in Through(s)
        BY <3>2, <3>3 DEF Through
      <3> QED BY <2>1, <3>2, <3>3, <3>4, OneName
    <2>4. ASSUME NEW n \in NamesIn(Symbols), NEW s \in NodesOf(n),
                 Len(s) < Len(shortestUniqueSuffix(n))
          PROVE  \E m \in NamesIn(Symbols) \ {n} : s \in NodesOf(m)
      <3>1. PICK k \in 1..Len(n) :
              /\ shortestUniqueSuffix(n) = SubSeq(n, k, Len(n))
              /\ \A l \in 1..Len(n) :
                   l > k => ~ (instances[SubSeq(n, l, Len(n))] < 2)
        BY <1>1, AliasIs
      <3>2. n \in ToSet(Names) BY <2>2
      <3>3. PICK l \in 1..Len(n) : s = SubSeq(n, l, Len(n))
        BY <3>2, SuffixNodes
      <3>4. /\ Len(s) = Len(n) - l + 1 /\ Len(n) \in Nat
            /\ Len(shortestUniqueSuffix(n)) = Len(n) - k + 1
        BY <3>1, <3>2, <3>3, SuffixNodes
      <3>5. l > k BY <2>4, <3>4
      <3>6. ~ (instances[s] < 2) BY <3>1, <3>3, <3>5
      <3>7. n \in Through(s) BY DEF Through
      <3>8. PICK m \in Through(s) : m # n BY <2>1, <3>6, <3>7, TwoNames
      <3> QED BY <3>8 DEF Through
    <2> QED BY <2>3, <2>4 DEF AliasesRight, AliasesUnique, AliasesShortest
  <1> QED BY <1>1, SymbolsInductive, PTL
=============================================================================
