-------------------------- MODULE P4RuntimeSymbols --------------------------
(***************************************************************************)
(* The symbol table of the P4Runtime control plane                         *)
(* (control-plane/p4RuntimeSymbolTable.{h,cpp}): the ids and aliases under *)
(* which a controller knows the tables, actions and other objects of a     *)
(* program.  create() lets the collectors add the symbols and then gives   *)
(* an id to each that has none by its @id annotation.                      *)
(*                                                                         *)
(* A name is the sequence of its components.  The order in which the       *)
(* collectors come upon the declarations is left open, and the table is    *)
(* built twice, since it must not depend on it.                            *)
(***************************************************************************)
EXTENDS Integers, Sequences, FiniteSets, SequencesExt, FiniteSetsExt

CONSTANTS
  Types,        \* the resource types, as numbers
  Names,        \* the sequence of all names in their order as strings
  Programs,     \* pairs of a program (for pairs of a type and a name, the @id or
                \* NoId) and of what jenkinsOneAtATimeHash maps the names to
  IdBits,       \* bits of an id below the type, 24 in the code
  HashBits      \* bits of the hash value, 32 in the code

INVALID_ID == 0
NoId == -1

ASSUME SymbolsAssumption ==
  /\ IdBits \in Nat \ {0} /\ HashBits \in Nat /\ IdBits <= HashBits
  /\ 2^IdBits \in Nat \ {0} /\ 2^HashBits \in Nat /\ 2^IdBits <= 2^HashBits
  /\ Types \subseteq Nat \ {0}
  /\ \A n \in ToSet(Names) : n \in Seq(ToSet(n)) /\ n # <<>>
  /\ \A p \in Programs :
       /\ \A d \in DOMAIN p[1] : /\ d[1] \in Types /\ d[2] \in ToSet(Names)
                                 /\ p[1][d] \in Nat \cup {NoId}
       /\ \A n \in ToSet(Names) : p[2][n] \in 0..(2^HashBits - 1)

VARIABLES
  program, hash,    \* the program and the hash function at hand
  todo,             \* the declarations still to be collected
  symbolTables,     \* the id of each symbol
  assignedIds,
  instances,        \* the tree of suffixes: how many symbols pass through a node
  pending,          \* the types whose ids are still to be computed
  errors,           \* the kinds of error reported
  first             \* history: what the first construction resulted in

vars == <<program, hash, todo, symbolTables, assignedIds, instances, pending, errors, first>>

Symbols == DOMAIN symbolTables

(***************************************************************************)
(* Collecting.                                                             *)
(***************************************************************************)
prefixOf(id) == id \div 2^IdBits
constructId(type, value) == type * 2^IdBits + (value % 2^IdBits)

\* The id of an @id annotation, if any, with the prefix of the resource type.
externalId(type, id) ==
  IF id = NoId \/ prefixOf(id) \notin {0, type} THEN NoId ELSE constructId(type, id)

NodesOf(name) == Suffixes(name) \ {<<>>}     \* of the tree of suffixes
NamesIn(symbols) == {s[2] : s \in symbols}

\* Mutation: counts a name again for each type that has it.
addSymbolAgain(name) ==
  [s \in DOMAIN instances \cup NodesOf(name) |->
     (IF s \in DOMAIN instances THEN instances[s] ELSE 0)
       + (IF s \in NodesOf(name) THEN 1 ELSE 0)]
addSymbol(name) ==
  IF name \in NamesIn(Symbols) THEN instances
  ELSE [s \in DOMAIN instances \cup NodesOf(name) |->
          (IF s \in DOMAIN instances THEN instances[s] ELSE 0)
            + (IF s \in NodesOf(name) THEN 1 ELSE 0)]

Extend(f, x, y) == [z \in DOMAIN f \cup {x} |-> IF z = x THEN y ELSE f[z]]

\* add, with externalId and tryToAssignId.
Add(d) ==
  LET id == externalId(d[1], program[d])
      taken == id \in assignedIds
  IN  /\ d \in todo
      /\ todo' = todo \ {d}
      /\ symbolTables' = Extend(symbolTables, d,
                                IF id = NoId \/ taken THEN INVALID_ID ELSE id)
      /\ assignedIds' = assignedIds \cup ({id} \ {NoId})
      /\ instances' = addSymbol(d[2])
      /\ errors' = errors \cup (IF taken THEN {"multiple"} ELSE {})
                     \cup (IF program[d] # NoId /\ id = NoId THEN {"prefix"} ELSE {})
      /\ UNCHANGED <<program, hash, pending, first>>

(***************************************************************************)
(* Computing ids, type by type and in the order of the names.              *)
(***************************************************************************)
\* Mutation: does not look whether the id is taken.
probeForIdBlindly(type, source) == constructId(type, source)
probeForId(type, source) ==
  LET free == {k \in 0..(2^HashBits - 1) :
                 constructId(type, (source + k) % 2^HashBits) \notin assignedIds}
  IN  IF free = {} THEN NoId ELSE constructId(type, (source + Min(free)) % 2^HashBits)

Unassigned(type) == {s \in Symbols : s[1] = type /\ symbolTables[s] = INVALID_ID}

Collected == todo = {}
now == Min(pending)

\* Mutation: the symbols come in any order.
NextSymbolAny(type) == Unassigned(type)
\* The first of the symbols without an id in the order of their names.
NextSymbol(type) ==
  {s \in Unassigned(type) :
     \A t \in Unassigned(type) : t # s =>
       SelectInSeq(Names, LAMBDA n : n = s[2]) < SelectInSeq(Names, LAMBDA n : n = t[2])}

AssignId ==
  /\ Collected /\ pending # {}
  /\ \E s \in NextSymbol(now) :
       LET id == probeForId(now, hash[s[2]])
       IN  /\ id # NoId
           /\ symbolTables' = [symbolTables EXCEPT ![s] = id]
           /\ assignedIds' = assignedIds \cup {id}
  /\ UNCHANGED <<program, hash, todo, instances, pending, errors, first>>

NoIdLeft ==
  /\ Collected /\ pending # {}
  /\ \E s \in NextSymbol(now) : probeForId(now, hash[s[2]]) = NoId
  /\ errors' = errors \cup {"overlimit"}
  /\ pending' = pending \ {now}
  /\ UNCHANGED <<program, hash, todo, symbolTables, assignedIds, instances, first>>

TypeDone ==
  /\ Collected /\ pending # {} /\ Unassigned(now) = {}
  /\ pending' = pending \ {now}
  /\ UNCHANGED <<program, hash, todo, symbolTables, assignedIds, instances, errors, first>>

Done == Collected /\ pending = {}

(***************************************************************************)
(* getAlias.                                                               *)
(***************************************************************************)
\* The shortest suffix through whose node no other symbol passes, or all of the name.
shortestUniqueSuffix(name) ==
  LET unique == {i \in DOMAIN name : instances[SubSeq(name, i, Len(name))] < 2}
  IN  SubSeq(name, IF unique = {} THEN 1 ELSE Max(unique), Len(name))

\* The table as its users see it.
Result == [ids |-> symbolTables,
           aliases |-> [n \in NamesIn(Symbols) |-> shortestUniqueSuffix(n)],
           errors |-> errors]

NotBuilt == [ids |-> <<>>, aliases |-> <<>>, errors |-> {}]
Empty == [s \in {} |-> 0]

Construct ==
  /\ todo' = DOMAIN program
  /\ symbolTables' = Empty /\ assignedIds' = {} /\ instances' = Empty
  /\ pending' = Types /\ errors' = {}

Init ==
  /\ \E p \in Programs : program = p[1] /\ hash = p[2]
  /\ todo = DOMAIN program
  /\ symbolTables = Empty /\ assignedIds = {} /\ instances = Empty
  /\ pending = Types /\ errors = {}
  /\ first = NotBuilt

\* The same program is compiled again.
BuildAgain ==
  /\ Done /\ first = NotBuilt /\ Symbols # {}
  /\ first' = Result
  /\ Construct
  /\ UNCHANGED <<program, hash>>

Next == (\E d \in todo : Add(d)) \/ AssignId \/ NoIdLeft \/ TypeDone \/ BuildAgain

Spec == Init /\ [][Next]_vars /\ WF_vars(Next)
-----------------------------------------------------------------------------
(***************************************************************************)
(* Properties.                                                             *)
(***************************************************************************)
\* create: "a unique id computed for each symbol".  No two symbols, of one type or
\* of two, have the same id, whether it came from @id or from the hash.
IdsUnique ==
  Done => \A s, t \in Symbols : s # t /\ symbolTables[s] # INVALID_ID
                                  => symbolTables[s] # symbolTables[t]

\* Every symbol gets an id, unless the ids of its type have run out, and these are
\* really all in use then.
IdsComplete ==
  Done => \A s \in Symbols : symbolTables[s] = INVALID_ID =>
            /\ "overlimit" \in errors
            /\ \A low \in 0..(2^IdBits - 1) : constructId(s[1], low) \in assignedIds

\* An @id is kept: no computed id gets in its way.
AnnotatedIdsKept ==
  Done /\ errors = {} => \A s \in Symbols : program[s] # NoId =>
                           symbolTables[s] = constructId(s[1], program[s])

\* getAlias: no two names are given the same alias, also when one name is a suffix of
\* the other.
AliasesUnique ==
  Done => \A n, m \in NamesIn(Symbols) : n # m =>
            shortestUniqueSuffix(n) # shortestUniqueSuffix(m)

\* getAlias: "the shortest unique suffix of path components in the name".  Anything
\* shorter than the alias is a suffix of another name too.
AliasesShortest ==
  Done => \A n \in NamesIn(Symbols) :
            LET alias == shortestUniqueSuffix(n)
            IN  \A s \in NodesOf(n) : Len(s) < Len(alias) =>
                  \E m \in NamesIn(Symbols) \ {n} : s \in NodesOf(m)

(***************************************************************************)
(* computeIdsForSymbols ends with an id for every symbol that can have     *)
(* one: no id is given twice, one from an annotation is kept, and only a   *)
(* type whose ids are all in use leaves symbols without.                   *)
(***************************************************************************)
IdsRight == IdsUnique /\ IdsComplete /\ AnnotatedIdsKept

\* create returns, also when the ids run out.
Terminates == <>[]Done

(***************************************************************************)
(* create is a function of the program ("This is necessary to provide      *)
(* deterministic ids"): it returns, and two constructions that meet the    *)
(* declarations in different orders give the same ids and aliases.         *)
(***************************************************************************)
Deterministic ==
  /\ [](Done /\ first # NotBuilt /\ "multiple" \notin errors => Result = first)
  /\ Terminates

(***************************************************************************)
(* getAlias, on names that are suffixes of one another or occur in two     *)
(* types: aliases are as short as can be, and tell all names apart.        *)
(***************************************************************************)
AliasesRight == AliasesUnique /\ AliasesShortest
=============================================================================
