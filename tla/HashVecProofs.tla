--------------------------- MODULE HashVecProofs ---------------------------
(***************************************************************************)
(* The hash vector finds what it holds, for every set of keys, hash        *)
(* function, table size and element widths, on every behaviour in which    *)
(* the table never fills up.  (On a full table find has no empty slot to   *)
(* stop at, and an operation on a key that is absent takes another entry:  *)
(* the run HashVecFull shows it.)                                          *)
(***************************************************************************)
EXTENDS HashVec, NumberLemmas, FiniteSetTheorems, TLAPS

\* Some slot of the table is empty.
NotFull == \E s \in 0..(hashsize - 1) : hash[s] = 0

-----------------------------------------------------------------------------
(***************************************************************************)
(* The inductive invariant.                                                *)
(***************************************************************************)
Redoing == pc \in {"redo_place", "redo_store"}

\* The indices the table refers to: in redo_hash, those it has moved.
Filled == IF Redoing THEN j ELSE limit

\* f is what find leaves in the cache for key k, when it stops at a slot.
Finds(k, f) ==
  \E c \in 0..(hashsize - 1) :
    /\ f.slot = Slot(k, c) /\ f.idx = hash[f.slot]
    /\ Stops(k, c)
    /\ \A d \in 0..(c - 1) : ~ Stops(k, d)

\* Entry x is reached from its home slot through slots of older entries.
Reached(x) ==
  \E c \in 0..(hashsize - 1) :
    /\ hash[Slot(data[x].key, c)] = x
    /\ \A d \in 0..(c - 1) : hash[Slot(data[x].key, d)] \in 1..(x - 1)

\* Between redo_hash's runs its locals are reset, and it runs unmarked.
LocalsOK ==
  /\ hashsize > 0
  /\ erased \subseteq 1..limit /\ was \subseteq 1..limit
  /\ ~ Redoing => i = 1 /\ j = 0 /\ was = {}
  /\ Redoing \/ pc \in {"find_place", "find_store"} => erased = {}

\* Every index fits the table's elements.
WidthOK ==
  /\ limit <= MaxSet[width]
  /\ pc # "idle" => limit < MaxData
  /\ pc \in {"redo_store", "find_store", "store"} => limit < MaxSet[width]

KeysOK ==
  /\ \A x, y \in Kept : data[x].key = data[y].key => x = y
  /\ pc \in {"redo_store", "find_store", "store"} => ~ Present(op.key)
  /\ ~ Redoing => inuse = Cardinality(Kept)

SlotsOK ==
  /\ \A s \in 0..(hashsize - 1) : hash[s] <= Filled
  /\ \A s, t \in 0..(hashsize - 1) :
       hash[s] # 0 /\ hash[s] = hash[t] => s = t
  /\ \A x \in (1..Filled) \ erased : Reached(x)

CacheOK == pc \in {"place", "store"} => Finds(op.key, cache)

IInv ==
  TypeOK /\ LocalsOK /\ WidthOK /\ KeysOK /\ SlotsOK /\ CacheOK /\ NoBug

-----------------------------------------------------------------------------
(***************************************************************************)
(* Probing and searching.                                                  *)
(***************************************************************************)

\* Probing stays in the table.
LEMMA SlotRange ==
  ASSUME TypeOK, LocalsOK, NEW k \in Key, NEW c \in Nat
  PROVE  Slot(k, c) \in 0..(hashsize - 1)
  <1>1. Hash[k] \in Nat BY HashVecAssumption
  <1>2. hashsize \in Nat \ {0} BY DEF TypeOK, LocalsOK
  <1> QED BY <1>1, <1>2 DEF Slot

(***************************************************************************)
(* find, when the table is not full: it stops at a slot, at the first that *)
(* is empty or holds a live entry of the key.                              *)
(***************************************************************************)
LEMMA FindStops ==
  ASSUME TypeOK, LocalsOK, NotFull, NEW k \in Key
  PROVE  /\ Finds(k, find(k))
         /\ find(k) \in [idx : Nat, slot : Nat, collisions : Nat]
  <1> DEFINE ends == {c \in 0..(hashsize - 1) : Stops(k, c)}
             least == CHOOSE c \in ends : \A d \in ends : c <= d
  <1>1. hashsize \in Nat \ {0} /\ Hash[k] \in Nat
    BY HashVecAssumption DEF TypeOK, LocalsOK
  <1>2. ends # {}
    <2>1. PICK s \in 0..(hashsize - 1) : hash[s] = 0 BY DEF NotFull
    <2>2. PICK c \in 0..(hashsize - 1) : (Hash[k] + c) % hashsize = s
      BY <1>1, ProbeReaches, Zenon
    <2>3. Stops(k, c) BY <2>1, <2>2 DEF Stops, Slot
    <2> QED BY <2>3
  <1>3. ends \in SUBSET Nat BY <1>1
  <1>4. least \in ends /\ \A d \in ends : least <= d
    <2>1. \E c \in ends : \A d \in ends : c <= d
      <3> HIDE DEF ends
      <3> QED BY <1>2, <1>3, LeastOf
    <2> HIDE DEF ends
    <2> QED BY <2>1, Zenon
  <1>5. find(k) = [idx |-> hash[Slot(k, least)], slot |-> Slot(k, least),
                   collisions |-> least]
    BY <1>2 DEF find
  <1> HIDE DEF least
  <1>6. /\ least \in 0..(hashsize - 1) /\ Stops(k, least)
        /\ \A d \in 0..(least - 1) : ~ Stops(k, d)
    <2>1. least \in 0..(hashsize - 1) /\ Stops(k, least) BY <1>4
    <2>2. ASSUME NEW d \in 0..(least - 1), Stops(k, d) PROVE FALSE
      <3>1. d \in ends BY <1>1, <2>1, <2>2
      <3> QED BY <3>1, <1>4, <2>1, <1>1
    <2> QED BY <2>1, <2>2
  <1>7. Slot(k, least) \in 0..(hashsize - 1)
    BY <1>1, <1>6, SlotRange
  <1>8. hash[Slot(k, least)] \in Nat
    BY <1>7 DEF TypeOK, limit
  <1>9. Finds(k, find(k))
    <2>1. /\ find(k).slot = Slot(k, least)
          /\ find(k).idx = hash[find(k).slot]
      BY <1>5
    <2> QED BY <2>1, <1>6 DEF Finds
  <1> QED BY <1>1, <1>5, <1>6, <1>7, <1>8, <1>9

\* What a cached find says of its slot.
LEMMA FoundSlot ==
  ASSUME TypeOK, LocalsOK, NEW k \in Key, NEW f, Finds(k, f)
  PROVE  /\ f.slot \in 0..(hashsize - 1) /\ f.idx = hash[f.slot]
         /\ hash[f.slot] \in 0..limit
         /\ hash[f.slot] # 0 =>
              hash[f.slot] \notin erased /\ data[hash[f.slot]].key = k
  <1>1. PICK c \in 0..(hashsize - 1) :
          f.slot = Slot(k, c) /\ f.idx = hash[f.slot] /\ Stops(k, c)
    BY DEF Finds
  <1>2. c \in Nat BY DEF TypeOK
  <1>3. f.slot \in 0..(hashsize - 1) BY <1>1, <1>2, SlotRange
  <1>4. hash[f.slot] \in 0..limit BY <1>3 DEF TypeOK
  <1> QED BY <1>1, <1>3, <1>4 DEF Stops

(***************************************************************************)
(* An empty slot found means that no entry of the table has the key: one   *)
(* that had it would be reached through slots that are all taken.          *)
(***************************************************************************)
LEMMA EmptyMeansAbsent ==
  ASSUME TypeOK, LocalsOK, NEW k \in Key, NEW f, Finds(k, f),
         hash[f.slot] = 0,
         NEW x \in (1..limit) \ erased, Reached(x)
  PROVE  data[x].key # k
  <1> SUFFICES ASSUME data[x].key = k PROVE FALSE OBVIOUS
  <1>1. PICK c \in 0..(hashsize - 1) :
          /\ f.slot = Slot(k, c)
          /\ \A d \in 0..(c - 1) : ~ Stops(k, d)
    BY DEF Finds
  <1>2. PICK e \in 0..(hashsize - 1) :
          /\ hash[Slot(k, e)] = x
          /\ \A d \in 0..(e - 1) : hash[Slot(k, d)] \in 1..(x - 1)
    BY DEF Reached
  <1>3. c \in Nat /\ e \in Nat /\ x \in Nat /\ x # 0
    BY DEF TypeOK, limit
  <1>4. CASE e < c
    <2>1. e \in 0..(c - 1) BY <1>3, <1>4
    <2>2. Stops(k, e) BY <1>2 DEF Stops
    <2> QED BY <2>1, <2>2, <1>1
  <1>5. CASE e = c BY <1>1, <1>2, <1>3, <1>5
  <1>6. CASE c < e
    <2>1. c \in 0..(e - 1) BY <1>3, <1>6
    <2>2. hash[Slot(k, c)] \in 1..(x - 1) BY <2>1, <1>2
    <2> QED BY <2>2, <1>1, <1>3
  <1> QED BY <1>3, <1>4, <1>5, <1>6

\* An entry that is reached is found.
LEMMA ReachedIsFound ==
  ASSUME TypeOK, LocalsOK, NEW f,
         NEW x \in (1..limit) \ erased, Reached(x), Finds(data[x].key, f)
  PROVE  hash[f.slot] # 0
  <1>1. data[x] \in Entry BY DEF TypeOK, limit
  <1>2. data[x].key \in Key BY <1>1 DEF Entry
  <1> QED BY <1>2, EmptyMeansAbsent

-----------------------------------------------------------------------------
(***************************************************************************)
(* What a change of the table does to the entries it holds.                *)
(***************************************************************************)

\* An entry is reached as before when no slot of it or of an older one changes.
LEMMA StillReached ==
  ASSUME TypeOK, LocalsOK, NEW x \in 1..limit, Reached(x),
         hashsize' = hashsize, data'[x].key = data[x].key,
         \A s \in 0..(hashsize - 1) : hash[s] \in 1..x => hash'[s] = hash[s]
  PROVE  Reached(x)'
  <1> DEFINE k == data[x].key
  <1>1. PICK c \in 0..(hashsize - 1) :
          /\ hash[Slot(k, c)] = x
          /\ \A d \in 0..(c - 1) : hash[Slot(k, d)] \in 1..(x - 1)
    BY DEF Reached
  <1>2. data[x] \in Entry BY DEF TypeOK, limit
  <1>3. k \in Key BY <1>2 DEF Entry
  <1>4. c \in Nat /\ hashsize \in Nat /\ x \in Nat /\ x # 0
    BY DEF TypeOK, limit
  <1> HIDE DEF k
  <1>5. hash'[Slot(k, c)] = x
    BY <1>1, <1>3, <1>4, SlotRange
  <1>6. ASSUME NEW d \in 0..(c - 1) PROVE hash'[Slot(k, d)] \in 1..(x - 1)
    <2>1. d \in Nat /\ d \in 0..(hashsize - 1) BY <1>4
    <2>2. hash[Slot(k, d)] \in 1..(x - 1) BY <1>1
    <2>3. Slot(k, d) \in 0..(hashsize - 1) BY <2>1, <1>3, SlotRange
    <2>4. hash[Slot(k, d)] \in 1..x BY <2>2, <1>4
    <2> QED BY <2>2, <2>3, <2>4
  <1>7. data'[x].key = k BY DEF k
  <1>8. \E e \in 0..(hashsize' - 1) :
          /\ hash'[(Hash[k] + e) % hashsize'] = x
          /\ \A d \in 0..(e - 1) :
               hash'[(Hash[k] + d) % hashsize'] \in 1..(x - 1)
    BY <1>5, <1>6 DEF Slot
  <1> QED BY <1>7, <1>8 DEF Reached, Slot

(***************************************************************************)
(* Putting the newest entry, x, in the empty slot that find stopped at.    *)
(***************************************************************************)
LEMMA Placed ==
  ASSUME TypeOK, LocalsOK, NEW k \in Key, NEW f, Finds(k, f),
         hash[f.slot] = 0, NEW x \in Nat \ {0},
         \A s \in 0..(hashsize - 1) : hash[s] <= x - 1,
         \A s, t \in 0..(hashsize - 1) :
           hash[s] # 0 /\ hash[s] = hash[t] => s = t,
         hashsize' = hashsize, hash' = [hash EXCEPT ![f.slot] = x],
         data'[x].key = k
  PROVE  /\ hash' \in [0..(hashsize - 1) -> 0..x]
         /\ \A s, t \in 0..(hashsize - 1) :
              hash'[s] # 0 /\ hash'[s] = hash'[t] => s = t
         /\ \A s \in 0..(hashsize - 1) : hash[s] # 0 => hash'[s] = hash[s]
         /\ Reached(x)'
  <1>1. PICK c \in 0..(hashsize - 1) :
          /\ f.slot = Slot(k, c)
          /\ \A d \in 0..(c - 1) : ~ Stops(k, d)
    BY DEF Finds
  <1>2. c \in Nat /\ hashsize \in Nat BY DEF TypeOK
  <1>3. f.slot \in 0..(hashsize - 1) BY FoundSlot
  <1>4. hash \in [0..(hashsize - 1) -> Nat] BY DEF TypeOK, limit
  <1>5. hash' \in [0..(hashsize - 1) -> 0..x] BY <1>3, <1>4
  <1>6. ASSUME NEW s \in 0..(hashsize - 1)
        PROVE  hash'[s] = IF s = f.slot THEN x ELSE hash[s]
    BY <1>4
  <1>7. ASSUME NEW s \in 0..(hashsize - 1), NEW t \in 0..(hashsize - 1),
               hash'[s] # 0, hash'[s] = hash'[t]
        PROVE  s = t
    <2>1. hash[s] \in Nat /\ hash[t] \in Nat BY <1>4
    <2>2. hash[s] <= x - 1 /\ hash[t] <= x - 1 OBVIOUS
    <2> QED BY <1>6, <1>7, <2>1, <2>2
  <1>8. ASSUME NEW s \in 0..(hashsize - 1), hash[s] # 0
        PROVE  hash'[s] = hash[s]
    BY <1>6, <1>8
  <1>9. ASSUME NEW d \in 0..(c - 1)
        PROVE  hash'[Slot(k, d)] \in 1..(x - 1)
    <2>1. d \in Nat /\ d \in 0..(hashsize - 1) BY <1>2
    <2>2. Slot(k, d) \in 0..(hashsize - 1) BY <2>1, SlotRange
    <2>3. hash[Slot(k, d)] # 0 BY <1>1 DEF Stops
    <2>4. hash[Slot(k, d)] \in Nat /\ hash[Slot(k, d)] <= x - 1
      BY <2>2, <1>4
    <2> QED BY <1>8, <2>2, <2>3, <2>4
  <1>10. hash'[Slot(k, c)] = x BY <1>1, <1>3, <1>6
  <1>11. \E e \in 0..(hashsize' - 1) :
          /\ hash'[(Hash[k] + e) % hashsize'] = x
          /\ \A d \in 0..(e - 1) :
               hash'[(Hash[k] + d) % hashsize'] \in 1..(x - 1)
    BY <1>9, <1>10 DEF Slot
  <1>12. Reached(x)' BY <1>11 DEF Reached, Slot
  <1> QED BY <1>5, <1>7, <1>8, <1>12

\* There are finitely many entries.
LEMMA KeptFinite ==
  ASSUME TypeOK
  PROVE  IsFiniteSet(Kept)
  <1>1. 1 \in Int /\ limit \in Int BY DEF TypeOK, limit
  <1>2. IsFiniteSet(1..limit) BY <1>1, FS_Interval
  <1>3. Kept \in SUBSET (1..limit) BY DEF Kept
  <1> QED BY <1>2, <1>3, FS_Subset

-----------------------------------------------------------------------------
(***************************************************************************)
(* What a change of the vector is to the map it implements.                *)
(***************************************************************************)

\* A step of the vector is a step of the map, or none.
MapStep == Map!Next \/ UNCHANGED <<Live, Before>>

\* The same entries at the same places.
LEMMA SameContent ==
  ASSUME Kept' = Kept, \A x \in Kept : data'[x] = data[x]
  PROVE  UNCHANGED <<Live, Before>>
  <1>1. Live' = Live BY DEF Live
  <1>2. Before' = Before BY DEF Before
  <1> QED BY <1>1, <1>2

\* The entries' keys are keys.
LEMMA KeptTyped ==
  ASSUME TypeOK, NEW x \in Kept
  PROVE  /\ data[x] \in Entry /\ data[x].key \in Key /\ data[x].val \in Val
         /\ data[x] = [key |-> data[x].key, val |-> data[x].val]
         /\ x \in Nat /\ x \in 1..limit
  <1>1. x \in 1..limit BY DEF Kept
  <1>2. data[x] \in Entry /\ x \in Nat BY <1>1 DEF TypeOK, limit
  <1> QED BY <1>1, <1>2 DEF Entry

\* The map has the keys of the entries.
LEMMA HasIsPresent == ASSUME NEW k PROVE Map!Has(k) <=> Present(k)
  BY DEF Map!Has, Present, Live

\* A new entry after all others: Add.
LEMMA AddContent ==
  ASSUME TypeOK, NEW n, NEW k \in Key, NEW v \in Val,
         ~ Present(k), Kept' = Kept \cup {n},
         data'[n] = [key |-> k, val |-> v], n \notin Kept, n \in Nat,
         \A x \in Kept : x < n /\ data'[x] = data[x]
  PROVE  Map!Next
  <1> DEFINE e == [key |-> k, val |-> v]
  <1>1. ~ Map!Has(k) BY HasIsPresent
  <1>2. Live' = Live \cup {e} BY DEF Live
  <1>3. Before' = Before \cup {<<f.key, k>> : f \in Live}
    <2>1. ASSUME NEW p \in Before'
          PROVE  p \in Before \cup {<<f.key, k>> : f \in Live}
      <3>1. PICK x \in Kept', y \in Kept' :
              /\ x < y /\ p[1] = data'[x].key /\ p[2] = data'[y].key
              /\ p \in Key \X Key
        BY <2>1 DEF Before
      <3>2. x \in Kept
        <4>1. CASE y = n BY <3>1, <4>1
        <4>2. CASE y \in Kept
          <5>1. y \in Nat /\ y < n BY <4>2, KeptTyped
          <5>2. x # n BY <3>1, <5>1
          <5> QED BY <5>2
        <4> QED BY <4>1, <4>2
      <3>3. CASE y \in Kept BY <3>1, <3>2, <3>3 DEF Before
      <3>4. CASE y = n
        <4>1. p = <<data[x].key, k>> BY <3>1, <3>2, <3>4
        <4> QED BY <4>1, <3>2 DEF Live
      <3> QED BY <3>3, <3>4
    <2>2. ASSUME NEW p \in Before PROVE p \in Before'
      BY <2>2 DEF Before
    <2>3. ASSUME NEW f \in Live PROVE <<f.key, k>> \in Before'
      <3>1. PICK x \in Kept : f = data[x] BY DEF Live
      <3>2. f.key \in Key BY <3>1, KeptTyped
      <3>3. x \in Kept' /\ n \in Kept' /\ x < n
            /\ data'[x].key = f.key /\ data'[n].key = k
        BY <3>1
      <3> QED BY <3>2, <3>3 DEF Before
    <2> QED BY <2>1, <2>2, <2>3
  <1> QED BY <1>1, <1>2, <1>3 DEF Map!Next, Map!Add

\* An entry goes: Delete.
LEMMA DeleteContent ==
  ASSUME TypeOK, KeysOK, NEW x \in Kept, Kept' = Kept \ {x},
         \A y \in Kept \ {x} : data'[y] = data[y]
  PROVE  Map!Next
  <1>1. PICK k : k = data[x].key OBVIOUS
  <1>2. k \in Key BY <1>1, KeptTyped
  <1>3. Map!Has(k) BY <1>1, HasIsPresent DEF Present
  <1>4. \A y \in Kept : data[y].key = k <=> y = x BY <1>1 DEF KeysOK
  <1>5. Live' = {e \in Live : e.key # k} BY <1>4 DEF Live
  <1>6. Before' = {p \in Before : p[1] # k /\ p[2] # k}
    BY <1>4 DEF Before
  <1> QED BY <1>2, <1>3, <1>5, <1>6 DEF Map!Next, Map!Delete, Map!Others

\* An entry gets a new value: Update.
LEMMA UpdateContent ==
  ASSUME TypeOK, KeysOK, NEW x \in Kept, NEW k \in Key, NEW v \in Val,
         k = data[x].key, Kept' = Kept, data'[x] = [key |-> k, val |-> v],
         \A y \in Kept \ {x} : data'[y] = data[y]
  PROVE  Map!Next
  <1> DEFINE e == [key |-> k, val |-> v]
  <1>1. Map!Has(k) BY HasIsPresent DEF Present
  <1>2. \A y \in Kept : data[y].key = k <=> y = x BY DEF KeysOK
  <1>3. Live' = {f \in Live : f.key # k} \cup {e}
    BY <1>2 DEF Live
  <1>4. \A y \in Kept : data'[y].key = data[y].key OBVIOUS
  <1>5. Before' = Before BY <1>4 DEF Before
  <1> QED BY <1>1, <1>3, <1>5 DEF Map!Next, Map!Update, Map!Others

-----------------------------------------------------------------------------
(***************************************************************************)
(* The invariant holds at first, and each step keeps it and is one of the  *)
(* map.                                                                    *)
(***************************************************************************)
LEMMA InitOK == Init => IInv
  <1> SUFFICES ASSUME Init PROVE IInv OBVIOUS
  <1>1. limit = 0 /\ erased = {} /\ Kept = {} /\ ~ Redoing
    BY DEF Init, Kept, limit, Redoing
  <1>2. TypeOK
    BY HashVecAssumption
    DEF Init, TypeOK, limit, Zero, NoOp, NoCache, Entry
  <1>3. LocalsOK BY <1>1, HashVecAssumption DEF Init, LocalsOK, limit
  <1>4. WidthOK
    <2>1. MaxSet[1] \in Nat BY HashVecAssumption
    <2> QED BY <1>1, <2>1 DEF Init, WidthOK
  <1>5. KeysOK BY <1>1, FS_EmptySet DEF Init, KeysOK
  <1>6. SlotsOK BY <1>1 DEF Init, SlotsOK, Filled, Zero
  <1>7. CacheOK /\ NoBug BY DEF Init, CacheOK, NoBug
  <1> QED BY <1>2, <1>3, <1>4, <1>5, <1>6, <1>7 DEF IInv

\* redo_hash begins: nothing is moved, and the table is empty.
LEMMA StartRedoOK ==
  ASSUME IInv, ~ Redoing, NEW n \in Nat \ {0},
         NEW return \in {"redo_place", "redo_store"}, StartRedo(n, return),
         data' = data, inuse' = inuse
  PROVE  /\ LocalsOK' /\ SlotsOK' /\ Kept' = Kept
         /\ hash' \in [0..(hashsize' - 1) -> 0..limit']
         /\ i' \in 1..(limit' + 1) /\ j' \in 0..(i' - 1)
         /\ erased' \subseteq Nat \ {0} /\ was' \subseteq Nat \ {0}
  <1> USE DEF limit, Redoing
  <1>1. limit' = limit /\ limit \in Nat BY DEF IInv, TypeOK
  <1>2. LocalsOK' BY <1>1 DEF IInv, LocalsOK, StartRedo
  <1>3. SlotsOK' BY DEF StartRedo, SlotsOK, Filled, Zero
  <1>4. Kept' = Kept BY <1>1 DEF StartRedo, Kept
  <1>5. hash' \in [0..(hashsize' - 1) -> 0..limit']
    BY <1>1 DEF StartRedo, Zero
  <1>6. i' \in 1..(limit' + 1) /\ j' \in 0..(i' - 1) /\ erased' \subseteq Nat \ {0}
    BY <1>1 DEF StartRedo
  <1>7. was' \subseteq Nat \ {0} BY DEF StartRedo, IInv, TypeOK
  <1> QED BY <1>2, <1>3, <1>4, <1>5, <1>6, <1>7

\* The table is as sound as it was when nothing in it changes.
LEMMA SameSlots ==
  ASSUME SlotsOK, Filled' = Filled, erased' = erased, data' = data,
         hashsize' = hashsize, hash' = hash
  PROVE  SlotsOK'
  BY DEF SlotsOK, Reached, Slot

\* And find finds what it found.
LEMMA SameFinds ==
  ASSUME NEW k, NEW f, erased' = erased, data' = data,
         hashsize' = hashsize, hash' = hash
  PROVE  Finds(k, f)' = Finds(k, f)
  BY DEF Finds, Stops, Slot

\* hv_insert: find, and redo_hash when too many collisions were met.
LEMMA InsertOK ==
  ASSUME IInv, NotFull, NEW k \in Key, NEW v \in Val,
         NEW assign \in BOOLEAN, hv_insert(k, v, assign)
  PROVE  IInv' /\ MapStep
  <1> DEFINE met == (collisions + find(k).collisions) % SizeMod
  <1>1. /\ pc = "idle" /\ limit < MaxData /\ data' = data
        /\ inuse' = inuse /\ width' = width /\ limit' = limit
        /\ op' = [key |-> k, val |-> v, assign |-> assign]
        /\ cache' = find(k)
    BY DEF hv_insert, limit
  <1>2. TypeOK /\ LocalsOK BY DEF IInv
  <1>3. /\ Finds(k, find(k))
        /\ find(k) \in [idx : Nat, slot : Nat, collisions : Nat]
    BY <1>2, FindStops
  <1>4. op' \in [key : Key, val : Val, assign : BOOLEAN] BY <1>1
  <1>5. ~ Redoing BY <1>1 DEF Redoing
  <1>6. limit <= MaxSet[width] BY DEF IInv, WidthOK
  <1>7. CASE met > hashsize \div 2
    <2>1. StartRedo(Expanded, "redo_place") BY <1>7 DEF hv_insert
    <2>2. Expanded \in Nat \ {0}
      BY <1>2 DEF Expanded, TypeOK, LocalsOK
    <2> DEFINE size == Expanded
    <2>3. size \in Nat \ {0} /\ StartRedo(size, "redo_place")
      BY <2>1, <2>2
    <2> HIDE DEF size
    <2>4. /\ LocalsOK' /\ SlotsOK' /\ Kept' = Kept
          /\ hash' \in [0..(hashsize' - 1) -> 0..limit']
          /\ i' \in 1..(limit' + 1) /\ j' \in 0..(i' - 1)
          /\ erased' \subseteq Nat \ {0} /\ was' \subseteq Nat \ {0}
      BY <1>1, <1>5, <2>3, StartRedoOK
    <2>5. /\ pc' = "redo_place" /\ hashsize' \in Nat
          /\ collisions' \in 0..(SizeMod - 1)
      BY <2>3, HashVecAssumption DEF StartRedo
    <2>6. TypeOK'
      BY <1>1, <1>2, <1>3, <1>4, <2>4, <2>5 DEF TypeOK
    <2>7. WidthOK' BY <1>1, <1>6, <2>5 DEF WidthOK
    <2>8. KeysOK'
      BY <1>1, <2>4, <2>5 DEF IInv, KeysOK, Redoing
    <2>9. MapStep BY <1>1, <2>4, SameContent DEF MapStep
    <2> QED BY <2>4, <2>5, <2>6, <2>7, <2>8, <2>9 DEF IInv, CacheOK, NoBug
  <1>8. CASE ~ (met > hashsize \div 2)
    <2>1. /\ pc' = "place" /\ collisions' = met
          /\ erased' = erased /\ hashsize' = hashsize /\ hash' = hash
          /\ i' = i /\ j' = j /\ was' = was
      BY <1>8 DEF hv_insert, redo
    <2>2. met \in 0..(SizeMod - 1)
      <3>1. collisions + find(k).collisions \in Nat BY <1>2, <1>3 DEF TypeOK
      <3>2. SizeMod \in Nat \ {0} BY HashVecAssumption
      <3> QED BY <3>1, <3>2
    <2> HIDE DEF met
    <2>3. TypeOK'
      BY <1>1, <1>2, <1>3, <1>4, <2>1, <2>2 DEF TypeOK
    <2>4. LocalsOK' BY <1>1, <1>2, <2>1 DEF LocalsOK, Redoing
    <2>5. WidthOK' BY <1>1, <1>6, <2>1 DEF WidthOK
    <2>6. Kept' = Kept BY <1>1, <2>1 DEF Kept
    <2>7. KeysOK' BY <1>1, <2>1, <2>6 DEF IInv, KeysOK, Redoing
    <2>8. SlotsOK'
      <3>1. Filled' = Filled BY <1>1, <2>1 DEF Filled, Redoing
      <3> QED BY <1>1, <2>1, <3>1, SameSlots DEF IInv
    <2>9. CacheOK'
      <3>1. PICK f : f = cache' OBVIOUS
      <3>2. Finds(k, f)' BY <1>1, <1>3, <2>1, <3>1, SameFinds
      <3>3. op'.key = k BY <1>1
      <3> QED BY <3>1, <3>2, <3>3 DEF CacheOK, Finds, Stops, Slot
    <2>10. MapStep BY <1>1, <2>6, SameContent DEF MapStep
    <2> QED
      BY <2>1, <2>3, <2>4, <2>5, <2>7, <2>8, <2>9, <2>10 DEF IInv, NoBug
  <1> QED BY <1>7, <1>8

\* redo_hash passes over an erased entry.
LEMMA SkipOK ==
  ASSUME IInv, SkipErased
  PROVE  IInv' /\ MapStep
  <1>1. /\ Redoing /\ i <= limit /\ i \in was /\ i' = i + 1 /\ j' = j
        /\ data' = data /\ erased' = erased /\ inuse' = inuse
        /\ hashsize' = hashsize /\ hash' = hash /\ width' = width
        /\ collisions' = collisions /\ pc' = pc /\ op' = op
        /\ cache' = cache /\ was' = was /\ limit' = limit
    BY DEF SkipErased, Drops, Redoing, table, limit
  <1>2. TypeOK /\ Redoing' BY <1>1 DEF IInv, Redoing
  <1>3. i \in Nat /\ j \in Nat /\ limit \in Nat BY <1>2 DEF TypeOK, limit
  <1>4. TypeOK' BY <1>1, <1>2, <1>3 DEF TypeOK
  <1>5. LocalsOK' /\ WidthOK' /\ NoBug'
    BY <1>1 DEF IInv, LocalsOK, WidthOK, NoBug, Redoing
  <1>6. Kept' = Kept
    BY <1>1, <1>3 DEF Kept, Redoing
  <1>7. KeysOK' BY <1>1, <1>6 DEF IInv, KeysOK, Redoing, Present
  <1>8. Filled' = Filled BY <1>1 DEF Filled, Redoing
  <1>9. SlotsOK' BY <1>1, <1>8, SameSlots DEF IInv
  <1>10. CacheOK' BY <1>2 DEF CacheOK, Redoing
  <1>11. MapStep BY <1>1, <1>6, SameContent DEF MapStep
  <1> QED BY <1>4, <1>5, <1>7, <1>9, <1>10, <1>11 DEF IInv

\* The largest index of the table's elements.
LEMMA MaxSetTyped ==
  ASSUME TypeOK
  PROVE  MaxSet[width] \in Nat
  <1>1. width \in 1..Len(MaxSet) BY DEF TypeOK
  <1>2. MaxSet \in Seq(Nat) BY HashVecAssumption
  <1> QED BY <1>1, <1>2

\* sethash keeps an index that the table's elements can hold.
LEMMA StoredWhole ==
  ASSUME TypeOK, NEW x \in Nat, x <= MaxSet[width]
  PROVE  Stored(x) = x
  <1>1. MaxSet[width] \in Nat BY MaxSetTyped
  <1> QED BY <1>1 DEF Stored

(***************************************************************************)
(* redo_hash moves an entry: it meets no key twice, and the keys of the    *)
(* entries moved and of those still to be moved stay the same.             *)
(***************************************************************************)
LEMMA MoveOK ==
  ASSUME IInv, NotFull, MoveEntry
  PROVE  IInv' /\ MapStep
  <1>1. PICK k, n, m : k = data[i].key /\ n = j + 1 /\ m = i OBVIOUS
  <1>2. PICK f : f = find(k) OBVIOUS
  <1>3. /\ Redoing /\ m <= limit /\ m \notin was
        /\ i' = m + 1 /\ j' = n
        /\ data' = [data EXCEPT ![n] = data[m]]
        /\ hash' = [hash EXCEPT ![f.slot] = Stored(n)]
        /\ collisions' = (collisions + f.collisions) % SizeMod
        /\ pc' = IF f.idx # 0 THEN "bug" ELSE pc
        /\ erased' = erased /\ inuse' = inuse /\ hashsize' = hashsize
        /\ width' = width /\ op' = op /\ cache' = cache /\ was' = was
    BY <1>1, <1>2 DEF MoveEntry, Drops, Redoing
  <1>4. TypeOK /\ LocalsOK /\ WidthOK /\ KeysOK /\ SlotsOK /\ erased = {}
    BY <1>3 DEF IInv, LocalsOK
  <1>5. /\ m \in Nat /\ j \in Nat /\ limit \in Nat /\ m # 0 /\ n <= m
        /\ n \in Nat /\ n # 0 /\ n = j + 1 /\ m = i /\ m \in 1..limit
        /\ n \in 1..limit
    <2>1. limit \in Nat BY <1>4 DEF TypeOK, limit
    <2>2. i \in 1..(limit + 1) /\ j \in 0..(i - 1) BY <1>4 DEF TypeOK
    <2>3. m = i /\ n = j + 1 /\ m <= limit BY <1>1, <1>3
    <2> QED BY <2>1, <2>2, <2>3
  <1>6. data[m] \in Entry /\ data \in Seq(Entry) /\ k = data[m].key
    BY <1>1, <1>4, <1>5 DEF TypeOK, limit
  <1>7. k \in Key BY <1>6 DEF Entry
  <1>8. /\ Finds(k, f) /\ f \in [idx : Nat, slot : Nat, collisions : Nat]
    BY <1>2, <1>4, <1>7, FindStops
  <1>9. /\ f.slot \in 0..(hashsize - 1) /\ f.idx = hash[f.slot]
        /\ hash[f.slot] \in 0..limit
        /\ hash[f.slot] # 0 => data[hash[f.slot]].key = k
    BY <1>4, <1>7, <1>8, FoundSlot
  <1>10. hash[f.slot] = 0
    <2> SUFFICES ASSUME hash[f.slot] # 0 PROVE FALSE OBVIOUS
    <2> DEFINE x == hash[f.slot]
    <2>1. x \in 1..limit /\ x <= j
      BY <1>3, <1>4, <1>5, <1>9 DEF SlotsOK, Filled
    <2>2. x \in Kept /\ m \in Kept
      BY <2>1, <1>3, <1>5 DEF Kept, Redoing
    <2>3. data[x].key = data[m].key BY <1>6, <1>9
    <2>4. x = m
      <3> HIDE DEF x
      <3> QED BY <2>2, <2>3, <1>4 DEF KeysOK
    <2> QED BY <2>1, <2>4, <1>5
  <1>11. pc' = pc /\ Redoing' BY <1>3, <1>9, <1>10 DEF Redoing
  <1>12. Stored(n) = n
    <2>1. limit <= MaxSet[width] /\ MaxSet[width] \in Nat
      BY <1>4, MaxSetTyped DEF WidthOK
    <2> QED BY <2>1, <1>4, <1>5, StoredWhole
  <1>13. /\ limit' = limit /\ data' \in Seq(Entry)
         /\ data'[n] = data[m]
         /\ \A x \in 1..limit : x # n => data'[x] = data[x]
    BY <1>3, <1>5, <1>6 DEF limit
  <1>14. /\ hash' \in [0..(hashsize - 1) -> 0..n]
         /\ \A s, t \in 0..(hashsize - 1) :
              hash'[s] # 0 /\ hash'[s] = hash'[t] => s = t
         /\ \A s \in 0..(hashsize - 1) : hash[s] # 0 => hash'[s] = hash[s]
         /\ Reached(n)'
    <2>1. \A s \in 0..(hashsize - 1) : hash[s] <= n - 1
      BY <1>3, <1>4, <1>5 DEF SlotsOK, Filled
    <2>2. \A s, t \in 0..(hashsize - 1) :
            hash[s] # 0 /\ hash[s] = hash[t] => s = t
      BY <1>4 DEF SlotsOK
    <2>3. data'[n].key = k BY <1>6, <1>13
    <2>4. hash' = [hash EXCEPT ![f.slot] = n] BY <1>3, <1>12
    <2>5. n \in Nat \ {0} /\ hashsize' = hashsize BY <1>3, <1>5
    <2> QED
      BY <1>4, <1>7, <1>8, <1>10, <2>1, <2>2, <2>3, <2>4, <2>5, Placed
  <1>15. TypeOK'
    <2>1. collisions' \in 0..(SizeMod - 1)
      <3>1. collisions + f.collisions \in Nat BY <1>4, <1>8 DEF TypeOK
      <3>2. SizeMod \in Nat \ {0} BY HashVecAssumption
      <3> QED BY <1>3, <3>1, <3>2
    <2>2. hash' \in [0..(hashsize' - 1) -> 0..limit']
      <3>1. 0..n \subseteq 0..limit BY <1>5
      <3> QED BY <1>3, <1>13, <1>14, <3>1
    <2>3. i' \in 1..(limit' + 1) /\ j' \in 0..(i' - 1)
      BY <1>3, <1>5, <1>13
    <2> QED BY <1>3, <1>4, <1>11, <1>13, <2>1, <2>2, <2>3 DEF TypeOK
  <1>16. LocalsOK' /\ WidthOK' /\ CacheOK' /\ NoBug'
    BY <1>3, <1>4, <1>11, <1>13
    DEF LocalsOK, WidthOK, CacheOK, NoBug, Redoing
  \* What was entry m is entry n now.
  <1>17. ASSUME NEW x \in Kept' PROVE
           \E y \in Kept : /\ data'[x] = data[y]
                           /\ y = IF x = n THEN m ELSE x
    <2>1. CASE x = n
      <3>1. m \in Kept BY <1>3, <1>5 DEF Kept, Redoing
      <3> QED BY <2>1, <3>1, <1>13
    <2>2. CASE x # n
      <3>1. x \in 1..limit /\ x \in Nat /\ x \in Kept
        BY <1>3, <1>5, <1>11, <1>13, <1>17, <2>2 DEF Kept, Redoing
      <3> QED BY <2>2, <3>1, <1>13
    <2> QED BY <2>1, <2>2
  <1>18. KeysOK'
    <2>1. ASSUME NEW x \in Kept', NEW y \in Kept',
                 data'[x].key = data'[y].key
          PROVE  x = y
      <3>1. n = m \/ m \notin Kept'
        BY <1>3, <1>5, <1>11, <1>13 DEF Kept, Redoing
      <3> QED BY <2>1, <1>4, <1>17, <3>1 DEF KeysOK
    <2>2. pc = "redo_store" => ~ Present(op.key)' 
      <3> SUFFICES ASSUME pc = "redo_store", NEW x \in Kept',
                          data'[x].key = op.key
                   PROVE  FALSE
        BY <1>3 DEF Present
      <3>1. PICK y \in Kept : data'[x] = data[y] BY <1>17
      <3> QED BY <3>1, <1>4 DEF KeysOK, Present
    <2> QED BY <1>11, <2>1, <2>2 DEF KeysOK, Redoing
  <1>19. SlotsOK'
    <2>1. Filled' = n BY <1>3, <1>11 DEF Filled
    <2>2. \A s \in 0..(hashsize' - 1) : hash'[s] <= n
      BY <1>3, <1>5, <1>14
    <2>3. ASSUME NEW x \in 1..n PROVE Reached(x)'
      <3>1. CASE x = n BY <1>14, <3>1
      <3>2. CASE x # n
        <4>1. x \in 1..limit /\ x \in 1..j /\ x \in Nat
          BY <1>5, <3>2
        <4>2. Reached(x) BY <4>1, <1>3, <1>4 DEF SlotsOK, Filled
        <4>3. data'[x].key = data[x].key BY <4>1, <3>2, <1>13
        <4>4. \A s \in 0..(hashsize - 1) :
                hash[s] \in 1..x => hash'[s] = hash[s]
          BY <1>14
        <4> QED BY <1>3, <1>4, <4>1, <4>2, <4>3, <4>4, StillReached
      <3> QED BY <3>1, <3>2
    <2> QED BY <1>3, <1>14, <2>1, <2>2, <2>3 DEF SlotsOK
  <1>20. ASSUME NEW y \in Kept PROVE
           \E x \in Kept' : /\ data'[x] = data[y]
                            /\ x = IF y = m THEN n ELSE y
    <2>1. y \in 1..limit /\ y \in Nat BY <1>5 DEF Kept
    <2>2. y = m \/ y < n \/ y > m
      BY <1>3, <1>5, <2>1 DEF Kept, Redoing
    <2>3. CASE y = m
      <3>1. n \in Kept' BY <1>3, <1>5, <1>11, <1>13 DEF Kept, Redoing
      <3> QED BY <2>3, <3>1, <1>13
    <2>4. CASE y # m
      <3>1. y \in Kept' /\ y # n
        BY <1>3, <1>5, <1>11, <1>13, <2>1, <2>2, <2>4 DEF Kept, Redoing
      <3> QED BY <2>1, <2>4, <3>1, <1>13
    <2> QED BY <2>3, <2>4
  <1>21. Live' = Live BY <1>17, <1>20 DEF Live
  <1>22. Before' = Before
    <2>1. \A x \in Kept' : x \in Nat /\ (x < n \/ x = n \/ x > m)
      BY <1>3, <1>5, <1>11, <1>13 DEF Kept, Redoing
    <2>2. \A y \in Kept : y \in Nat /\ (y < n \/ y = m \/ y > m)
      BY <1>3, <1>5 DEF Kept, Redoing
    <2>3. ASSUME NEW p \in Before' PROVE p \in Before
      <3>1. PICK x \in Kept', y \in Kept' :
              /\ x < y /\ p[1] = data'[x].key /\ p[2] = data'[y].key
              /\ p \in Key \X Key
        BY <2>3 DEF Before
      <3>2. PICK a \in Kept : data'[x] = data[a] /\ a = IF x = n THEN m ELSE x
        BY <1>17
      <3>3. PICK b \in Kept : data'[y] = data[b] /\ b = IF y = n THEN m ELSE y
        BY <1>17
      <3>4. a < b
        <4>1. x \in Nat /\ (x < n \/ x = n \/ x > m) BY <2>1
        <4>2. y \in Nat /\ (y < n \/ y = n \/ y > m) BY <2>1
        <4>3. m \in Nat /\ n \in Nat /\ n <= m /\ x < y BY <1>5, <3>1
        <4>4. a = (IF x = n THEN m ELSE x) /\ b = (IF y = n THEN m ELSE y)
          BY <3>2, <3>3
        <4> QED BY <4>1, <4>2, <4>3, <4>4
      <3> QED BY <3>1, <3>2, <3>3, <3>4 DEF Before
    <2>4. ASSUME NEW p \in Before PROVE p \in Before'
      <3>1. PICK x \in Kept, y \in Kept :
              /\ x < y /\ p[1] = data[x].key /\ p[2] = data[y].key
              /\ p \in Key \X Key
        BY <2>4 DEF Before
      <3>2. PICK a \in Kept' : data'[a] = data[x] /\ a = IF x = m THEN n ELSE x
        BY <1>20
      <3>3. PICK b \in Kept' : data'[b] = data[y] /\ b = IF y = m THEN n ELSE y
        BY <1>20
      <3>4. a < b
        <4>1. x \in Nat /\ (x < n \/ x = m \/ x > m) BY <2>2
        <4>2. y \in Nat /\ (y < n \/ y = m \/ y > m) BY <2>2
        <4>3. m \in Nat /\ n \in Nat /\ n <= m /\ x < y BY <1>5, <3>1
        <4>4. a = (IF x = m THEN n ELSE x) /\ b = (IF y = m THEN n ELSE y)
          BY <3>2, <3>3
        <4> QED BY <4>1, <4>2, <4>3, <4>4
      <3> QED BY <3>1, <3>2, <3>3, <3>4 DEF Before
    <2> QED BY <2>3, <2>4
  <1> QED BY <1>15, <1>16, <1>18, <1>19, <1>21, <1>22 DEF IInv, MapStep

\* redo_hash returns: what it moved is all there is, unmarked.
LEMMA EndRedoOK ==
  ASSUME IInv, EndRedo
  PROVE  IInv' /\ MapStep
  <1>1. PICK n : n = j OBVIOUS
  <1>2. /\ Redoing /\ i > limit /\ data' = SubSeq(data, 1, n) /\ inuse' = n
        /\ pc' = IF pc = "redo_place" THEN "find_place" ELSE "find_store"
        /\ i' = 1 /\ j' = 0 /\ was' = {} /\ erased' = erased
        /\ hashsize' = hashsize /\ hash' = hash /\ width' = width
        /\ collisions' = collisions /\ op' = op /\ cache' = cache
    BY <1>1 DEF EndRedo, table, Redoing
  <1>3. TypeOK /\ LocalsOK /\ WidthOK /\ KeysOK /\ SlotsOK /\ erased = {}
    BY <1>2 DEF IInv, LocalsOK
  <1>4. /\ limit \in Nat /\ n \in Nat /\ n <= limit /\ n = j
        /\ data \in Seq(Entry)
    <2>1. limit \in Nat /\ data \in Seq(Entry) BY <1>3 DEF TypeOK, limit
    <2>2. i \in 1..(limit + 1) /\ j \in 0..(i - 1) BY <1>3 DEF TypeOK
    <2> QED BY <2>1, <2>2, <1>1, <1>2
  <1>5. /\ data' \in Seq(Entry) /\ limit' = n
        /\ \A x \in 1..n : data'[x] = data[x]
    BY <1>2, <1>4 DEF limit
  <1>6. ~ Redoing' /\ pc' \in {"find_place", "find_store"}
    BY <1>2 DEF Redoing
  <1>7. Kept' = 1..n /\ Kept = 1..n
    <2>1. Kept' = 1..n BY <1>2, <1>3, <1>5, <1>6 DEF Kept, Redoing
    <2>2. Kept = 1..n
      <3>1. i \in Nat BY <1>3 DEF TypeOK
      <3> QED BY <1>2, <1>4, <3>1 DEF Kept, Redoing
    <2> QED BY <2>1, <2>2
  <1>8. TypeOK'
    <2>1. hash' \in [0..(hashsize' - 1) -> 0..limit']
      <3>1. \A s \in 0..(hashsize - 1) : hash[s] <= n
        BY <1>2, <1>3, <1>4 DEF SlotsOK, Filled
      <3>2. hash \in [0..(hashsize - 1) -> 0..limit] BY <1>3 DEF TypeOK
      <3>3. \A s \in 0..(hashsize - 1) : hash[s] \in 0..n
        BY <3>1, <3>2, <1>4
      <3> QED BY <3>2, <3>3, <1>2, <1>5
    <2>2. inuse' \in 0..limit' /\ i' \in 1..(limit' + 1) /\ j' \in 0..(i' - 1)
      BY <1>2, <1>4, <1>5
    <2> QED BY <1>2, <1>3, <1>5, <1>6, <2>1, <2>2 DEF TypeOK
  <1>9. LocalsOK' BY <1>2, <1>3, <1>6 DEF LocalsOK
  <1>10. WidthOK'
    <2>1. MaxSet[width] \in Nat /\ MaxData \in Nat
      <3>1. width \in 1..Len(MaxSet) BY <1>3 DEF TypeOK
      <3> QED BY <3>1, HashVecAssumption
    <2>2. pc # "idle" BY <1>2 DEF Redoing
    <2> QED BY <1>2, <1>3, <1>4, <1>5, <2>1, <2>2 DEF WidthOK, Redoing
  <1>11. KeysOK'
    <2>1. Cardinality(Kept') = n BY <1>4, <1>7, FS_Interval
    <2>2. ASSUME NEW x \in Kept', NEW y \in Kept',
                 data'[x].key = data'[y].key
          PROVE  x = y
      BY <1>3, <1>5, <1>7, <2>2 DEF KeysOK
    <2>3. pc' = "find_store" => ~ Present(op.key)'
      <3> SUFFICES ASSUME pc' = "find_store", NEW x \in Kept',
                          data'[x].key = op.key
                   PROVE  FALSE
        BY <1>2 DEF Present
      <3>1. pc = "redo_store" BY <1>2 DEF Redoing
      <3> QED BY <3>1, <1>3, <1>5, <1>7 DEF KeysOK, Present
    <2> QED BY <1>2, <1>6, <2>1, <2>2, <2>3 DEF KeysOK
  <1>12. SlotsOK'
    <2>1. Filled' = n /\ Filled = n BY <1>2, <1>4, <1>5, <1>6 DEF Filled
    <2>2. ASSUME NEW x \in 1..n PROVE Reached(x)'
      <3>1. x \in 1..limit /\ data'[x].key = data[x].key BY <1>4, <1>5
      <3>2. Reached(x) BY <1>3, <2>1 DEF SlotsOK
      <3> QED BY <1>2, <1>3, <3>1, <3>2, StillReached
    <2> QED BY <1>2, <1>3, <2>1, <2>2 DEF SlotsOK
  <1>13. CacheOK' /\ NoBug' BY <1>6 DEF CacheOK, NoBug
  <1>14. MapStep BY <1>5, <1>7, SameContent DEF MapStep
  <1> QED BY <1>8, <1>9, <1>10, <1>11, <1>12, <1>13, <1>14 DEF IInv

\* hv_insert looks for the key again, in the new table.
LEMMA FindAgainOK ==
  ASSUME IInv, NotFull, FindAgain
  PROVE  IInv' /\ MapStep
  <1>1. PICK k, f : k = op.key /\ f = find(k) OBVIOUS
  <1>2. /\ pc \in {"find_place", "find_store"} /\ cache' = f
        /\ pc' = IF pc = "find_place" THEN "place" ELSE "store"
        /\ data' = data /\ erased' = erased /\ inuse' = inuse
        /\ hashsize' = hashsize /\ hash' = hash /\ width' = width
        /\ collisions' = collisions /\ op' = op
        /\ i' = i /\ j' = j /\ was' = was /\ limit' = limit
    BY <1>1 DEF FindAgain, table, redo, limit
  <1>3. TypeOK /\ LocalsOK /\ WidthOK /\ KeysOK /\ SlotsOK BY DEF IInv
  <1>4. k \in Key BY <1>1, <1>3 DEF TypeOK
  <1>5. Finds(k, f) /\ f \in [idx : Nat, slot : Nat, collisions : Nat]
    BY <1>1, <1>3, <1>4, FindStops
  <1>6. ~ Redoing /\ ~ Redoing' BY <1>2 DEF Redoing
  <1>7. TypeOK' BY <1>2, <1>3, <1>5 DEF TypeOK
  <1>8. LocalsOK' BY <1>2, <1>3, <1>6 DEF LocalsOK
  <1>9. WidthOK' BY <1>2, <1>3 DEF WidthOK
  <1>10. Kept' = Kept BY <1>2 DEF Kept
  <1>11. KeysOK' BY <1>2, <1>3, <1>6, <1>10 DEF KeysOK, Present
  <1>12. SlotsOK'
    <2>1. Filled' = Filled BY <1>2, <1>6 DEF Filled
    <2> QED BY <1>2, <1>3, <2>1, SameSlots
  <1>13. CacheOK'
    <2>1. Finds(k, f)' BY <1>2, <1>5, SameFinds
    <2>2. op'.key = k /\ cache' = f BY <1>1, <1>2
    <2> QED BY <2>1, <2>2 DEF CacheOK, Finds, Stops, Slot
  <1>14. NoBug' BY <1>2 DEF NoBug
  <1>15. MapStep BY <1>2, <1>10, SameContent DEF MapStep
  <1> QED BY <1>7, <1>8, <1>9, <1>11, <1>12, <1>13, <1>14, <1>15 DEF IInv

(***************************************************************************)
(* The slot is empty: the key is absent, and redo_hash makes room for it   *)
(* where the table or its elements are too small.                          *)
(***************************************************************************)
LEMMA PlaceNewOK ==
  ASSUME IInv, PlaceNew
  PROVE  IInv' /\ MapStep
  <1>1. PICK k, f : k = op.key /\ f = cache OBVIOUS
  <1>2. /\ pc = "place" /\ hash[f.slot] = 0 /\ data' = data
        /\ inuse' = inuse /\ op' = op /\ cache' = cache /\ limit' = limit
    BY <1>1 DEF PlaceNew, limit
  <1>3. TypeOK /\ LocalsOK /\ WidthOK /\ KeysOK /\ SlotsOK BY DEF IInv
  <1>4. k \in Key BY <1>1, <1>3 DEF TypeOK
  <1>5. Finds(k, f) /\ ~ Redoing BY <1>1, <1>2 DEF IInv, CacheOK, Redoing
  <1>6. ~ Present(k)
    <2> SUFFICES ASSUME NEW x \in Kept, data[x].key = k PROVE FALSE
      BY DEF Present
    <2>1. x \in (1..limit) \ erased BY <1>5 DEF Kept, Redoing
    <2>2. Reached(x) BY <2>1, <1>3, <1>5 DEF SlotsOK, Filled
    <2> QED BY <1>2, <1>3, <1>4, <1>5, <2>1, <2>2, EmptyMeansAbsent
  <1>7. /\ MaxSet[width] \in Nat /\ limit \in Nat /\ width \in 1..Len(MaxSet)
        /\ limit < MaxData /\ MaxData \in Nat /\ limit <= MaxSet[width]
        /\ Len(MaxSet) \in Nat /\ hashsize \in Nat
    <2>1. width \in 1..Len(MaxSet) /\ limit \in Nat /\ hashsize \in Nat
      BY <1>3 DEF TypeOK, limit
    <2>2. limit < MaxData /\ limit <= MaxSet[width]
      BY <1>2, <1>3 DEF WidthOK
    <2>3. MaxSet \in Seq(Nat) /\ MaxData \in Nat BY HashVecAssumption
    <2> QED BY <2>1, <2>2, <2>3
  <1>8. ~ (TooNarrow /\ width = Len(MaxSet))
    BY <1>7, HashVecAssumption DEF TooNarrow
  <1>9. CASE limit >= hashsize \/ TooNarrow
    <2>1. PICK n, w : /\ n = IF limit >= hashsize THEN 2 * hashsize + 1
                                                  ELSE hashsize
                      /\ w = IF TooNarrow THEN width + 1 ELSE width
      OBVIOUS
    <2>2. width' = w /\ StartRedo(n, "redo_store")
      BY <1>8, <1>9, <2>1 DEF PlaceNew
    <2>3. n \in Nat \ {0} BY <1>3, <1>7, <2>1 DEF LocalsOK
    <2>4. /\ LocalsOK' /\ SlotsOK' /\ Kept' = Kept
          /\ hash' \in [0..(hashsize' - 1) -> 0..limit']
          /\ i' \in 1..(limit' + 1) /\ j' \in 0..(i' - 1)
          /\ erased' \subseteq Nat \ {0} /\ was' \subseteq Nat \ {0}
      BY <1>2, <1>5, <2>2, <2>3, StartRedoOK
    <2>5. /\ pc' = "redo_store" /\ hashsize' \in Nat
          /\ collisions' \in 0..(SizeMod - 1)
      BY <2>2, <2>3, HashVecAssumption DEF StartRedo
    <2>6. w \in 1..Len(MaxSet) /\ limit < MaxSet[w]
      <3>1. CASE TooNarrow
        <4>1. width \in 1..(Len(MaxSet) - 1) /\ w = width + 1
          BY <1>7, <1>8, <2>1, <3>1
        <4>2. /\ MaxSet[width] < MaxSet[width + 1]
              /\ MaxSet[width + 1] \in Nat
          BY <4>1, <1>7, HashVecAssumption
        <4> QED BY <1>7, <4>1, <4>2
      <3>2. CASE ~ TooNarrow BY <1>7, <2>1, <3>2 DEF TooNarrow
      <3> QED BY <3>1, <3>2
    <2>7. TypeOK' BY <1>2, <1>3, <2>2, <2>4, <2>5, <2>6 DEF TypeOK
    <2>8. WidthOK'
      <3>1. MaxSet[w] \in Nat BY <2>6, HashVecAssumption
      <3> QED BY <1>2, <1>7, <2>2, <2>5, <2>6, <3>1 DEF WidthOK
    <2>9. KeysOK'
      <3>1. Redoing' BY <2>5 DEF Redoing
      <3>2. ~ Present(op.key)' BY <1>1, <1>2, <1>6, <2>4 DEF Present
      <3> QED BY <1>2, <1>3, <2>4, <3>1, <3>2 DEF KeysOK
    <2>10. MapStep BY <1>2, <2>4, SameContent DEF MapStep
    <2> QED BY <2>4, <2>5, <2>7, <2>8, <2>9, <2>10 DEF IInv, CacheOK, NoBug
  <1>10. CASE ~ (limit >= hashsize \/ TooNarrow)
    <2>1. /\ pc' = "store" /\ erased' = erased /\ hashsize' = hashsize
          /\ hash' = hash /\ collisions' = collisions /\ width' = width
          /\ i' = i /\ j' = j /\ was' = was
      BY <1>10 DEF PlaceNew, table, redo
    <2>2. TypeOK' BY <1>2, <1>3, <2>1 DEF TypeOK
    <2>3. ~ Redoing' BY <2>1 DEF Redoing
    <2>4. LocalsOK' BY <1>2, <1>3, <1>5, <2>1, <2>3 DEF LocalsOK
    <2>5. WidthOK' BY <1>2, <1>7, <1>10, <2>1 DEF WidthOK, TooNarrow
    <2>6. Kept' = Kept BY <1>2, <2>1 DEF Kept
    <2>7. KeysOK'
      BY <1>1, <1>2, <1>3, <1>5, <1>6, <2>3, <2>6 DEF KeysOK, Present
    <2>8. SlotsOK'
      <3>1. Filled' = Filled BY <1>2, <1>5, <2>3 DEF Filled
      <3> QED BY <1>2, <1>3, <2>1, <3>1, SameSlots
    <2>9. CacheOK'
      <3>1. Finds(k, f)' BY <1>2, <1>5, <2>1, SameFinds
      <3>2. op'.key = k /\ cache' = f BY <1>1, <1>2
      <3> QED BY <3>1, <3>2 DEF CacheOK, Finds, Stops, Slot
    <2>10. MapStep BY <1>2, <2>6, SameContent DEF MapStep
    <2> QED
      BY <2>1, <2>2, <2>4, <2>5, <2>7, <2>8, <2>9, <2>10 DEF IInv, NoBug
  <1> QED BY <1>9, <1>10

\* hv_insert ends at the entry of the key, which is live.
LEMMA PlaceOldOK ==
  ASSUME IInv, PlaceOld
  PROVE  IInv' /\ MapStep
  <1>1. PICK k, f, x : k = op.key /\ f = cache /\ x = hash[f.slot] OBVIOUS
  <1>2. /\ pc = "place" /\ x # 0
        /\ inuse' = IF x \in erased THEN inuse + 1 ELSE inuse
        /\ data' = IF x \in erased \/ op.assign
                   THEN [data EXCEPT ![x] = [key |-> k, val |-> op.val]]
                   ELSE data
        /\ erased' = erased \ {x}
        /\ pc' = "idle" /\ op' = NoOp /\ cache' = NoCache
        /\ hashsize' = hashsize /\ hash' = hash /\ width' = width
        /\ collisions' = collisions /\ i' = i /\ j' = j /\ was' = was
    BY <1>1 DEF PlaceOld, Return, table, redo
  <1>3. TypeOK /\ LocalsOK /\ WidthOK /\ KeysOK /\ SlotsOK BY DEF IInv
  <1>4. k \in Key /\ op.val \in Val BY <1>1, <1>3 DEF TypeOK
  <1>5. Finds(k, f) /\ ~ Redoing /\ ~ Redoing'
    BY <1>1, <1>2 DEF IInv, CacheOK, Redoing
  <1>6. x \in 1..limit /\ x \notin erased /\ data[x].key = k
    <2>1. /\ hash[f.slot] \in 0..limit
          /\ hash[f.slot] # 0 =>
               hash[f.slot] \notin erased /\ data[hash[f.slot]].key = k
      BY <1>3, <1>4, <1>5, FoundSlot
    <2>2. limit \in Nat BY <1>3 DEF TypeOK, limit
    <2> QED BY <1>1, <1>2, <2>1, <2>2
  <1>7. erased' = erased /\ inuse' = inuse BY <1>2, <1>6
  <1>8. /\ data' \in Seq(Entry) /\ limit' = limit
        /\ \A y \in 1..limit : data'[y].key = data[y].key
    <2>1. data \in Seq(Entry) BY <1>3 DEF TypeOK
    <2>2. [key |-> k, val |-> op.val] \in Entry BY <1>4 DEF Entry
    <2>3. CASE op.assign
      BY <1>2, <1>6, <2>1, <2>2, <2>3 DEF limit
    <2>4. CASE ~ op.assign BY <1>2, <1>6, <2>1, <2>4 DEF limit
    <2> QED BY <2>3, <2>4
  <1>9. TypeOK'
    <2>1. op' \in [key : Key, val : Val, assign : BOOLEAN]
      BY <1>2, HashVecAssumption DEF NoOp
    <2>2. cache' \in [idx : Nat, slot : Nat, collisions : Nat]
      BY <1>2 DEF NoCache
    <2> QED BY <1>2, <1>3, <1>7, <1>8, <2>1, <2>2 DEF TypeOK
  <1>10. LocalsOK' BY <1>2, <1>3, <1>5, <1>7, <1>8 DEF LocalsOK
  <1>11. WidthOK' BY <1>2, <1>3, <1>8 DEF WidthOK
  <1>12. Kept' = Kept BY <1>2, <1>7, <1>8 DEF Kept
  <1>13. KeysOK'
    <2>1. Kept \subseteq 1..limit BY DEF Kept
    <2>2. \A y, z \in Kept : data'[y].key = data'[z].key => y = z
      BY <1>3, <1>8, <2>1 DEF KeysOK
    <2>3. inuse = Cardinality(Kept) BY <1>3, <1>5 DEF KeysOK
    <2> QED BY <1>2, <1>7, <1>12, <2>2, <2>3 DEF KeysOK
  <1>14. SlotsOK'
    <2>1. Filled' = limit /\ Filled = limit BY <1>5, <1>8 DEF Filled
    <2>2. ASSUME NEW y \in (1..limit) \ erased PROVE Reached(y)'
      <3>1. Reached(y) BY <1>3, <2>1 DEF SlotsOK
      <3> QED BY <1>2, <1>3, <1>8, <3>1, StillReached
    <2> QED BY <1>2, <1>3, <1>7, <2>1, <2>2 DEF SlotsOK
  <1>15. CacheOK' /\ NoBug' BY <1>2 DEF CacheOK, NoBug
  <1>16. MapStep
    <2>1. x \in Kept BY <1>5, <1>6 DEF Kept, Redoing
    <2>2. Kept \subseteq 1..limit BY DEF Kept
    <2>3. CASE op.assign
      <3>1. data' = [data EXCEPT ![x] = [key |-> k, val |-> op.val]]
        BY <1>2, <2>3
      <3>2. PICK v \in Val : v = op.val BY <1>4
      <3>3. data \in Seq(Entry) BY <1>3 DEF TypeOK
      <3>4. data'[x] = [key |-> k, val |-> v] BY <1>6, <3>1, <3>2, <3>3 DEF limit
      <3>5. \A y \in Kept \ {x} : data'[y] = data[y]
        BY <2>2, <3>1, <3>3 DEF limit
      <3> QED
        BY <1>3, <1>4, <1>6, <1>12, <2>1, <3>4, <3>5, UpdateContent
        DEF MapStep
    <2>4. CASE ~ op.assign
      <3>1. data' = data BY <1>2, <1>6, <2>4
      <3> QED BY <1>12, <3>1, SameContent DEF MapStep
    <2> QED BY <2>3, <2>4
  <1> QED BY <1>9, <1>10, <1>11, <1>13, <1>14, <1>15, <1>16 DEF IInv

\* hv_insert appends the entry, and its slot is the last of its chain.
LEMMA StoreOK ==
  ASSUME IInv, Store
  PROVE  IInv' /\ MapStep
  <1>1. PICK k, f, n, e :
          /\ k = op.key /\ f = cache /\ n = limit + 1
          /\ e = [key |-> op.key, val |-> op.val]
    OBVIOUS
  <1>2. /\ pc = "store" /\ hash' = [hash EXCEPT ![f.slot] = Stored(n)]
        /\ inuse' = inuse + 1 /\ data' = Append(data, e)
        /\ pc' = "idle" /\ op' = NoOp /\ cache' = NoCache
        /\ erased' = erased /\ hashsize' = hashsize /\ width' = width
        /\ collisions' = collisions /\ i' = i /\ j' = j /\ was' = was
    BY <1>1 DEF Store, Return, redo
  <1>3. TypeOK /\ LocalsOK /\ WidthOK /\ KeysOK /\ SlotsOK BY DEF IInv
  <1>4. k \in Key /\ e \in Entry /\ e.key = k
    BY <1>1, <1>3 DEF TypeOK, Entry
  <1>5. Finds(k, f) /\ ~ Redoing /\ ~ Redoing'
    BY <1>1, <1>2 DEF IInv, CacheOK, Redoing
  <1>6. limit \in Nat /\ n \in Nat \ {0} /\ n = limit + 1
    BY <1>1, <1>3 DEF TypeOK, limit
  <1>7. hash[f.slot] = 0
    <2> SUFFICES ASSUME hash[f.slot] # 0 PROVE FALSE OBVIOUS
    <2> DEFINE x == hash[f.slot]
    <2>1. x \in 0..limit /\ x \notin erased /\ data[x].key = k
      BY <1>3, <1>4, <1>5, FoundSlot
    <2>2. x \in Kept BY <1>5, <1>6, <2>1 DEF Kept, Redoing
    <2> HIDE DEF x
    <2> QED BY <1>1, <1>2, <1>3, <2>1, <2>2 DEF KeysOK, Present
  <1>8. Stored(n) = n
    <2>1. limit < MaxSet[width] BY <1>2, <1>3 DEF WidthOK
    <2>2. width \in 1..Len(MaxSet) BY <1>3 DEF TypeOK
    <2>3. MaxSet[width] \in Nat BY <2>2, HashVecAssumption
    <2>4. n <= MaxSet[width] BY <1>6, <2>1, <2>3
    <2> QED BY <1>3, <1>6, <2>4, StoredWhole
  <1>9. /\ data' \in Seq(Entry) /\ limit' = n /\ data'[n] = e
        /\ \A x \in 1..limit : data'[x] = data[x]
    <2>1. data \in Seq(Entry) BY <1>3 DEF TypeOK
    <2> QED BY <1>2, <1>4, <1>6, <2>1 DEF limit
  <1>10. /\ hash' \in [0..(hashsize - 1) -> 0..n]
         /\ \A s, t \in 0..(hashsize - 1) :
              hash'[s] # 0 /\ hash'[s] = hash'[t] => s = t
         /\ \A s \in 0..(hashsize - 1) : hash[s] # 0 => hash'[s] = hash[s]
         /\ Reached(n)'
    <2>1. \A s \in 0..(hashsize - 1) : hash[s] <= n - 1
      BY <1>3, <1>5, <1>6 DEF SlotsOK, Filled
    <2>2. \A s, t \in 0..(hashsize - 1) :
            hash[s] # 0 /\ hash[s] = hash[t] => s = t
      BY <1>3 DEF SlotsOK
    <2>3. data'[n].key = k BY <1>4, <1>9
    <2>4. hash' = [hash EXCEPT ![f.slot] = n] BY <1>2, <1>8
    <2>5. n \in Nat \ {0} /\ hashsize' = hashsize BY <1>2, <1>6
    <2> QED
      BY <1>3, <1>4, <1>5, <1>7, <2>1, <2>2, <2>3, <2>4, <2>5, Placed
  <1>11. Kept' = Kept \cup {n} /\ n \notin Kept /\ Kept \subseteq 1..limit
    <2>1. n \notin erased BY <1>3, <1>6 DEF LocalsOK
    <2>2. Kept' = {x \in 1..n : x \notin erased}
      BY <1>2, <1>5, <1>9 DEF Kept, Redoing
    <2>3. Kept = {x \in 1..limit : x \notin erased}
      BY <1>5 DEF Kept, Redoing
    <2> QED BY <1>6, <2>1, <2>2, <2>3
  <1>12. TypeOK'
    <2>1. op' \in [key : Key, val : Val, assign : BOOLEAN]
      BY <1>2, HashVecAssumption DEF NoOp
    <2>2. cache' \in [idx : Nat, slot : Nat, collisions : Nat]
      BY <1>2 DEF NoCache
    <2>3. /\ inuse' \in 0..limit' /\ i' \in 1..(limit' + 1)
          /\ j' \in 0..(i' - 1)
      BY <1>2, <1>3, <1>6, <1>9 DEF TypeOK
    <2>4. hash' \in [0..(hashsize' - 1) -> 0..limit'] BY <1>2, <1>9, <1>10
    <2> QED BY <1>2, <1>3, <1>9, <2>1, <2>2, <2>3, <2>4 DEF TypeOK
  <1>13. LocalsOK'
    <2>1. 1..limit \subseteq 1..n BY <1>6
    <2> QED BY <1>2, <1>3, <1>5, <1>9, <2>1 DEF LocalsOK
  <1>14. WidthOK'
    <2>1. limit < MaxSet[width] BY <1>2, <1>3 DEF WidthOK
    <2>2. width \in 1..Len(MaxSet) BY <1>3 DEF TypeOK
    <2>3. MaxSet[width] \in Nat BY <2>2, HashVecAssumption
    <2> QED BY <1>2, <1>6, <1>9, <2>1, <2>3 DEF WidthOK
  <1>15. KeysOK'
    <2>1. \A x \in Kept : data'[x] = data[x] /\ data[x].key # k
      BY <1>1, <1>2, <1>3, <1>9, <1>11 DEF KeysOK, Present
    <2>2. \A x, y \in Kept' : data'[x].key = data'[y].key => x = y
      <3>1. data'[n].key = k BY <1>4, <1>9
      <3>2. \A x, y \in Kept : data[x].key = data[y].key => x = y
        BY <1>3 DEF KeysOK
      <3> QED BY <1>11, <2>1, <3>1, <3>2
    <2>3. inuse' = Cardinality(Kept')
      <3>1. IsFiniteSet(Kept) BY <1>3, KeptFinite
      <3>2. Cardinality(Kept \cup {n}) = Cardinality(Kept) + 1
        BY <3>1, <1>11, FS_AddElement
      <3>3. inuse = Cardinality(Kept) BY <1>3, <1>5 DEF KeysOK
      <3> QED BY <1>2, <1>11, <3>2, <3>3
    <2> QED BY <1>2, <2>2, <2>3 DEF KeysOK
  <1>16. SlotsOK'
    <2>1. Filled' = n /\ Filled = limit BY <1>5, <1>9 DEF Filled
    <2>2. \A s \in 0..(hashsize' - 1) : hash'[s] <= n
      BY <1>2, <1>6, <1>10
    <2>3. ASSUME NEW x \in (1..n) \ erased PROVE Reached(x)'
      <3>1. CASE x = n BY <1>10, <3>1
      <3>2. CASE x # n
        <4>1. x \in 1..limit BY <1>6, <3>2
        <4>2. Reached(x) BY <4>1, <1>3, <2>1 DEF SlotsOK
        <4>3. data'[x].key = data[x].key BY <4>1, <1>9
        <4>4. \A s \in 0..(hashsize - 1) :
                hash[s] \in 1..x => hash'[s] = hash[s]
          BY <1>10
        <4> QED BY <1>2, <1>3, <4>1, <4>2, <4>3, <4>4, StillReached
      <3> QED BY <3>1, <3>2
    <2> QED BY <1>2, <1>10, <2>1, <2>2, <2>3 DEF SlotsOK
  <1>17. CacheOK' /\ NoBug' BY <1>2 DEF CacheOK, NoBug
  <1>18. MapStep
    <2>1. ~ Present(k) BY <1>1, <1>2, <1>3 DEF KeysOK
    <2>2. PICK v \in Val : v = op.val BY <1>3 DEF TypeOK
    <2>3. data'[n] = [key |-> k, val |-> v] BY <1>1, <1>9, <2>2
    <2>4. ASSUME NEW x \in Kept PROVE x < n /\ data'[x] = data[x]
      <3>1. x \in 1..limit BY <1>11
      <3> QED BY <3>1, <1>6, <1>9
    <2>5. n \in Nat /\ n \notin Kept /\ Kept' = Kept \cup {n} BY <1>6, <1>11
    <2> QED BY <1>3, <1>4, <2>1, <2>3, <2>4, <2>5, AddContent DEF MapStep
  <1> QED BY <1>12, <1>13, <1>14, <1>15, <1>16, <1>17, <1>18 DEF IInv

(***************************************************************************)
(* An entry x is marked as erased: its slot stays, so the chains do.       *)
(***************************************************************************)
LEMMA MarkOK ==
  ASSUME IInv, pc = "idle", NEW x \in (1..limit) \ erased,
         data' = [data EXCEPT ![x] = Blank], erased' = erased \cup {x},
         inuse' = inuse - 1, hash' = hash, collisions' = collisions,
         hashsize' = hashsize, width' = width,
         pc' = pc, op' = op, cache' = cache, UNCHANGED redo
  PROVE  IInv' /\ MapStep
  <1>1. /\ TypeOK /\ LocalsOK /\ WidthOK /\ KeysOK /\ SlotsOK
        /\ ~ Redoing /\ ~ Redoing'
    BY DEF IInv, Redoing
  <1>2. i' = i /\ j' = j /\ was' = was BY DEF redo
  <1>3. /\ data' \in Seq(Entry) /\ limit' = limit /\ limit \in Nat
        /\ \A y \in 1..limit : y # x => data'[y] = data[y]
    <2>1. data \in Seq(Entry) BY <1>1 DEF TypeOK
    <2>2. Blank \in Entry BY HashVecAssumption DEF Blank, Entry
    <2> QED BY <2>1, <2>2 DEF limit
  <1>4. Kept' = Kept \ {x} /\ x \in Kept /\ Kept \subseteq 1..limit
    BY <1>1, <1>3 DEF Kept, Redoing
  <1>5. /\ inuse = Cardinality(Kept) /\ inuse' = Cardinality(Kept')
        /\ inuse' \in 0..limit
    <2>1. IsFiniteSet(Kept) BY <1>1, KeptFinite
    <2>2. /\ Cardinality(Kept \ {x}) = Cardinality(Kept) - 1
          /\ IsFiniteSet(Kept \ {x})
      BY <2>1, <1>4, FS_RemoveElement
    <2>3. Cardinality(Kept \ {x}) \in Nat BY <2>2, FS_CardinalityType
    <2>4. inuse = Cardinality(Kept) BY <1>1 DEF KeysOK
    <2>5. inuse \in 0..limit BY <1>1 DEF TypeOK
    <2> QED BY <1>3, <1>4, <2>2, <2>3, <2>4, <2>5
  <1>6. TypeOK'
    <2>1. erased' \subseteq Nat \ {0} /\ was' \subseteq Nat \ {0}
      <3>1. erased \subseteq Nat \ {0} /\ was \subseteq Nat \ {0}
        BY <1>1 DEF TypeOK
      <3>2. x \in Nat \ {0} BY <1>3
      <3> QED BY <3>1, <3>2, <1>2
    <2>2. /\ hashsize' \in Nat /\ collisions' \in 0..(SizeMod - 1)
          /\ width' \in 1..Len(MaxSet)
      BY <1>1 DEF TypeOK
    <2>3. hash' \in [0..(hashsize' - 1) -> 0..limit'] BY <1>1, <1>3 DEF TypeOK
    <2>4. /\ pc' \in {"idle", "redo_place", "redo_store", "find_place",
                     "find_store", "place", "store", "bug"}
          /\ op' \in [key : Key, val : Val, assign : BOOLEAN]
          /\ cache' \in [idx : Nat, slot : Nat, collisions : Nat]
      BY <1>1 DEF TypeOK
    <2>5. i' \in 1..(limit' + 1) /\ j' \in 0..(i' - 1)
      BY <1>1, <1>2, <1>3 DEF TypeOK
    <2> QED BY <1>3, <1>5, <2>1, <2>2, <2>3, <2>4, <2>5 DEF TypeOK
  <1>7. LocalsOK' BY <1>1, <1>2, <1>3 DEF LocalsOK
  <1>8. WidthOK' BY <1>1, <1>3 DEF WidthOK
  <1>9. KeysOK'
    <2>1. \A y, z \in Kept' : data'[y].key = data'[z].key => y = z
      BY <1>1, <1>3, <1>4 DEF KeysOK
    <2> QED BY <1>5, <2>1 DEF KeysOK
  <1>10. SlotsOK'
    <2>1. Filled' = limit /\ Filled = limit BY <1>1, <1>3 DEF Filled
    <2>2. ASSUME NEW y \in (1..limit) \ erased' PROVE Reached(y)'
      <3>1. Reached(y) /\ y # x BY <1>1, <2>1 DEF SlotsOK
      <3>2. y \in 1..limit /\ data'[y].key = data[y].key BY <1>3, <3>1
      <3> QED BY <1>1, <3>1, <3>2, StillReached
    <2> QED BY <1>1, <2>1, <2>2 DEF SlotsOK
  <1>11. CacheOK' /\ NoBug' BY DEF CacheOK, NoBug
  <1>12. MapStep
    <2>1. \A y \in Kept \ {x} : data'[y] = data[y] BY <1>3, <1>4
    <2> QED BY <1>1, <1>4, <2>1, DeleteContent DEF MapStep
  <1> QED BY <1>6, <1>7, <1>8, <1>9, <1>10, <1>11, <1>12 DEF IInv

(***************************************************************************)
(* The last entry goes for good, and its slot is emptied: it is in no      *)
(* chain but its own, which goes through older entries only.               *)
(***************************************************************************)
LEMMA RemoveLastOK ==
  ASSUME IInv, pc = "idle", NEW n, n = limit, n # 0, n \notin erased,
         NEW slot \in 0..(hashsize - 1), hash[slot] = n,
         data' = SubSeq(data, 1, n - 1), erased' = erased,
         inuse' = inuse - 1, hash' = [hash EXCEPT ![slot] = 0],
         collisions' \in 0..(SizeMod - 1),
         hashsize' = hashsize, width' = width,
         pc' = pc, op' = op, cache' = cache, UNCHANGED redo
  PROVE  IInv' /\ MapStep
  <1>1. /\ TypeOK /\ LocalsOK /\ WidthOK /\ KeysOK /\ SlotsOK
        /\ ~ Redoing /\ ~ Redoing'
    BY DEF IInv, Redoing
  <1>2. i' = i /\ j' = j /\ was' = was BY DEF redo
  <1>3. n \in Nat /\ n - 1 \in Nat /\ n \in 1..limit
    <2>1. data \in Seq(Entry) BY <1>1 DEF TypeOK
    <2>2. limit \in Nat BY <2>1 DEF limit
    <2> QED BY <2>2
  <1>4. /\ data' \in Seq(Entry) /\ limit' = n - 1
        /\ \A y \in 1..(n - 1) : data'[y] = data[y]
    <2>1. data \in Seq(Entry) BY <1>1 DEF TypeOK
    <2> QED BY <2>1, <1>3 DEF limit
  <1>5. Kept' = Kept \ {n} /\ n \in Kept /\ Kept \subseteq 1..n
    <2>1. Kept' = {x \in 1..(n - 1) : x \notin erased}
      BY <1>1, <1>4 DEF Kept, Redoing
    <2>2. Kept = {x \in 1..n : x \notin erased}
      BY <1>1 DEF Kept, Redoing
    <2> QED BY <1>3, <2>1, <2>2
  <1>6. inuse' = Cardinality(Kept') /\ inuse' \in 0..(n - 1)
    <2>1. IsFiniteSet(Kept) BY <1>1, KeptFinite
    <2>2. /\ Cardinality(Kept \ {n}) = Cardinality(Kept) - 1
          /\ IsFiniteSet(Kept \ {n})
      BY <2>1, <1>5, FS_RemoveElement
    <2>3. Cardinality(Kept \ {n}) \in Nat BY <2>2, FS_CardinalityType
    <2>4. inuse = Cardinality(Kept) BY <1>1 DEF KeysOK
    <2>5. inuse \in 0..n BY <1>1 DEF TypeOK
    <2> QED BY <1>3, <1>5, <2>2, <2>3, <2>4, <2>5
  <1>7. ASSUME NEW s \in 0..(hashsize - 1)
        PROVE  /\ hash'[s] = IF s = slot THEN 0 ELSE hash[s]
               /\ hash'[s] \in 0..(n - 1)
    <2>1. hash \in [0..(hashsize - 1) -> 0..n] BY <1>1 DEF TypeOK
    <2>2. s # slot => hash[s] # n BY <1>1, <1>3 DEF SlotsOK
    <2> QED BY <1>3, <2>1, <2>2
  <1>8. TypeOK'
    <2>1. hash' \in [0..(hashsize' - 1) -> 0..limit']
      <3>1. hash' = [s \in 0..(hashsize - 1) |-> hash'[s]]
        BY <1>1 DEF TypeOK
      <3>2. \A s \in 0..(hashsize - 1) : hash'[s] \in 0..limit'
        BY <1>4, <1>7
      <3> QED BY <3>1, <3>2
    <2>2. i = 1 /\ j = 0 BY <1>1 DEF LocalsOK
    <2>3. i' \in 1..(limit' + 1) /\ j' \in 0..(i' - 1)
      BY <1>2, <1>3, <1>4, <2>2
    <2>4. /\ erased' \subseteq Nat \ {0} /\ was' \subseteq Nat \ {0}
          /\ hashsize' \in Nat /\ width' \in 1..Len(MaxSet)
      BY <1>1, <1>2 DEF TypeOK
    <2>5. /\ pc' \in {"idle", "redo_place", "redo_store", "find_place",
                     "find_store", "place", "store", "bug"}
          /\ op' \in [key : Key, val : Val, assign : BOOLEAN]
          /\ cache' \in [idx : Nat, slot : Nat, collisions : Nat]
      BY <1>1 DEF TypeOK
    <2> QED BY <1>4, <1>6, <2>1, <2>3, <2>4, <2>5 DEF TypeOK
  <1>9. LocalsOK'
    <2>1. erased \subseteq 1..(n - 1) BY <1>1, <1>3 DEF LocalsOK
    <2> QED BY <1>1, <1>2, <1>4, <2>1 DEF LocalsOK, Redoing
  <1>10. WidthOK'
    <2>1. width \in 1..Len(MaxSet) BY <1>1 DEF TypeOK
    <2>2. MaxSet[width] \in Nat BY <2>1, HashVecAssumption
    <2> QED BY <1>1, <1>3, <1>4, <2>2 DEF WidthOK
  <1>11. KeysOK'
    <2>1. Kept' \subseteq 1..(n - 1) BY <1>3, <1>5
    <2>2. \A y, z \in Kept' : data'[y].key = data'[z].key => y = z
      BY <1>1, <1>4, <1>5, <2>1 DEF KeysOK
    <2> QED BY <1>6, <2>2 DEF KeysOK
  <1>12. SlotsOK'
    <2>1. Filled' = n - 1 /\ Filled = n BY <1>1, <1>4 DEF Filled
    <2>2. \A s \in 0..(hashsize' - 1) : hash'[s] <= n - 1
      BY <1>3, <1>7
    <2>3. \A s, t \in 0..(hashsize' - 1) :
            hash'[s] # 0 /\ hash'[s] = hash'[t] => s = t
      BY <1>1, <1>7 DEF SlotsOK
    <2>4. ASSUME NEW y \in (1..(n - 1)) \ erased PROVE Reached(y)'
      <3>1. y \in 1..limit /\ y < n /\ y \in Nat BY <1>3
      <3>2. Reached(y) BY <1>1, <2>1, <3>1 DEF SlotsOK
      <3>3. data'[y].key = data[y].key BY <1>4
      <3>4. \A s \in 0..(hashsize - 1) :
              hash[s] \in 1..y => hash'[s] = hash[s]
        BY <1>3, <1>7, <3>1
      <3> QED BY <1>1, <3>1, <3>2, <3>3, <3>4, StillReached
    <2> QED BY <1>1, <2>1, <2>2, <2>3, <2>4 DEF SlotsOK
  <1>13. CacheOK' /\ NoBug' BY DEF CacheOK, NoBug
  <1>14. MapStep
    <2>1. \A y \in Kept \ {n} : data'[y] = data[y] BY <1>3, <1>4, <1>5
    <2> QED BY <1>1, <1>5, <2>1, DeleteContent DEF MapStep
  <1> QED BY <1>8, <1>9, <1>10, <1>11, <1>12, <1>13, <1>14 DEF IInv

\* erase(key): find stops at the key's entry or at no entry at all.
LEMMA EraseOK ==
  ASSUME IInv, NotFull, NEW k \in Key, Erase(k)
  PROVE  IInv' /\ MapStep
  <1>1. PICK f, x : f = find(k) /\ x = hash[f.slot] OBVIOUS
  <1>2. /\ pc = "idle" /\ x # 0
        /\ inuse' = IF x \in erased THEN inuse ELSE inuse - 1
        /\ hash' = TableWithout(x, f.slot)
        /\ hashsize' = hashsize /\ width' = width
        /\ pc' = pc /\ op' = op /\ cache' = cache /\ UNCHANGED redo
    BY <1>1 DEF Erase
  <1>3. TypeOK /\ LocalsOK BY DEF IInv
  <1>4. Finds(k, f) /\ f \in [idx : Nat, slot : Nat, collisions : Nat]
    BY <1>1, <1>3, FindStops
  <1>5. f.slot \in 0..(hashsize - 1) /\ x \in 0..limit /\ x \notin erased
    BY <1>1, <1>2, <1>3, <1>4, FoundSlot
  <1>6. x \in (1..limit) \ erased /\ inuse' = inuse - 1
    <2>1. limit \in Nat BY <1>3 DEF TypeOK, limit
    <2> QED BY <1>2, <1>5, <2>1
  <1>7. CASE x = limit
    <2>1. /\ data' = SubSeq(data, 1, x - 1) /\ erased' = erased
          /\ collisions' = (collisions - f.collisions) % SizeMod
      BY <1>1, <1>7 DEF Erase
    <2>2. hash' = [hash EXCEPT ![f.slot] = 0]
      BY <1>2, <1>7 DEF TableWithout
    <2>3. collisions' \in 0..(SizeMod - 1)
      <3>1. collisions - f.collisions \in Int BY <1>3, <1>4 DEF TypeOK
      <3>2. SizeMod \in Nat \ {0} BY HashVecAssumption
      <3> QED BY <2>1, <3>1, <3>2
    <2> QED
      BY <1>1, <1>2, <1>5, <1>6, <1>7, <2>1, <2>2, <2>3, RemoveLastOK
  <1>8. CASE x # limit
    <2>1. /\ data' = [data EXCEPT ![x] = Blank]
          /\ erased' = erased \cup {x} /\ collisions' = collisions
      BY <1>1, <1>8 DEF Erase
    <2>2. hash' = hash BY <1>2, <1>8 DEF TableWithout
    <2> QED BY <1>2, <1>6, <2>1, <2>2, MarkOK
  <1> QED BY <1>7, <1>8

\* erase(iterator).
LEMMA EraseAtOK ==
  ASSUME IInv, NEW x \in 1..limit, EraseAt(x)
  PROVE  IInv' /\ MapStep
  <1>1. /\ pc = "idle" /\ x \in (1..limit) \ erased
        /\ data' = [data EXCEPT ![x] = Blank]
        /\ erased' = erased \cup {x} /\ inuse' = inuse - 1
        /\ hash' = hash /\ collisions' = collisions
        /\ hashsize' = hashsize /\ width' = width
        /\ pc' = pc /\ op' = op /\ cache' = cache /\ UNCHANGED redo
    BY DEF EraseAt, table
  <1> QED BY <1>1, MarkOK

\* clear.
LEMMA ClearOK ==
  ASSUME IInv, clear
  PROVE  IInv' /\ MapStep
  <1>1. /\ pc = "idle" /\ data' = << >> /\ erased' = {} /\ inuse' = 0
        /\ hashsize' = InitialSize /\ hash' = Zero(InitialSize)
        /\ collisions' = 0 /\ width' = 1
        /\ pc' = pc /\ op' = op /\ cache' = cache
        /\ i' = i /\ j' = j /\ was' = was
    BY DEF clear, redo
  <1>2. TypeOK /\ LocalsOK /\ ~ Redoing /\ ~ Redoing' /\ limit' = 0
    BY <1>1 DEF IInv, Redoing, limit
  <1>3. i = 1 /\ j = 0 /\ was = {} BY <1>2 DEF LocalsOK
  <1>4. Kept' = {} BY <1>2 DEF Kept
  <1>5. TypeOK'
    <2>1. hash' \in [0..(hashsize' - 1) -> 0..limit']
      BY <1>1, <1>2 DEF Zero
    <2>2. /\ hashsize' \in Nat /\ collisions' \in 0..(SizeMod - 1)
          /\ width' \in 1..Len(MaxSet)
      BY <1>1, HashVecAssumption
    <2>3. i' \in 1..(limit' + 1) /\ j' \in 0..(i' - 1) /\ inuse' \in 0..limit'
      BY <1>1, <1>2, <1>3
    <2> QED BY <1>1, <1>2, <2>1, <2>2, <2>3 DEF TypeOK
  <1>6. LocalsOK' BY <1>1, <1>2, <1>3, HashVecAssumption DEF LocalsOK
  <1>7. WidthOK'
    <2>1. MaxSet[1] \in Nat BY HashVecAssumption
    <2> QED BY <1>1, <1>2, <2>1 DEF WidthOK
  <1>8. KeysOK' BY <1>1, <1>4, FS_EmptySet DEF KeysOK
  <1>9. SlotsOK' BY <1>1, <1>2 DEF SlotsOK, Filled, Zero
  <1>10. CacheOK' /\ NoBug' BY <1>1 DEF CacheOK, NoBug
  <1>11. MapStep
    <2>1. Live' = {} /\ Before' = {} BY <1>4 DEF Live, Before
    <2> QED BY <2>1 DEF MapStep, Map!Next, Map!Clear
  <1> QED BY <1>5, <1>6, <1>7, <1>8, <1>9, <1>10, <1>11 DEF IInv

\* A step that changes nothing.
LEMMA StutterOK ==
  ASSUME IInv, UNCHANGED vars
  PROVE  IInv' /\ MapStep
  <1>1. /\ data' = data /\ erased' = erased /\ inuse' = inuse
        /\ hashsize' = hashsize /\ hash' = hash
        /\ collisions' = collisions /\ width' = width
        /\ pc' = pc /\ op' = op /\ cache' = cache
        /\ i' = i /\ j' = j /\ was' = was /\ limit' = limit
    BY DEF vars, table, redo, limit
  <1>2. Redoing' = Redoing /\ Filled' = Filled /\ Kept' = Kept
    BY <1>1 DEF Redoing, Filled, Kept
  <1>3. TypeOK' /\ LocalsOK' /\ WidthOK' /\ NoBug'
    BY <1>1, <1>2 DEF IInv, TypeOK, LocalsOK, WidthOK, NoBug
  <1>4. KeysOK' BY <1>1, <1>2 DEF IInv, KeysOK, Present
  <1>5. SlotsOK' BY <1>1, <1>2, SameSlots DEF IInv
  <1>6. CacheOK' BY <1>1 DEF IInv, CacheOK, Finds, Stops, Slot
  <1>7. MapStep BY <1>1, <1>2, SameContent DEF MapStep
  <1> QED BY <1>3, <1>4, <1>5, <1>6, <1>7 DEF IInv

\* The steps together.
LEMMA StepOK ==
  ASSUME IInv, NotFull, [Next]_vars
  PROVE  IInv' /\ MapStep
  <1>1. CASE \E k \in Key, v \in Val, assign \in BOOLEAN :
               hv_insert(k, v, assign)
    BY <1>1, InsertOK
  <1>2. CASE SkipErased BY <1>2, SkipOK
  <1>3. CASE MoveEntry BY <1>3, MoveOK
  <1>4. CASE EndRedo BY <1>4, EndRedoOK
  <1>5. CASE FindAgain BY <1>5, FindAgainOK
  <1>6. CASE PlaceNew BY <1>6, PlaceNewOK
  <1>7. CASE PlaceOld BY <1>7, PlaceOldOK
  <1>8. CASE Store BY <1>8, StoreOK
  <1>9. CASE \E k \in Key : Erase(k) BY <1>9, EraseOK
  <1>10. CASE \E x \in 1..limit : EraseAt(x) BY <1>10, EraseAtOK
  <1>11. CASE clear BY <1>11, ClearOK
  <1>12. CASE UNCHANGED vars BY <1>12, StutterOK
  <1> QED
    BY <1>1, <1>2, <1>3, <1>4, <1>5, <1>6, <1>7, <1>8, <1>9, <1>10,
       <1>11, <1>12 DEF Next

-----------------------------------------------------------------------------
(***************************************************************************)
(* The inductive invariant of hash_vector_base and hvec_map, as long as    *)
(* the table has an empty slot: unique keys, a table without duplicates    *)
(* whose chains lead to every live entry, indices that fit its elements,   *)
(* and a lookup_cache that is valid when hv_insert uses it.                *)
(***************************************************************************)
THEOREM HashVecInductive == Spec /\ []NotFull => []IInv
  <1>1. Init => IInv BY InitOK
  <1>2. IInv /\ NotFull /\ [Next]_vars => IInv' BY StepOK
  <1> QED BY <1>1, <1>2, PTL DEF Spec

(***************************************************************************)
(* Probing meets no gap before an entry, although remove leaves no         *)
(* tombstone in the slot it empties.                                       *)
(***************************************************************************)
THEOREM SoundTable == Spec /\ []NotFull => []TableSound
  <1>1. IInv => TableSound
    <2> SUFFICES ASSUME IInv PROVE TableSound OBVIOUS
    <2>1. TypeOK BY DEF IInv
    <2>2. ASSUME pc = "idle", NEW x \in (1..limit) \ erased
          PROVE  Reached(x)
      BY <2>2 DEF IInv, SlotsOK, Filled, Redoing
    <2> QED BY <2>1, <2>2 DEF TableSound, ProbeChains, Reached
  <1> QED BY <1>1, HashVecInductive, PTL

(***************************************************************************)
(* find sees what iteration sees, and size() is the number of entries,     *)
(* after any insertions, erasures and rehashes.                            *)
(***************************************************************************)
THEOREM FindsAll == Spec /\ []NotFull => []FindsWhatIsThere
  <1>1. IInv /\ NotFull => FindsWhatIsThere
    <2> SUFFICES ASSUME IInv, NotFull, pc = "idle"
                 PROVE  /\ \A k \in Key :
                             IF Present(k)
                             THEN /\ find(k).idx \notin {0} \cup erased
                                  /\ data[find(k).idx].key = k
                             ELSE find(k).idx = 0
                        /\ inuse = Cardinality(Kept)
      BY DEF FindsWhatIsThere
    <2>1. TypeOK /\ LocalsOK /\ KeysOK /\ SlotsOK /\ ~ Redoing
      BY DEF IInv, Redoing
    <2>2. inuse = Cardinality(Kept) BY <2>1 DEF KeysOK
    <2>3. ASSUME NEW k \in Key
          PROVE  IF Present(k)
                 THEN /\ find(k).idx \notin {0} \cup erased
                      /\ data[find(k).idx].key = k
                 ELSE find(k).idx = 0
      <3>1. Finds(k, find(k)) BY <2>1, FindStops
      <3> DEFINE f == find(k)
      <3>2. Finds(k, f) BY <3>1
      <3> HIDE DEF f
      <3>3. /\ f.idx = hash[f.slot] /\ hash[f.slot] \in 0..limit
            /\ hash[f.slot] # 0 =>
                 hash[f.slot] \notin erased /\ data[hash[f.slot]].key = k
        BY <2>1, <3>2, FoundSlot
      <3>4. limit \in Nat BY <2>1 DEF TypeOK, limit
      <3>5. CASE Present(k)
        <4>1. PICK x \in Kept : data[x].key = k BY <3>5 DEF Present
        <4>2. x \in (1..limit) \ erased BY <2>1 DEF Kept, Redoing
        <4>3. Reached(x) BY <2>1, <4>2 DEF SlotsOK, Filled
        <4>4. hash[f.slot] # 0
          BY <2>1, <3>2, <4>1, <4>2, <4>3, ReachedIsFound
        <4>5. /\ f.idx \notin {0} \cup erased /\ data[f.idx].key = k
          BY <3>3, <4>4
        <4> QED BY <3>5, <4>5 DEF f
      <3>6. CASE ~ Present(k)
        <4> SUFFICES ASSUME f.idx # 0 PROVE FALSE BY <3>6 DEF f
        <4>1. hash[f.slot] \in Kept /\ data[hash[f.slot]].key = k
          BY <2>1, <3>3, <3>4 DEF Kept, Redoing
        <4> QED BY <3>6, <4>1 DEF Present
      <3> QED BY <3>5, <3>6
    <2> QED BY <2>2, <2>3
  <1> QED BY <1>1, HashVecInductive, PTL

(***************************************************************************)
(* No operation ends in a BUG of hashvec.cpp: redo_hash meets no key twice *)
(* and the table's elements can always be widened.                         *)
(***************************************************************************)
THEOREM NeverABug == Spec /\ []NotFull => []NoBug
  <1>1. IInv => NoBug BY DEF IInv
  <1> QED BY <1>1, HashVecInductive, PTL

(***************************************************************************)
(* "or -1 if nothing removed" (hashvec.h) is true of every table that is   *)
(* not full: a full table is the only way for erase to take the entry of   *)
(* another key.                                                            *)
(***************************************************************************)
THEOREM ErasesNothingElse == Spec /\ []NotFull => ErasesOnlyItsKey
  <1>1. ASSUME IInv, NotFull, NEW k \in Key, Erase(k)
        PROVE  Present(k)
    <2>1. TypeOK /\ LocalsOK BY <1>1 DEF IInv
    <2>2. PICK f : f = find(k) OBVIOUS
    <2>3. hash[f.slot] # 0 /\ pc = "idle" BY <1>1, <2>2 DEF Erase
    <2>4. Finds(k, f) BY <1>1, <2>1, <2>2, FindStops
    <2>5. /\ hash[f.slot] \in (1..limit) \ erased
          /\ data[hash[f.slot]].key = k
      <3>1. limit \in Nat BY <2>1 DEF TypeOK, limit
      <3> QED BY <2>1, <2>3, <2>4, <3>1, FoundSlot
    <2> QED BY <2>3, <2>5 DEF Present, Kept
  <1>2. IInv /\ NotFull
          => [\A k \in Key :
                Erase(k) /\ ~ Present(k) => UNCHANGED <<Live, Before>>]_vars
    BY <1>1
  <1> QED BY <1>2, HashVecInductive, PTL DEF ErasesOnlyItsKey

(***************************************************************************)
(* hvec_map implements OrderedMap: redo_hash is invisible at each turn of  *)
(* its loop, an insertion takes effect when its entry is stored, and an    *)
(* erasure takes the entry of its key and no other.                        *)
(***************************************************************************)
THEOREM MapRefinement == Spec /\ []NotFull => ImplementsOrderedMap
  <1>1. Init => Map!Init
    <2> SUFFICES ASSUME Init PROVE Kept = {}
      BY DEF Map!Init, Live, Before
    <2> QED BY DEF Init, Kept, limit
  <1>2. IInv /\ NotFull /\ [Next]_vars => [Map!Next]_<<Live, Before>>
    BY StepOK DEF MapStep
  <1> QED
    BY <1>1, <1>2, HashVecInductive, NeverABug, PTL
    DEF Spec, Map!Spec, ImplementsOrderedMap
=============================================================================
