------------------------------ MODULE HashVec ------------------------------
(***************************************************************************)
(* hvec_map (lib/hvec_map.h) over hash_vector_base (lib/hashvec.{h,cpp}):  *)
(* the entries are kept in a vector `data`, in insertion order, and found  *)
(* through an open-addressing table `hash` of indices into it (0 = empty   *)
(* slot, x = entry x of data, counted from 1).  An entry is removed by a   *)
(* mark in `erased`, or, when it is the last of data, for real.            *)
(*                                                                         *)
(* The table has no tombstones: a slot is emptied only when the last entry *)
(* goes.  When an insertion has met too many collisions, redo_hash drops   *)
(* the erased entries and fills the table anew, larger if need be.  Each   *)
(* turn of redo_hash's loop is a step.                                     *)
(***************************************************************************)
EXTENDS Integers, Sequences, FiniteSets

CONSTANTS
  Key, Val,
  DefaultKey, DefaultVal,  \* KEY() and VAL()
  Hash,         \* hashfn
  InitialSize,  \* 15: hashsize of an empty vector, a power of 2 minus 1
  MaxSet,       \* maxset of each element size of the table: 255, 65535, ...
  SizeMod,      \* 2^64: size_t arithmetic
  MaxData       \* bound: entries in data, erased ones included

ASSUME HashVecAssumption ==
  /\ DefaultKey \in Key /\ DefaultVal \in Val
  /\ Hash \in [Key -> Nat]
  /\ InitialSize \in Nat /\ InitialSize > 0
  /\ MaxSet \in Seq(Nat) /\ Len(MaxSet) > 0
  /\ \A w \in 1..(Len(MaxSet) - 1) : MaxSet[w] < MaxSet[w + 1]
  /\ SizeMod \in Nat /\ SizeMod > InitialSize
  /\ MaxData \in Nat /\ MaxData <= MaxSet[Len(MaxSet)]

VARIABLES
  data,       \* hvec_map::data
  erased,     \* indices marked as erased
  inuse,      \* number of elements
  hashsize,   \* size of the table
  hash,       \* the table: slots 0..hashsize-1
  collisions, \* collisions met so far, what redo_hash keeps low
  width,      \* which `internal` the table uses: index into MaxSet
  pc,         \* where hv_insert is
  op,         \* the insertion under way: its key, value and caller
  cache,      \* lookup_cache of the last find
  i, j, was   \* redo_hash: its loop, and the marks it started with

redo == <<i, j, was>>
table == <<hashsize, hash, collisions, width>>
vars == <<data, erased, inuse, table, pc, op, cache, redo>>

Entry == [key : Key, val : Val]
Blank == [key |-> DefaultKey, val |-> DefaultVal]
limit == Len(data)

\* The locals of hv_insert, when it is not running.
NoOp == [key |-> DefaultKey, val |-> DefaultVal, assign |-> FALSE]
NoCache == [idx |-> 0, slot |-> 0, collisions |-> 0]

-----------------------------------------------------------------------------
(***************************************************************************)
(* find: probe from the key's home slot until a slot is empty or holds a   *)
(* live entry of the key.  When every slot has been tried in vain, the     *)
(* result is 0 and the cache is left at the last slot tried.               *)
(***************************************************************************)
Slot(k, c) == (Hash[k] + c) % hashsize

StopsAtErased(k, c) ==
  LET x == hash[Slot(k, c)] IN x = 0 \/ x \in erased \/ data[x].key = k
Stops(k, c) ==
  LET x == hash[Slot(k, c)] IN
  x = 0 \/ (x \notin erased /\ data[x].key = k)

find(k) ==
  LET ends == {c \in 0..(hashsize - 1) : Stops(k, c)} IN
  IF ends = {}
  THEN [idx |-> 0, slot |-> Slot(k, hashsize - 1), collisions |-> hashsize]
  ELSE LET c == CHOOSE c \in ends : \A d \in ends : c <= d IN
       [idx |-> hash[Slot(k, c)], slot |-> Slot(k, c), collisions |-> c]

\* allochash: an empty table.
Zero(n) == [s \in 0..(n - 1) |-> 0]

\* sethash truncates to the element size of the table.
Stored(x) == x % (MaxSet[width] + 1)

Init ==
  /\ data = << >> /\ erased = {} /\ inuse = 0
  /\ hashsize = InitialSize /\ hash = Zero(InitialSize)
  /\ collisions = 0 /\ width = 1
  /\ pc = "idle" /\ op = NoOp /\ cache = NoCache
  /\ i = 1 /\ j = 0 /\ was = {}

\* hv_insert returns, and its caller has stored the entry.
Return == pc' = "idle" /\ op' = NoOp /\ cache' = NoCache

\* redo_hash, up to its loop, on a fresh table of size n; then `return`.
StartRedo(n, return) ==
  /\ pc' = return
  /\ hashsize' = n /\ hash' = Zero(n) /\ collisions' = 0
  /\ was' = erased /\ erased' = {}
  /\ i' = 1 /\ j' = 0

(***************************************************************************)
(* The size redo_hash is given: unchanged when many entries are erased or  *)
(* when the table is 90% empty already and a larger one would not help.    *)
(***************************************************************************)
Expanded ==
  IF inuse * 3 < limit * 2 \/ hashsize > inuse * 10
  THEN hashsize ELSE 2 * hashsize + 1

(***************************************************************************)
(* The head of hv_insert: insert(v) and emplace(KEY &&) leave the value of *)
(* a key that is there alone; m[k] = v and emplace(const KEY &) assign it. *)
(***************************************************************************)
hv_insert(k, v, assign) ==
  LET f == find(k)
      met == (collisions + f.collisions) % SizeMod IN
  /\ pc = "idle" /\ limit < MaxData
  /\ op' = [key |-> k, val |-> v, assign |-> assign]
  /\ cache' = f
  /\ IF met > hashsize \div 2
     THEN StartRedo(Expanded, "redo_place")
     ELSE /\ pc' = "place" /\ collisions' = met
          /\ UNCHANGED <<erased, hashsize, hash, redo>>
  /\ UNCHANGED <<data, inuse, width>>

\* One turn of redo_hash's loop.  A key found twice is a BUG.
Drops(x) == x \in was

SkipErased ==
  /\ pc \in {"redo_place", "redo_store"} /\ i <= limit /\ Drops(i)
  /\ i' = i + 1
  /\ UNCHANGED <<data, erased, inuse, table, pc, op, cache, j, was>>

MoveEntry ==
  LET f == find(data[i].key) IN
  /\ pc \in {"redo_place", "redo_store"} /\ i <= limit /\ ~ Drops(i)
  /\ pc' = IF f.idx # 0 THEN "bug" ELSE pc
  /\ data' = [data EXCEPT ![j + 1] = data[i]]
  /\ hash' = [hash EXCEPT ![f.slot] = Stored(j + 1)]
  /\ collisions' = (collisions + f.collisions) % SizeMod
  /\ i' = i + 1 /\ j' = j + 1
  /\ UNCHANGED <<erased, inuse, hashsize, width, op, cache, was>>

\* resizedata(j), and redo_hash returns to hv_insert.
EndRedo ==
  /\ pc \in {"redo_place", "redo_store"} /\ i > limit
  /\ data' = SubSeq(data, 1, j)
  /\ inuse' = j
  /\ pc' = IF pc = "redo_place" THEN "find_place" ELSE "find_store"
  /\ i' = 1 /\ j' = 0 /\ was' = {}
  /\ UNCHANGED <<erased, table, op, cache>>

\* find(key, cache) again, in the new table.
FindAgain ==
  /\ pc \in {"find_place", "find_store"}
  /\ cache' = find(op.key)
  /\ pc' = IF pc = "find_place" THEN "place" ELSE "store"
  /\ UNCHANGED <<data, erased, inuse, table, op, redo>>

\* The slot is empty: make room in the table and in its elements if need be.
NarrowTable == FALSE
TooNarrow == limit >= MaxSet[width]

PlaceNew ==
  /\ pc = "place" /\ hash[cache.slot] = 0
  /\ IF limit >= hashsize \/ TooNarrow
     THEN IF TooNarrow /\ width = Len(MaxSet)
          THEN pc' = "bug" /\ UNCHANGED <<erased, table, redo>>
          ELSE /\ width' = IF TooNarrow THEN width + 1 ELSE width
               /\ StartRedo(IF limit >= hashsize THEN 2 * hashsize + 1
                                                 ELSE hashsize, "redo_store")
     ELSE pc' = "store" /\ UNCHANGED <<erased, table, redo>>
  /\ UNCHANGED <<data, inuse, op, cache>>

\* The slot is taken: by the key itself.
PlaceOld ==
  LET x == hash[cache.slot] IN
  /\ pc = "place" /\ x # 0
  /\ inuse' = IF x \in erased THEN inuse + 1 ELSE inuse
  /\ data' = IF x \in erased \/ op.assign
             THEN [data EXCEPT ![x] = [key |-> op.key, val |-> op.val]]
             ELSE data
  /\ erased' = erased \ {x}
  /\ Return
  /\ UNCHANGED <<table, redo>>

\* sethash(slot, limit() + 1), and the caller appends the entry.
Store ==
  /\ pc = "store"
  /\ hash' = [hash EXCEPT ![cache.slot] = Stored(limit + 1)]
  /\ inuse' = inuse + 1
  /\ data' = Append(data, [key |-> op.key, val |-> op.val])
  /\ Return
  /\ UNCHANGED <<erased, hashsize, collisions, width, redo>>

-----------------------------------------------------------------------------
\* remove takes the last entry out of the table, any other stays in its slot.
AlwaysEmptied(x, s) == [hash EXCEPT ![s] = 0]
TableWithout(x, s) == IF x = limit THEN [hash EXCEPT ![s] = 0] ELSE hash

\* erase(const KEY &): whatever entry the slot that find left holds goes.
Erase(k) ==
  LET f == find(k)
      x == hash[f.slot] IN
  /\ pc = "idle" /\ x # 0
  /\ inuse' = IF x \in erased THEN inuse ELSE inuse - 1
  /\ hash' = TableWithout(x, f.slot)
  /\ IF x = limit
     THEN /\ data' = SubSeq(data, 1, x - 1)
          /\ collisions' = (collisions - f.collisions) % SizeMod
          /\ UNCHANGED erased
     ELSE /\ data' = [data EXCEPT ![x] = Blank]
          /\ erased' = erased \cup {x}
          /\ UNCHANGED collisions
  /\ UNCHANGED <<hashsize, width, pc, op, cache, redo>>

\* erase(iterator): the entry is marked even when it is the last.
EraseAt(x) ==
  /\ pc = "idle" /\ x \notin erased
  /\ data' = [data EXCEPT ![x] = Blank]
  /\ erased' = erased \cup {x}
  /\ inuse' = inuse - 1
  /\ UNCHANGED <<table, pc, op, cache, redo>>

clear ==
  /\ pc = "idle"
  /\ data' = << >> /\ erased' = {} /\ inuse' = 0
  /\ hashsize' = InitialSize /\ hash' = Zero(InitialSize)
  /\ collisions' = 0 /\ width' = 1
  /\ UNCHANGED <<pc, op, cache, redo>>

Next ==
  \/ \E k \in Key, v \in Val, assign \in BOOLEAN : hv_insert(k, v, assign)
  \/ SkipErased \/ MoveEntry \/ EndRedo \/ FindAgain
  \/ PlaceNew \/ PlaceOld \/ Store
  \/ \E k \in Key : Erase(k)
  \/ \E x \in 1..limit : EraseAt(x)
  \/ clear

Spec == Init /\ [][Next]_vars

-----------------------------------------------------------------------------
TypeOK ==
  /\ data \in Seq(Entry)
  /\ erased \subseteq Nat \ {0} /\ was \subseteq Nat \ {0}
  /\ inuse \in 0..limit
  /\ hashsize \in Nat /\ hash \in [0..(hashsize - 1) -> 0..limit]
  /\ collisions \in 0..(SizeMod - 1)
  /\ width \in 1..Len(MaxSet)
  /\ pc \in {"idle", "redo_place", "redo_store", "find_place", "find_store",
             "place", "store", "bug"}
  /\ op \in [key : Key, val : Val, assign : BOOLEAN]
  /\ cache \in [idx : Nat, slot : Nat, collisions : Nat]
  /\ i \in 1..(limit + 1) /\ j \in 0..(i - 1)

\* The indices of the entries that are there.  While redo_hash runs, those
\* it has moved and those it has yet to move.
Kept ==
  {x \in 1..limit : IF pc \in {"redo_place", "redo_store"}
                    THEN x <= j \/ (x >= i /\ x \notin was)
                    ELSE x \notin erased}

Present(k) == \E x \in Kept : data[x].key = k

\* The entries themselves, and the order in which iteration meets their keys.
Live == {data[x] : x \in Kept}
Before ==
  {p \in Key \X Key : \E x, y \in Kept :
                        x < y /\ p[1] = data[x].key /\ p[2] = data[y].key}

(***************************************************************************)
(* No slot is emptied under a probe: every live entry is reached from its  *)
(* home slot through slots of entries older than itself, so that taking    *)
(* the last entry out of the table cuts off none (remove's sethash(.., 0)  *)
(* without a tombstone).                                                   *)
(***************************************************************************)
ProbeChains ==
  pc = "idle" =>
    \A x \in (1..limit) \ erased : \E c \in 0..(hashsize - 1) :
      /\ hash[Slot(data[x].key, c)] = x
      /\ \A d \in 0..(c - 1) : hash[Slot(data[x].key, d)] \in 1..(x - 1)

(***************************************************************************)
(* The table of slots is sound between two operations: indices are in      *)
(* range, size() is no more than there are entries, and probing from a     *)
(* key's home slot (find) meets no gap before the key's entry.             *)
(***************************************************************************)
TableSound == TypeOK /\ ProbeChains

(***************************************************************************)
(* find sees exactly the entries that iteration sees: after any mixture of *)
(* insertions, erasures by key and by iterator, and rehashing, a key is    *)
(* found iff a live entry has it, and size() is the number of live entries.*)
(***************************************************************************)
FindsWhatIsThere ==
  pc = "idle" =>
    /\ \A k \in Key :
         IF Present(k)
         THEN find(k).idx \notin {0} \cup erased /\ data[find(k).idx].key = k
         ELSE find(k).idx = 0
    /\ inuse = Cardinality(Kept)

\* redo_hash never meets a key twice and the table never overflows (BUG).
NoBug == pc # "bug"

(***************************************************************************)
(* hvec_map implements OrderedMap: an insertion takes effect when its      *)
(* entry is stored, redo_hash is invisible at each of its turns, and none  *)
(* of these operations ends in a BUG of hashvec.cpp.                       *)
(***************************************************************************)
Map == INSTANCE OrderedMap WITH content <- Live, before <- Before

ImplementsOrderedMap == Map!Spec /\ []NoBug

(***************************************************************************)
(* hashvec.h on remove: "or -1 if nothing removed".  Erasing a key that is *)
(* not there leaves the entries as they are.                               *)
(***************************************************************************)
ErasesOnlyItsKey ==
  [][\A k \in Key :
       Erase(k) /\ ~ Present(k) => UNCHANGED <<Live, Before>>]_vars

=============================================================================
