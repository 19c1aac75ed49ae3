---------------------------- MODULE DefUseProofs ----------------------------
(***************************************************************************)
(* ComputeDefUse finds every definition that reaches a read, and no other  *)
(* while flows are not merged, for variables of every width, every set of  *)
(* slices, and every nesting of if statements.                             *)
(***************************************************************************)
EXTENDS DefUse, NumberLemmas, FiniteSetTheorems

-----------------------------------------------------------------------------
(***************************************************************************)
(* The inductive invariant: what holds of the running visitor holds of the *)
(* clones that wait at the enclosing if statements too.  n is the number   *)
(* of writes passed, and m says whether flows have been merged.            *)
(***************************************************************************)
Slices(n) == UNION {[K -> SUBSET (0..n)] : K \in SUBSET Intervals}
Info(n) == [defs : SUBSET (0..n), live : SUBSET Parts, slices : Slices(n)]
History(n) == [Parts -> SUBSET (0..n)]

Disjoint(slices) == \A k, j \in DOMAIN slices : k # j => k \cap j = {}

\* The slices the program writes, when each is written as a whole or not at all.
Family == IF program.kind = "bits" THEN program.slices ELSE {{b} : b \in Parts}
Whole == program.kind # "bits" \/ ~Overlapping
InFamily(slices) == Whole => DOMAIN slices \subseteq Family

Unsliced == program.ops \cap {"slice", "index", "field"} = {}

InfoOK(d, n) ==
  /\ d \in Info(n)
  /\ Disjoint(d.slices)
  /\ d.live = {} => d.defs = {}
  /\ InFamily(d.slices)
  /\ Unsliced => DOMAIN d.slices = {}

\* The defs a read of part b finds.
Found(d, b) == Sliced(d.slices, b) \cup (IF b \in d.live THEN d.defs ELSE {})

Clean(m) == ~Clears /\ (m => Whole)
Exact(m) == ~m /\ program.ops \subseteq {"whole", "slice", "field", "branch"}

\* A field that is not live has defs of its own, as long as one is live.
FieldsOK(d) ==
  program.kind = "struct" /\ d.live # {} =>
    \A b \in Parts \ d.live : {b} \in DOMAIN d.slices

FlowOK(d, h, f, n, m) ==
  /\ InfoOK(d, n) /\ h \in History(n) /\ f \in History(n)
  /\ \A b \in Parts : h[b] \subseteq Found(d, b) \cup f[b]
  /\ Clean(m) => \A b \in Parts : f[b] = {}
  /\ Exact(m) => FieldsOK(d) /\ \A b \in Parts : h[b] = Found(d, b)

Waiting(n) ==
  [di : Info(n), reach : History(n), dropped : History(n), in : {"then", "else"}]

IInv ==
  /\ program \in Programs /\ writes \in Def /\ merged \in BOOLEAN
  /\ stack \in Seq(Waiting(writes)) /\ Len(stack) <= program.depth
  /\ FlowOK(di, reach, dropped, writes, merged)
  /\ \A i \in 1..Len(stack) :
       FlowOK(stack[i].di, stack[i].reach, stack[i].dropped, writes, merged)

-----------------------------------------------------------------------------
(***************************************************************************)
(* Intervals and their pieces.                                             *)
(***************************************************************************)
\* What is assumed of a kind of program.
LEMMA Kinds ==
  ASSUME program \in Programs
  PROVE  /\ program.width \in Nat \ {0}
         /\ program.kind \in {"bits", "array", "struct"}
         /\ program.slices \subseteq Intervals
         /\ program.writes \in Nat /\ program.depth \in Nat
  BY DefUseAssumption DEF Intervals, Parts

\* An interval has a first and a last part, and all between them.
LEMMA Interval ==
  ASSUME program \in Programs, NEW r \in Intervals
  PROVE  /\ r \subseteq Parts /\ r # {}
         /\ Min(r) \in Parts /\ Max(r) \in Parts
         /\ r = Min(r)..Max(r) /\ Min(r) <= Max(r)
  <1>1. PICK lo, hi \in Parts : r = lo..hi /\ r # {} BY DEF Intervals
  <1>2. lo \in Int /\ hi \in Int /\ r \subseteq Parts /\ lo <= hi
    BY <1>1, Kinds DEF Parts
  <1>3. Min(r) = lo
    <2>1. lo \in r /\ \A y \in r : lo <= y BY <1>1, <1>2
    <2>2. Min(r) \in r /\ \A y \in r : Min(r) <= y BY <2>1 DEF Min
    <2> QED BY <1>1, <1>2, <2>1, <2>2
  <1>4. Max(r) = hi
    <2>1. hi \in r /\ \A y \in r : hi >= y BY <1>1, <1>2
    <2>2. Max(r) \in r /\ \A y \in r : Max(r) >= y BY <2>1 DEF Max
    <2> QED BY <1>1, <1>2, <2>1, <2>2
  <1> QED BY <1>1, <1>2, <1>3, <1>4

\* The part that two numbers bound is an interval.
LEMMA IsInterval ==
  ASSUME program \in Programs, NEW lo \in Parts, NEW hi \in Parts, lo <= hi
  PROVE  lo..hi \in Intervals
  <1>1. lo \in lo..hi BY Kinds DEF Parts
  <1> QED BY <1>1 DEF Intervals

LEMMA Singles ==
  ASSUME program \in Programs, NEW b \in Parts
  PROVE  {b} \in Intervals
  <1>1. b..b = {b} /\ b <= b BY Kinds DEF Parts
  <1>2. b..b \in Intervals BY <1>1, IsInterval, Zenon
  <1> QED BY <1>1, <1>2

\* Pieces is a partition of k, and r is not cut by any piece.
LEMMA PiecesPartition ==
  ASSUME program \in Programs, NEW k \in Intervals, NEW r \in Intervals
  PROVE  /\ Pieces(k, r) \subseteq Intervals
         /\ \A p \in Pieces(k, r) : p \subseteq k /\ (p \subseteq r \/ p \cap r = {})
         /\ Disjoint([p \in Pieces(k, r) |-> 0])
         /\ \A b \in k : \E p \in Pieces(k, r) : b \in p
  <1>1. CASE k \cap r = {} BY <1>1, Zenon DEF Pieces, Disjoint
  <1>2. CASE k \cap r # {}
    <2> DEFINE in == k \cap r
               low == {b \in k : b < Min(r)}
               high == {b \in k : b > Max(r)}
    <2>1. Pieces(k, r) = {in, low, high} \ {{}} BY <1>2 DEF Pieces
    <2>2. Parts \subseteq Int BY Kinds DEF Parts
    <2>k. /\ k \subseteq Parts /\ Min(k) \in Parts /\ Max(k) \in Parts
          /\ k = Min(k)..Max(k) /\ Min(k) <= Max(k)
      BY Interval, Zenon
    <2>r. /\ Min(r) \in Parts /\ Max(r) \in Parts
          /\ r = Min(r)..Max(r) /\ Min(r) <= Max(r)
      BY Interval, Zenon
    <2> DEFINE a == Min(k)
               z == Max(k)
               u == Min(r)
               v == Max(r)
    <2>n. a \in Parts /\ z \in Parts /\ u \in Parts /\ v \in Parts /\ a <= z /\ u <= v
          /\ k = a..z /\ r = u..v
      BY <2>k, <2>r
    <2>o. low = {b \in k : b < u} /\ high = {b \in k : b > v} OBVIOUS
    <2>p. u - 1 \in Parts \/ u = 0 BY <2>n, Kinds DEF Parts
    <2>q. v + 1 \in Parts \/ v = program.width - 1 BY <2>n, Kinds DEF Parts
    <2> HIDE DEF a, z, u, v
    <2>3. in \in Intervals
      <3> DEFINE x == IF a < u THEN u ELSE a
                 y == IF z > v THEN v ELSE z
      <3>1. in = x..y /\ x \in Parts /\ y \in Parts BY <2>n, <2>2
      <3>2. x <= y
        <4>1. PICK b \in k : b \in r BY <1>2
        <4>2. a <= b /\ b <= z /\ u <= b /\ b <= v /\ b \in Int BY <2>2, <2>n, <2>k, <4>1
        <4> QED BY <2>n, <2>2, <4>2
      <3> HIDE DEF x, y
      <3> QED BY <3>1, <3>2, IsInterval
    <2>4. low # {} => low \in Intervals
      <3> SUFFICES ASSUME low # {} PROVE low \in Intervals OBVIOUS
      <3>1. PICK b \in low : TRUE OBVIOUS
      <3>2. a <= b /\ b <= z /\ b < u /\ b \in Int BY <2>2, <2>n, <2>k, <2>o, <3>1
      <3> DEFINE y == IF z < u THEN z ELSE u - 1
      <3>3. y \in Parts
        <4>1. u # 0 BY <2>n, <3>2, Kinds DEF Parts
        <4> QED BY <2>n, <2>p, <4>1
      <3>4. a <= y BY <2>n, <2>2, <3>2
      <3>5. low = a..y BY <2>n, <2>2, <2>o
      <3> HIDE DEF y, low
      <3> QED BY <2>n, <3>3, <3>4, <3>5, IsInterval
    <2>5. high # {} => high \in Intervals
      <3> SUFFICES ASSUME high # {} PROVE high \in Intervals OBVIOUS
      <3>1. PICK b \in high : TRUE OBVIOUS
      <3>2. a <= b /\ b <= z /\ b > v /\ b \in Int BY <2>2, <2>n, <2>k, <2>o, <3>1
      <3> DEFINE x == IF a > v THEN a ELSE v + 1
      <3>3. x \in Parts
        <4>1. v # program.width - 1 BY <2>n, <3>2, Kinds DEF Parts
        <4> QED BY <2>n, <2>q, <4>1
      <3>4. x <= z BY <2>n, <2>2, <3>2
      <3>5. high = x..z BY <2>n, <2>2, <2>o
      <3> HIDE DEF x, high
      <3> QED BY <2>n, <3>3, <3>4, <3>5, IsInterval
    <2>6. in \subseteq r /\ low \cap r = {} /\ high \cap r = {}
      BY <2>n, <2>2, <2>o
    <2>7. low \cap high = {} BY <2>n, <2>2, <2>o, <2>k
    <2>8. \A b \in k : b \in in \/ b \in low \/ b \in high
      BY <2>n, <2>2, <2>o, <2>k
    <2>9. in \subseteq k /\ low \subseteq k /\ high \subseteq k OBVIOUS
    <2> HIDE DEF in, low, high
    <2>10. \A p, q \in Pieces(k, r) : p # q => p \cap q = {}
      BY <2>1, <2>6, <2>7
    <2>11. \A b \in k : \E p \in Pieces(k, r) : b \in p BY <2>1, <2>8
    <2>12. \A p \in Pieces(k, r) : p \subseteq k /\ (p \subseteq r \/ p \cap r = {})
      BY <2>1, <2>6, <2>9
    <2>13. Pieces(k, r) \subseteq Intervals BY <2>1, <2>3, <2>4, <2>5
    <2>14. Disjoint([p \in Pieces(k, r) |-> 0]) BY <2>10 DEF Disjoint
    <2> QED BY <2>11, <2>12, <2>13, <2>14
  <1> QED BY <1>1, <1>2

\* What is not cut stays in one piece.
LEMMA PiecesUncut ==
  ASSUME program \in Programs, NEW k \in Intervals, NEW r \in Intervals,
         k \cap r = {} \/ k = r
  PROVE  Pieces(k, r) = {k}
  <1>1. CASE k \cap r = {} BY <1>1 DEF Pieces
  <1>2. CASE k = r /\ k \cap r # {}
    <2>1. Parts \subseteq Int BY Kinds DEF Parts
    <2>2. /\ r \subseteq Parts /\ r = Min(r)..Max(r)
          /\ Min(r) \in Parts /\ Max(r) \in Parts
      BY Interval, Zenon
    <2>3. \A b \in k : b \in Int /\ ~ (b < Min(r)) /\ ~ (b > Max(r))
      <3>1. TAKE b \in k
      <3>2. b \in Min(r)..Max(r) /\ Min(r) \in Int /\ Max(r) \in Int
        BY <1>2, <2>1, <2>2
      <3> DEFINE u == Min(r)
                 v == Max(r)
      <3> HIDE DEF u, v
      <3>3. b \in u..v /\ u \in Int /\ v \in Int BY <3>2 DEF u, v
      <3>4. b \in Int /\ ~ (b < u) /\ ~ (b > v) BY <3>3
      <3> QED BY <3>4 DEF u, v
    <2>4. {b \in k : b < Min(r)} = {} /\ {b \in k : b > Max(r)} = {}
      BY <2>3, Zenon
    <2> QED BY <1>2, <2>4 DEF Pieces
  <1> QED BY <1>1, <1>2

-----------------------------------------------------------------------------
(***************************************************************************)
(* Slices that are cut, erased and merged.                                 *)
(***************************************************************************)
LEMMA SlicesType ==
  ASSUME NEW n \in Nat, NEW s \in Slices(n)
  PROVE  /\ DOMAIN s \subseteq Intervals
         /\ s \in [DOMAIN s -> SUBSET (0..n)]
  BY DEF Slices

LEMMA IsSlices ==
  ASSUME NEW n \in Nat, NEW K \in SUBSET Intervals, NEW s \in [K -> SUBSET (0..n)]
  PROVE  s \in Slices(n) /\ DOMAIN s = K
  BY DEF Slices

\* What is known of a part is the value of the only key that contains it.
LEMMA SlicedOf ==
  ASSUME NEW s, Disjoint(s), NEW b
  PROVE  /\ \A k \in DOMAIN s : b \in k => Sliced(s, b) = s[k]
         /\ (\A k \in DOMAIN s : b \notin k) => Sliced(s, b) = {}
  <1>1. ASSUME NEW k \in DOMAIN s, b \in k PROVE Sliced(s, b) = s[k]
    <2>1. {j \in DOMAIN s : b \in j} = {k} BY <1>1 DEF Disjoint
    <2> QED BY <2>1 DEF Sliced
  <1>2. ASSUME \A k \in DOMAIN s : b \notin k PROVE Sliced(s, b) = {}
    BY <1>2 DEF Sliced
  <1> QED BY <1>1, <1>2

\* What is erased or shrinks is forgotten, what grows is not.
LEMMA SlicedIn ==
  ASSUME NEW s, NEW b, NEW k \in DOMAIN s, b \in k
  PROVE  s[k] \subseteq Sliced(s, b)
  BY DEF Sliced

LEMMA SlicedType ==
  ASSUME NEW n \in Nat, NEW s \in Slices(n)
  PROVE  \A b : Sliced(s, b) \in SUBSET (0..n)
  <1>1. \A k \in DOMAIN s : s[k] \in SUBSET (0..n) BY SlicesType
  <1> QED BY <1>1 DEF Sliced

\* The parts that have a key.
Covered(slices) == UNION DOMAIN slices

\* A new partition takes the values of the old one over.
LEMMA Repartitioned ==
  ASSUME NEW n \in Nat, NEW s \in Slices(n), Disjoint(s), NEW keys \in SUBSET Intervals,
         {} \notin keys, \A p \in keys : \E k \in DOMAIN s : p \subseteq k
  PROVE  /\ Repartition(s, keys) \in Slices(n)
         /\ DOMAIN Repartition(s, keys) = keys
         /\ \A p \in keys, k \in DOMAIN s : p \subseteq k => Repartition(s, keys)[p] = s[k]
  <1> DEFINE of(p) == CHOOSE k \in DOMAIN s : p \subseteq k
             t == [p \in keys |-> s[of(p)]]
  <1>1. \A p \in keys : of(p) \in DOMAIN s /\ p \subseteq of(p) OBVIOUS
  <1>2. ASSUME NEW p \in keys, NEW k \in DOMAIN s, p \subseteq k PROVE of(p) = k
    <2>1. p # {} OBVIOUS
    <2>2. of(p) \cap k # {} BY <1>1, <1>2, <2>1
    <2> QED BY <1>1, <2>2 DEF Disjoint
  <1>3. Repartition(s, keys) = t BY DEF Repartition
  <1> HIDE DEF of
  <1>4. t \in [keys -> SUBSET (0..n)]
    <2>1. \A p \in keys : s[of(p)] \in SUBSET (0..n) BY <1>1, SlicesType
    <2> QED BY <2>1
  <1>5. t \in Slices(n) /\ DOMAIN t = keys BY <1>4, IsSlices
  <1> QED BY <1>2, <1>3, <1>5

\* Every interval has a part.
LEMMA NoEmptyKey ==
  ASSUME NEW keys \in SUBSET Intervals
  PROVE  {} \notin keys
  <1> DEFINE all == {lo..hi : lo, hi \in Parts}
  <1>1. \A r \in Intervals : r # {}
    <2>1. Intervals = all \ {{}} BY DEF Intervals
    <2> HIDE DEF all
    <2> QED BY <2>1
  <1> QED BY <1>1

\* The keys are cut at the borders of r, and keep their parts.
LEMMA CutKeysOf ==
  ASSUME program \in Programs, NEW n \in Nat, NEW s \in Slices(n), Disjoint(s), NEW r \in Intervals
  PROVE  /\ CutKeys(s, r) \in SUBSET Intervals
         /\ \A p \in CutKeys(s, r) :
              (\E k \in DOMAIN s : p \subseteq k) /\ (p \subseteq r \/ p \cap r = {})
         /\ \A p, q \in CutKeys(s, r) : p # q => p \cap q = {}
         /\ \A k \in DOMAIN s : \A b \in k : \E p \in CutKeys(s, r) : b \in p /\ p \subseteq k
         /\ Whole /\ DOMAIN s \subseteq Family /\ r \in Family => CutKeys(s, r) = DOMAIN s
  <1>1. DOMAIN s \subseteq Intervals BY SlicesType
  <1>2. \A k \in DOMAIN s :
          /\ Pieces(k, r) \subseteq Intervals
          /\ \A p \in Pieces(k, r) : p \subseteq k /\ (p \subseteq r \/ p \cap r = {})
          /\ \A p, q \in Pieces(k, r) : p # q => p \cap q = {}
          /\ \A b \in k : \E p \in Pieces(k, r) : b \in p
    <2> TAKE k \in DOMAIN s
    <2>1. k \in Intervals BY <1>1
    <2>2. Disjoint([p \in Pieces(k, r) |-> 0]) BY <2>1, PiecesPartition
    <2>3. \A p, q \in Pieces(k, r) : p # q => p \cap q = {} BY <2>2, Zenon DEF Disjoint
    <2> QED BY <2>1, <2>3, PiecesPartition
  <1>3. \A p : p \in CutKeys(s, r) <=> \E k \in DOMAIN s : p \in Pieces(k, r)
    BY DEF CutKeys
  <1>4. CutKeys(s, r) \in SUBSET Intervals BY <1>2, <1>3
  <1>5. \A p \in CutKeys(s, r) :
          (\E k \in DOMAIN s : p \subseteq k) /\ (p \subseteq r \/ p \cap r = {})
    BY <1>2, <1>3
  <1>6. ASSUME NEW p \in CutKeys(s, r), NEW q \in CutKeys(s, r), p # q PROVE p \cap q = {}
    <2>1. PICK k \in DOMAIN s : p \in Pieces(k, r) BY <1>3
    <2>2. PICK j \in DOMAIN s : q \in Pieces(j, r) BY <1>3
    <2>3. CASE k = j BY <1>2, <1>6, <2>1, <2>2, <2>3
    <2>4. CASE k # j
      <3>1. k \cap j = {} BY <2>4 DEF Disjoint
      <3>2. p \subseteq k /\ q \subseteq j BY <1>2, <2>1, <2>2
      <3> QED BY <3>1, <3>2
    <2> QED BY <2>3, <2>4
  <1>7. ASSUME NEW k \in DOMAIN s, NEW b \in k
        PROVE  \E p \in CutKeys(s, r) : b \in p /\ p \subseteq k
    <2>1. PICK p \in Pieces(k, r) : b \in p BY <1>2
    <2>2. p \subseteq k /\ p \in CutKeys(s, r) BY <1>2, <1>3, <2>1
    <2> QED BY <2>1, <2>2
  <1>8. ASSUME Whole, DOMAIN s \subseteq Family, r \in Family PROVE CutKeys(s, r) = DOMAIN s
    <2>1. ASSUME NEW k \in DOMAIN s PROVE Pieces(k, r) = {k}
      <3>1. k \in Family /\ k \in Intervals BY <1>1, <1>8
      <3>2. CASE program.kind = "bits"
        BY <1>8, <3>1, <3>2, PiecesUncut DEF Family, Whole, Overlapping
      <3>3. CASE program.kind # "bits"
        <4>1. PICK b \in Parts : k = {b} BY <3>1, <3>3 DEF Family
        <4>2. PICK c \in Parts : r = {c} BY <1>8, <3>3 DEF Family
        <4>3. k \cap r = {} \/ k = r BY <4>1, <4>2
        <4> QED BY <3>1, <4>3, PiecesUncut
      <3> QED BY <3>2, <3>3
    <2>2. ASSUME NEW p PROVE p \in CutKeys(s, r) <=> p \in DOMAIN s BY <1>3, <2>1
    <2> QED BY <2>2
  <1> QED BY <1>4, <1>5, <1>6, <1>7, <1>8

\* A part whose key is only cut keeps its defs.
LEMMA KeptParts ==
  ASSUME NEW n \in Nat, NEW s \in Slices(n), Disjoint(s), NEW keys \in SUBSET Intervals,
         \A p \in keys : \E k \in DOMAIN s : p \subseteq k,
         \A p, q \in keys : p # q => p \cap q = {},
         NEW b, \A k \in DOMAIN s : b \in k => \E p \in keys : b \in p /\ p \subseteq k
  PROVE  Sliced(Repartition(s, keys), b) = Sliced(s, b)
  <1> DEFINE t == Repartition(s, keys)
  <1>1. {} \notin keys BY NoEmptyKey
  <1>2. /\ DOMAIN t = keys
        /\ \A p \in keys, k \in DOMAIN s : p \subseteq k => t[p] = s[k]
    BY <1>1, Repartitioned
  <1> HIDE DEF t
  <1>3. Disjoint(t) BY <1>2 DEF Disjoint
  <1>4. CASE \E k \in DOMAIN s : b \in k
    <2>1. PICK k \in DOMAIN s : b \in k BY <1>4
    <2>2. PICK p \in keys : b \in p /\ p \subseteq k BY <2>1
    <2>3. t[p] = s[k] BY <1>2, <2>2
    <2>4. Sliced(s, b) = s[k] BY <2>1, SlicedOf
    <2>5. Sliced(t, b) = t[p] BY <1>2, <1>3, <2>2, SlicedOf
    <2> QED BY <2>3, <2>4, <2>5 DEF t
  <1>5. CASE \A k \in DOMAIN s : b \notin k
    <2>1. \A p \in DOMAIN t : b \notin p BY <1>2, <1>5
    <2>2. Sliced(t, b) = {} BY <1>3, <2>1, SlicedOf
    <2>3. Sliced(s, b) = {} BY <1>5, SlicedOf
    <2> QED BY <2>2, <2>3 DEF t
  <1> QED BY <1>4, <1>5

\* erase_slice forgets what is known of the parts in r, and nothing else.
LEMMA Erased ==
  ASSUME program \in Programs, NEW n \in Nat, NEW s \in Slices(n), Disjoint(s),
         InFamily(s), NEW r \in Intervals, Whole => r \in Family
  PROVE  LET e == erase_slice(s, r)
         IN  /\ e \in Slices(n) /\ Disjoint(e) /\ InFamily(e)
             /\ \A k \in DOMAIN e : k \cap r = {}
             /\ \A b : b \notin r => Sliced(e, b) = Sliced(s, b)
  <1> DEFINE keys == {k \in CutKeys(s, r) : ~ (k \subseteq r)}
             e == Repartition(s, keys)
  <1>1. /\ keys \in SUBSET Intervals
        /\ \A p \in keys : (\E k \in DOMAIN s : p \subseteq k) /\ p \cap r = {}
        /\ \A p, q \in keys : p # q => p \cap q = {}
        /\ Whole => keys \subseteq Family
    BY CutKeysOf DEF InFamily
  <1>2. \A b : b \notin r =>
          \A k \in DOMAIN s : b \in k => \E p \in keys : b \in p /\ p \subseteq k
    <2> TAKE b
    <2> HAVE b \notin r
    <2> TAKE k \in DOMAIN s
    <2> HAVE b \in k
    <2>1. PICK p \in CutKeys(s, r) : b \in p /\ p \subseteq k BY CutKeysOf
    <2>2. p \in keys BY <2>1
    <2> QED BY <2>1, <2>2
  <1>3. erase_slice(s, r) = e BY DEF erase_slice
  <1> HIDE DEF keys
  <1>4. {} \notin keys BY <1>1, NoEmptyKey
  <1>5. e \in Slices(n) /\ DOMAIN e = keys BY <1>1, <1>4, Repartitioned
  <1>6. Disjoint(e) BY <1>1, <1>5 DEF Disjoint
  <1>7. \A b : b \notin r => Sliced(e, b) = Sliced(s, b) BY <1>1, <1>2, KeptParts
  <1> HIDE DEF e
  <1>8. InFamily(e) BY <1>1, <1>5 DEF InFamily
  <1> QED BY <1>1, <1>3, <1>5, <1>6, <1>7, <1>8

\* Put gives a range a value.
LEMMA PutSlice ==
  ASSUME NEW n \in Nat, NEW s \in Slices(n), NEW r \in Intervals, NEW v \in SUBSET (0..n)
  PROVE  /\ Put(s, r, v) \in Slices(n)
         /\ DOMAIN Put(s, r, v) = DOMAIN s \cup {r}
         /\ Put(s, r, v)[r] = v
         /\ \A k \in DOMAIN s : k # r => Put(s, r, v)[k] = s[k]
  <1> DEFINE K == DOMAIN s \cup {r}
  <1>1. K \in SUBSET Intervals BY SlicesType
  <1>2. s \in [DOMAIN s -> SUBSET (0..n)] BY SlicesType
  <1>3. Put(s, r, v) \in [K -> SUBSET (0..n)] BY <1>2 DEF Put
  <1>4. Put(s, r, v) \in Slices(n) /\ DOMAIN Put(s, r, v) = K BY <1>1, <1>3, IsSlices, Zenon
  <1> QED BY <1>4 DEF Put

\* A range that meets no key, or is one, leaves what is known of other parts alone.
LEMMA PutSliced ==
  ASSUME NEW n \in Nat, NEW s \in Slices(n), Disjoint(s), NEW r \in Intervals,
         \A k \in DOMAIN s : k = r \/ k \cap r = {}, NEW v \in SUBSET (0..n)
  PROVE  /\ Disjoint(Put(s, r, v))
         /\ \A b : Sliced(Put(s, r, v), b) = IF b \in r THEN v ELSE Sliced(s, b)
  <1> DEFINE t == Put(s, r, v)
  <1>1. /\ DOMAIN t = DOMAIN s \cup {r} /\ t[r] = v
        /\ \A k \in DOMAIN s : k # r => t[k] = s[k]
    BY PutSlice
  <1> HIDE DEF t
  <1>2. Disjoint(t) BY <1>1 DEF Disjoint
  <1>3. ASSUME NEW b PROVE Sliced(t, b) = IF b \in r THEN v ELSE Sliced(s, b)
    <2>1. CASE b \in r BY <1>1, <1>2, <2>1, SlicedOf
    <2>2. CASE b \notin r /\ \E k \in DOMAIN s : b \in k
      <3>1. PICK k \in DOMAIN s : b \in k BY <2>2
      <3>2. k # r /\ k \in DOMAIN t /\ t[k] = s[k] BY <1>1, <2>2, <3>1
      <3> QED BY <1>2, <2>2, <3>1, <3>2, SlicedOf
    <2>3. CASE b \notin r /\ \A k \in DOMAIN s : b \notin k
      <3>1. \A k \in DOMAIN t : b \notin k BY <1>1, <2>3
      <3> QED BY <1>2, <2>3, <3>1, SlicedOf
    <2> QED BY <2>1, <2>2, <2>3
  <1> QED BY <1>2, <1>3 DEF t

\* split_slice cuts keys at the borders of r, and knows of each part what was known.
\* It makes a key for r only where no part of r has one.
LEMMA Split ==
  ASSUME program \in Programs, NEW n \in Nat, NEW s \in Slices(n), Disjoint(s),
         InFamily(s), NEW r \in Intervals, Whole => r \in Family
  PROVE  LET cut == split_slice(s, r)
         IN  /\ cut \in Slices(n) /\ Disjoint(cut) /\ InFamily(cut)
             /\ \A b : Sliced(cut, b) = Sliced(s, b)
             /\ Covered(s) \subseteq Covered(cut) /\ Covered(cut) \subseteq Covered(s) \cup r
             /\ r \ Gap(s, r) \subseteq Covered(cut)
  <1>1. CASE \A k \in DOMAIN s : k \cap r = {}
    <2> DEFINE t == Put(s, r, {})
    <2>1. split_slice(s, r) = t BY <1>1 DEF split_slice
    <2>2. {} \in SUBSET (0..n) OBVIOUS
    <2>3. t \in Slices(n) /\ DOMAIN t = DOMAIN s \cup {r} BY <2>2, PutSlice
    <2>4. Disjoint(t) /\ \A b : Sliced(t, b) = IF b \in r THEN {} ELSE Sliced(s, b)
      BY <1>1, <2>2, PutSliced
    <2>5. \A b \in r : Sliced(s, b) = {}
      <3> TAKE b \in r
      <3>1. \A k \in DOMAIN s : b \notin k BY <1>1
      <3> QED BY <3>1, SlicedOf
    <2> HIDE DEF t
    <2>6. InFamily(t) BY <2>3 DEF InFamily
    <2>7. Covered(t) = Covered(s) \cup r BY <2>3 DEF Covered
    <2> QED BY <2>1, <2>3, <2>4, <2>5, <2>6, <2>7
  <1>2. CASE \E k \in DOMAIN s : k \cap r # {}
    <2> DEFINE keys == CutKeys(s, r)
               t == Repartition(s, keys)
    <2>1. split_slice(s, r) = t BY <1>2, Zenon DEF split_slice
    <2>2. /\ keys \in SUBSET Intervals
          /\ \A p \in keys : \E k \in DOMAIN s : p \subseteq k
          /\ \A p, q \in keys : p # q => p \cap q = {}
          /\ \A k \in DOMAIN s : \A b \in k : \E p \in keys : b \in p /\ p \subseteq k
          /\ Whole => keys = DOMAIN s
      BY CutKeysOf DEF InFamily
    <2> HIDE DEF keys
    <2>3. {} \notin keys BY <2>2, NoEmptyKey
    <2>4. t \in Slices(n) /\ DOMAIN t = keys BY <2>2, <2>3, Repartitioned
    <2>5. Disjoint(t) BY <2>2, <2>4 DEF Disjoint
    <2>6. \A b : Sliced(t, b) = Sliced(s, b) BY <2>2, KeptParts
    <2> HIDE DEF t
    <2>7. InFamily(t) BY <2>2, <2>4 DEF InFamily
    <2>8. Covered(t) = Covered(s)
      <3>1. \A b : (\E p \in keys : b \in p) <=> \E k \in DOMAIN s : b \in k BY <2>2
      <3> QED BY <2>4, <3>1 DEF Covered
    <2>9. Gap(s, r) = r \ Covered(s) BY <1>2 DEF Gap, Covered
    <2> QED BY <2>1, <2>4, <2>5, <2>6, <2>7, <2>8, <2>9
  <1> QED BY <1>1, <1>2

\* Slices that are each written as a whole or not at all leave no gaps.
LEMMA NoGap ==
  ASSUME Whole, NEW s, InFamily(s), NEW r \in Family
  PROVE  Gap(s, r) = {}
  <1>1. CASE \A k \in DOMAIN s : k \cap r = {} BY <1>1 DEF Gap
  <1>2. CASE \E k \in DOMAIN s : k \cap r # {}
    <2>1. PICK k \in DOMAIN s : k \cap r # {} BY <1>2
    <2>2. k \in Family /\ r \in Family BY DEF InFamily
    <2>3. k = r
      <3>1. CASE program.kind = "bits"
        BY <2>1, <2>2, <3>1 DEF Family, Whole, Overlapping
      <3>2. CASE program.kind # "bits"
        <4>1. PICK b \in Parts : k = {b} BY <2>2, <3>2 DEF Family
        <4>2. PICK c \in Parts : r = {c} BY <2>2, <3>2 DEF Family
        <4> QED BY <2>1, <4>1, <4>2
      <3> QED BY <3>1, <3>2
    <2> QED BY <2>3 DEF Gap
  <1> QED BY <1>1, <1>2

\* One slice of the flow that is merged: nothing that was known is lost, and what
\* the other flow knows of r is added, where there is no gap.
LEMMA MergedSlice ==
  ASSUME program \in Programs, NEW n \in Nat, NEW s \in Slices(n), Disjoint(s),
         InFamily(s), NEW r \in Intervals, Whole => r \in Family, NEW v \in SUBSET (0..n)
  PROVE  LET m == MergeSlice(r, v, s)
         IN  /\ m \in Slices(n) /\ Disjoint(m) /\ InFamily(m)
             /\ \A b : Sliced(s, b) \subseteq Sliced(m, b)
             /\ Covered(s) \subseteq Covered(m) /\ Covered(m) \subseteq Covered(s) \cup r
             /\ \A b \in r \ Gap(s, r) : v \subseteq Sliced(m, b)
  <1> DEFINE cut == split_slice(s, r)
             m == [k \in DOMAIN cut |-> IF k \cap r = {} THEN cut[k] ELSE cut[k] \cup v]
  <1>1. MergeSlice(r, v, s) = m BY DEF MergeSlice
  <1>2. /\ cut \in Slices(n) /\ Disjoint(cut) /\ InFamily(cut)
        /\ \A b : Sliced(cut, b) = Sliced(s, b)
        /\ Covered(s) \subseteq Covered(cut) /\ Covered(cut) \subseteq Covered(s) \cup r
        /\ r \ Gap(s, r) \subseteq Covered(cut)
    BY Split
  <1> HIDE DEF cut
  <1>3. DOMAIN cut \in SUBSET Intervals /\ cut \in [DOMAIN cut -> SUBSET (0..n)]
    BY <1>2, SlicesType
  <1>4. m \in [DOMAIN cut -> SUBSET (0..n)] BY <1>3
  <1>5. m \in Slices(n) /\ DOMAIN m = DOMAIN cut BY <1>3, <1>4, IsSlices, Zenon
  <1>6. \A k \in DOMAIN cut : cut[k] \subseteq m[k] OBVIOUS
  <1>7. \A k \in DOMAIN cut : k \cap r # {} => v \subseteq m[k] OBVIOUS
  <1> HIDE DEF m
  <1>8. Disjoint(m) BY <1>2, <1>5 DEF Disjoint
  <1>9. InFamily(m) BY <1>2, <1>5 DEF InFamily
  <1>10. \A b : Sliced(cut, b) \subseteq Sliced(m, b) BY <1>5, <1>6 DEF Sliced
  <1>11. Covered(m) = Covered(cut) BY <1>5 DEF Covered
  <1>12. ASSUME NEW b \in r \ Gap(s, r) PROVE v \subseteq Sliced(m, b)
    <2>1. PICK k \in DOMAIN cut : b \in k BY <1>2, <1>12 DEF Covered
    <2>2. v \subseteq m[k] BY <1>7, <1>12, <2>1
    <2>3. m[k] \subseteq Sliced(m, b) BY <1>5, <2>1, SlicedIn
    <2> QED BY <2>2, <2>3
  <1> QED BY <1>1, <1>2, <1>5, <1>8, <1>9, <1>10, <1>11, <1>12

-----------------------------------------------------------------------------
(***************************************************************************)
(* MergeSlices goes over the slices of the other flow one by one.  It is   *)
(* a recursive function on the sets of slices gone over so far; that there *)
(* is such a function is shown from approximations that are right for sets *)
(* of at most c slices.                                                    *)
(***************************************************************************)
LEMMA FinitelyMany ==
  ASSUME program \in Programs, NEW n \in Nat, NEW s \in Slices(n)
  PROVE  IsFiniteSet(DOMAIN s)
  <1>1. IsFiniteSet(Parts)
    <2>1. program.width - 1 \in Int BY Kinds
    <2> QED BY <2>1, FS_Interval, SMTT(30) DEF Parts
  <1>2. IsFiniteSet(SUBSET Parts) BY <1>1, FS_SUBSET
  <1>3. DOMAIN s \in SUBSET (SUBSET Parts)
    <2>1. DOMAIN s \subseteq Intervals BY SlicesType
    <2>2. \A k \in Intervals : k \subseteq Parts BY Interval
    <2> QED BY <2>1, <2>2
  <1> QED BY <1>2, <1>3, FS_Subset

\* What the slices in S add to f of the others.
Round(s, more, f, S) ==
  IF S = {} THEN s
  ELSE LET r == CHOOSE r \in S : TRUE
       IN  MergeSlice(r, more[r], f[S \ {r}])

Approximates(s, more, f, c) ==
  /\ f = [S \in SUBSET DOMAIN more |-> f[S]]
  /\ \A S \in SUBSET DOMAIN more : Cardinality(S) <= c => f[S] = Round(s, more, f, S)

\* The set that is left once one slice of S has been gone over.
LEMMA OneLess ==
  ASSUME NEW D, IsFiniteSet(D), NEW S \in SUBSET D, S # {}
  PROVE  LET r == CHOOSE r \in S : TRUE
         IN  /\ r \in S /\ S \ {r} \in SUBSET D /\ S \ {r} # S
             /\ Cardinality(S) \in Nat /\ Cardinality(S \ {r}) \in Nat
             /\ Cardinality(S \ {r}) < Cardinality(S)
  <1> DEFINE r == CHOOSE r \in S : TRUE
  <1>1. r \in S OBVIOUS
  <1>2. IsFiniteSet(S) BY FS_Subset
  <1>3. Cardinality(S) \in Nat BY <1>2, FS_CardinalityType
  <1> HIDE DEF r
  <1>4. IsFiniteSet(S \ {r}) /\ Cardinality(S \ {r}) = Cardinality(S) - 1
    BY <1>1, <1>2, FS_RemoveElement
  <1>5. Cardinality(S \ {r}) \in Nat BY <1>4, FS_CardinalityType
  <1>6. S \ {r} \in SUBSET D /\ S \ {r} # S BY <1>1
  <1>7. Cardinality(S \ {r}) < Cardinality(S) BY <1>3, <1>4
  <1> QED BY <1>1, <1>3, <1>5, <1>6, <1>7 DEF r

LEMMA Approximations ==
  ASSUME NEW s, NEW more, IsFiniteSet(DOMAIN more), NEW c \in Nat
  PROVE  \E f : Approximates(s, more, f, c)
  <1> DEFINE D == DOMAIN more
             Bad == {x \in Nat : ~ \E f : Approximates(s, more, f, x)}
  <1>1. SUFFICES ASSUME Bad # {} PROVE FALSE BY Zenon
  <1>2. PICK x \in Bad : \A y \in Bad : x <= y
    <2> HIDE DEF Bad
    <2>1. Bad \in SUBSET Nat BY DEF Bad
    <2> QED BY <1>1, <2>1, LeastOf
  <1>3. x \in Nat /\ ~ \E f : Approximates(s, more, f, x) BY <1>2
  <1>4. \A S \in SUBSET D : Cardinality(S) \in Nat
    <2> TAKE S \in SUBSET D
    <2>1. IsFiniteSet(S) BY FS_Subset
    <2> QED BY <2>1, FS_CardinalityType
  <1>5. CASE x = 0
    <2> DEFINE f == [S \in SUBSET D |-> s]
    <2>1. \A S \in SUBSET D : Cardinality(S) <= 0 => S = {}
      <3> TAKE S \in SUBSET D
      <3>1. IsFiniteSet(S) BY FS_Subset
      <3> QED BY <1>4, <3>1, FS_EmptySet
    <2>2. \A S \in SUBSET D : Cardinality(S) <= 0 => f[S] = Round(s, more, f, S)
      BY <2>1 DEF Round
    <2>3. f = [S \in SUBSET D |-> f[S]] OBVIOUS
    <2>4. Approximates(s, more, f, x) BY <1>5, <2>2, <2>3 DEF Approximates
    <2> QED BY <1>3, <2>4
  <1>6. CASE x # 0
    <2>1. x - 1 \in Nat /\ ~ (x <= x - 1) BY <1>3, <1>6
    <2>2. x - 1 \notin Bad BY <1>2, <2>1
    <2>3. PICK f : Approximates(s, more, f, x - 1) BY <2>1, <2>2, Zenon
    <2> DEFINE g == [S \in SUBSET D |->
                       IF Cardinality(S) <= x - 1 THEN f[S] ELSE Round(s, more, f, S)]
    <2>4. \A S \in SUBSET D : g[S] = Round(s, more, f, S)
      BY <2>3 DEF Approximates
    <2>5. ASSUME NEW S \in SUBSET D, Cardinality(S) <= x
          PROVE  Round(s, more, f, S) = Round(s, more, g, S)
      <3>1. CASE S = {} BY <3>1 DEF Round
      <3>2. CASE S # {}
        <4> DEFINE r == CHOOSE r \in S : TRUE
        <4>1. /\ S \ {r} \in SUBSET D /\ Cardinality(S \ {r}) < Cardinality(S)
              /\ Cardinality(S) \in Nat /\ Cardinality(S \ {r}) \in Nat
          BY <3>2, OneLess, Zenon
        <4> HIDE DEF r
        <4>2. Cardinality(S \ {r}) <= x - 1 BY <1>3, <2>5, <4>1
        <4>3. g[S \ {r}] = f[S \ {r}] BY <4>1, <4>2
        <4> HIDE DEF g
        <4> QED BY <3>2, <4>3, Zenon DEF Round, r
      <3> QED BY <3>1, <3>2
    <2>6. g = [S \in SUBSET D |-> g[S]] OBVIOUS
    <2> HIDE DEF g
    <2>7. Approximates(s, more, g, x) BY <2>4, <2>5, <2>6 DEF Approximates
    <2> QED BY <1>3, <2>7
  <1> QED BY <1>5, <1>6

\* MergeSlices is that function.
LEMMA MergeSlicesRound ==
  ASSUME NEW s, NEW more, IsFiniteSet(DOMAIN more)
  PROVE  \E f : /\ MergeSlices(s, more) = f[DOMAIN more]
                /\ \A S \in SUBSET DOMAIN more : f[S] = Round(s, more, f, S)
  <1> DEFINE D == DOMAIN more
             Solves(f) == f = [S \in SUBSET D |->
                                 IF S = {} THEN s
                                 ELSE LET r == CHOOSE r \in S : TRUE
                                      IN  MergeSlice(r, more[r], f[S \ {r}])]
  <1>1. Cardinality(D) \in Nat BY FS_CardinalityType
  <1>2. PICK f : Approximates(s, more, f, Cardinality(D)) BY <1>1, Approximations
  <1>3. \A S \in SUBSET D : f[S] = Round(s, more, f, S)
    <2> TAKE S \in SUBSET D
    <2>1. Cardinality(S) <= Cardinality(D) BY FS_Subset
    <2> QED BY <1>2, <2>1 DEF Approximates
  <1>4. f = [S \in SUBSET D |-> Round(s, more, f, S)]
    <2>1. f = [S \in SUBSET D |-> f[S]] BY <1>2 DEF Approximates
    <2> QED BY <1>3, <2>1
  <1>5. Solves(f) BY <1>4, Zenon DEF Round
  <1> DEFINE g == CHOOSE g : Solves(g)
  <1>6. Solves(g) BY <1>5, ZenonT(30)
  <1>7. MergeSlices(s, more) = g[D] BY DEF MergeSlices
  <1> HIDE DEF g
  <1>8. \A S \in SUBSET D : g[S] = Round(s, more, g, S) BY <1>6, Zenon DEF Round
  <1> QED BY <1>7, <1>8

\* Slices t that have taken the slices S of another flow over.
Merged(s, more, S, t, n) ==
  /\ t \in Slices(n) /\ Disjoint(t) /\ InFamily(t)
  /\ \A b : Sliced(s, b) \subseteq Sliced(t, b)
  /\ Covered(s) \subseteq Covered(t) /\ Covered(t) \subseteq Covered(s) \cup UNION S
  /\ \A r \in S : \A b \in r \ Gap(s, r) : more[r] \subseteq Sliced(t, b)

\* Flows that are merged lose nothing that either knew, except in gaps.
LEMMA MergedFlows ==
  ASSUME program \in Programs, NEW n \in Nat, NEW s \in Slices(n), Disjoint(s),
         InFamily(s), NEW more \in Slices(n), Disjoint(more), InFamily(more)
  PROVE  LET t == MergeSlices(s, more)
         IN  /\ t \in Slices(n) /\ Disjoint(t) /\ InFamily(t)
             /\ \A b : Sliced(s, b) \subseteq Sliced(t, b)
             /\ \A b : Sliced(more, b) \subseteq Sliced(t, b) \cup Missed(s, more, b)
             /\ \A b : Missed(s, more, b) \in SUBSET (0..n)
             /\ Whole => \A b : Missed(s, more, b) = {}
             /\ DOMAIN more = {} => t = s
  <1> DEFINE D == DOMAIN more
             t == MergeSlices(s, more)
  <1>1. IsFiniteSet(D) BY FinitelyMany
  <1>2. PICK f : t = f[D] /\ \A S \in SUBSET D : f[S] = Round(s, more, f, S)
    BY <1>1, MergeSlicesRound, Zenon
  <1> HIDE DEF t
  <1>3. \A r \in D : r \in Intervals /\ (Whole => r \in Family) /\ more[r] \in SUBSET (0..n)
    BY SlicesType DEF InFamily
  <1>4. \A S \in SUBSET D : Merged(s, more, S, f[S], n)
    <2> DEFINE Bad == {c \in Nat : \E S \in SUBSET D :
                         Cardinality(S) = c /\ ~ Merged(s, more, S, f[S], n)}
    <2>1. SUFFICES ASSUME Bad # {} PROVE FALSE
      <3> SUFFICES ASSUME NEW S \in SUBSET D, ~ Merged(s, more, S, f[S], n) PROVE Bad # {}
        OBVIOUS
      <3>1. IsFiniteSet(S) BY <1>1, FS_Subset
      <3>2. Cardinality(S) \in Nat BY <3>1, FS_CardinalityType
      <3>3. Cardinality(S) \in Bad BY <3>2
      <3> QED BY <3>3
    <2>2. PICK c \in Bad : \A y \in Bad : c <= y
      <3> HIDE DEF Bad
      <3>1. Bad \in SUBSET Nat BY DEF Bad
      <3> QED BY <2>1, <3>1, LeastOf
    <2>3. PICK S \in SUBSET D : Cardinality(S) = c /\ ~ Merged(s, more, S, f[S], n)
      BY <2>2
    <2>4. CASE S = {}
      <3>1. f[S] = s BY <1>2, <2>4 DEF Round
      <3>2. Merged(s, more, S, s, n) BY <2>4 DEF Merged
      <3> QED BY <2>3, <3>1, <3>2
    <2>5. CASE S # {}
      <3> DEFINE r == CHOOSE r \in S : TRUE
                 u == f[S \ {r}]
                 v == MergeSlice(r, more[r], u)
      <3>1. /\ r \in S /\ S \ {r} \in SUBSET D
            /\ Cardinality(S) \in Nat /\ Cardinality(S \ {r}) \in Nat
            /\ Cardinality(S \ {r}) < Cardinality(S)
        BY <1>1, <2>5, OneLess, ZenonT(30)
      <3>2. f[S] = v BY <1>2, <2>5, Zenon DEF Round
      <3> HIDE DEF r
      <3>3. Merged(s, more, S \ {r}, u, n)
        <4>1. ~ (c <= Cardinality(S \ {r})) BY <2>3, <3>1
        <4>2. Cardinality(S \ {r}) \notin Bad
          <5> HIDE DEF Bad
          <5> QED BY <2>2, <4>1
        <4> QED BY <3>1, <4>2
      <3> HIDE DEF u
      <3>4. u \in Slices(n) /\ Disjoint(u) /\ InFamily(u) BY <3>3 DEF Merged
      <3>5. r \in Intervals /\ (Whole => r \in Family) /\ more[r] \in SUBSET (0..n)
        BY <1>3, <3>1
      <3>6. /\ v \in Slices(n) /\ Disjoint(v) /\ InFamily(v)
            /\ \A b : Sliced(u, b) \subseteq Sliced(v, b)
            /\ Covered(u) \subseteq Covered(v) /\ Covered(v) \subseteq Covered(u) \cup r
            /\ \A b \in r \ Gap(u, r) : more[r] \subseteq Sliced(v, b)
        BY <3>4, <3>5, MergedSlice
      <3> HIDE DEF v
      <3>7. \A b : Sliced(s, b) \subseteq Sliced(v, b) BY <3>3, <3>6 DEF Merged
      <3>8. /\ Covered(s) \subseteq Covered(u) /\ Covered(u) \subseteq Covered(s) \cup UNION (S \ {r})
            /\ \A q \in S \ {r} : \A b \in q \ Gap(s, q) : more[q] \subseteq Sliced(u, b)
        BY <3>3 DEF Merged
      <3>9. Covered(s) \subseteq Covered(v) /\ Covered(v) \subseteq Covered(s) \cup UNION S
        <4>1. r \subseteq UNION S /\ UNION (S \ {r}) \subseteq UNION S BY <3>1
        <4> QED BY <3>6, <3>8, <4>1
      <3>10. Gap(u, r) \subseteq Gap(s, r)
        <4> SUFFICES ASSUME NEW b \in Gap(u, r) PROVE b \in Gap(s, r) OBVIOUS
        <4>1. b \in r \ Covered(u) /\ \E k \in DOMAIN u : k \cap r # {} BY DEF Gap, Covered
        <4>2. PICK x \in r : x \in Covered(u) BY <4>1 DEF Covered
        <4>3. x \notin UNION (S \ {r})
          <5>1. \A q \in S \ {r} : q \in D /\ q # r BY <3>1
          <5>2. \A q \in S \ {r} : q \cap r = {} BY <3>1, <5>1 DEF Disjoint
          <5> QED BY <5>2
        <4>4. x \in Covered(s) BY <3>8, <4>2, <4>3
        <4>5. b \notin Covered(s) BY <3>8, <4>1
        <4> QED BY <4>1, <4>4, <4>5 DEF Gap, Covered
      <3>11. ASSUME NEW q \in S, NEW b \in q \ Gap(s, q) PROVE more[q] \subseteq Sliced(v, b)
        <4>1. CASE q = r
          <5>1. b \in r \ Gap(u, r) BY <3>10, <3>11, <4>1
          <5> QED BY <3>6, <4>1, <5>1
        <4>2. CASE q # r
          <5>1. more[q] \subseteq Sliced(u, b) BY <3>8, <3>11, <4>2
          <5> QED BY <3>6, <5>1
        <4> QED BY <4>1, <4>2
      <3>12. Merged(s, more, S, v, n) BY <3>6, <3>7, <3>9, <3>11 DEF Merged
      <3> QED BY <2>3, <3>2, <3>12
    <2> QED BY <2>4, <2>5
  <1>5. Merged(s, more, D, t, n) BY <1>2, <1>4
  <1>6. ASSUME NEW b PROVE Sliced(more, b) \subseteq Sliced(t, b) \cup Missed(s, more, b)
    <2>1. ASSUME NEW r \in D, b \in r
          PROVE  more[r] \subseteq Sliced(t, b) \cup Missed(s, more, b)
      <3>1. CASE b \in Gap(s, r) BY <2>1, <3>1 DEF Missed
      <3>2. CASE b \notin Gap(s, r) BY <1>5, <2>1, <3>2 DEF Merged
      <3> QED BY <3>1, <3>2
    <2> HIDE DEF D
    <2>2. Sliced(more, b) = UNION {more[k] : k \in {j \in D : b \in j}} BY DEF Sliced, D
    <2> QED BY <2>1, <2>2
  <1>7. D = {} => t = s BY <1>2 DEF Round
  <1>8. \A b : Missed(s, more, b) \in SUBSET (0..n) BY <1>3 DEF Missed
  <1>9. ASSUME Whole PROVE \A b : Missed(s, more, b) = {}
    <2>1. \A r \in D : Gap(s, r) = {} BY <1>3, <1>9, NoGap
    <2> QED BY <2>1 DEF Missed
  <1> QED BY <1>5, <1>6, <1>7, <1>8, <1>9 DEF Merged, t

-----------------------------------------------------------------------------
(***************************************************************************)
(* What each write leaves behind is a FlowOK again.                        *)
(***************************************************************************)
LEMMA Grows ==
  ASSUME NEW n \in Nat
  PROVE  /\ Slices(n) \subseteq Slices(n + 1)
         /\ Info(n) \subseteq Info(n + 1)
         /\ History(n) \subseteq History(n + 1)
  <1>1. SUBSET (0..n) \subseteq SUBSET (0..(n + 1)) OBVIOUS
  <1>2. ASSUME NEW s \in Slices(n) PROVE s \in Slices(n + 1)
    <2>1. DOMAIN s \in SUBSET Intervals /\ s \in [DOMAIN s -> SUBSET (0..n)] BY SlicesType
    <2>2. s \in [DOMAIN s -> SUBSET (0..(n + 1))] BY <1>1, <2>1
    <2>3. n + 1 \in Nat OBVIOUS
    <2> QED BY <2>1, <2>2, <2>3, IsSlices
  <1>3. Info(n) \subseteq Info(n + 1) BY <1>1, <1>2 DEF Info
  <1>4. History(n) \subseteq History(n + 1) BY <1>1 DEF History
  <1> QED BY <1>2, <1>3, <1>4

LEMMA NoSlicesOK ==
  ASSUME NEW n \in Nat
  PROVE  /\ NoSlices \in Slices(n) /\ DOMAIN NoSlices = {}
         /\ Disjoint(NoSlices) /\ InFamily(NoSlices)
         /\ \A b : Sliced(NoSlices, b) = {}
  <1>1. DOMAIN NoSlices = {} BY DEF NoSlices
  <1>2. NoSlices \in [{} -> SUBSET (0..n)] BY DEF NoSlices
  <1>3. NoSlices \in Slices(n) BY <1>2, IsSlices
  <1>4. Disjoint(NoSlices) BY <1>1 DEF Disjoint
  <1>5. InFamily(NoSlices) BY <1>1 DEF InFamily
  <1>6. \A b : Sliced(NoSlices, b) = {} BY <1>1 DEF Sliced
  <1> QED BY <1>1, <1>3, <1>4, <1>5, <1>6

\* What the invariant says of the running visitor.
LEMMA Running ==
  ASSUME IInv
  PROVE  /\ program \in Programs /\ writes \in Nat /\ writes + 1 \in Nat
         /\ program.width \in Nat \ {0} /\ merged \in BOOLEAN
         /\ di = [defs |-> di.defs, live |-> di.live, slices |-> di.slices]
         /\ di.defs \in SUBSET (0..writes) /\ di.live \in SUBSET Parts
         /\ di.slices \in Slices(writes) /\ di.slices \in Slices(writes + 1)
         /\ Disjoint(di.slices) /\ InFamily(di.slices)
         /\ di.live = {} => di.defs = {}
         /\ Unsliced => DOMAIN di.slices = {}
         /\ reach \in History(writes) /\ reach \in History(writes + 1)
         /\ dropped \in History(writes) /\ dropped \in History(writes + 1)
         /\ \A b \in Parts : reach[b] \subseteq Found(di, b) \cup dropped[b]
         /\ Clean(merged) => \A b \in Parts : dropped[b] = {}
         /\ Exact(merged) => FieldsOK(di) /\ \A b \in Parts : reach[b] = Found(di, b)
  <1>1. program \in Programs /\ writes \in Def /\ merged \in BOOLEAN BY DEF IInv
  <1>2. writes \in Nat /\ writes + 1 \in Nat /\ program.width \in Nat \ {0}
    BY <1>1, Kinds DEF Def
  <1>3. FlowOK(di, reach, dropped, writes, merged) BY DEF IInv
  <1>4. InfoOK(di, writes) /\ reach \in History(writes) /\ dropped \in History(writes)
    BY <1>3 DEF FlowOK
  <1>5. di \in Info(writes) BY <1>4 DEF InfoOK
  <1>6. /\ di = [defs |-> di.defs, live |-> di.live, slices |-> di.slices]
        /\ di.defs \in SUBSET (0..writes) /\ di.live \in SUBSET Parts
        /\ di.slices \in Slices(writes)
    BY <1>5 DEF Info
  <1>7. /\ di.slices \in Slices(writes + 1)
        /\ reach \in History(writes + 1) /\ dropped \in History(writes + 1)
    BY <1>2, <1>4, <1>6, Grows
  <1> QED BY <1>1, <1>2, <1>3, <1>4, <1>6, <1>7 DEF FlowOK, InfoOK

\* The end of do_write forgets the slices.
LEMMA WrittenAll ==
  ASSUME program \in Programs, NEW n \in Nat, NEW defs \in SUBSET (0..n)
  PROVE  LET d == WrittenWhole(defs, n + 1)
         IN  /\ InfoOK(d, n + 1)
             /\ FieldsOK(d)
             /\ \A b \in Parts : Found(d, b) = defs \cup {n + 1}
  <1> DEFINE d == WrittenWhole(defs, n + 1)
  <1>1. d.defs = defs \cup {n + 1} /\ d.live = Parts /\ d.slices = NoSlices
    BY DEF WrittenWhole
  <1>2. n + 1 \in Nat OBVIOUS
  <1>3. d \in Info(n + 1)
    <2>1. defs \cup {n + 1} \in SUBSET (0..(n + 1)) OBVIOUS
    <2>2. NoSlices \in Slices(n + 1) BY <1>2, NoSlicesOK
    <2> QED BY <2>1, <2>2 DEF Info, WrittenWhole
  <1>4. 0 \in Parts BY Kinds DEF Parts
  <1> HIDE DEF d
  <1>5. InfoOK(d, n + 1) BY <1>1, <1>2, <1>3, <1>4, NoSlicesOK DEF InfoOK
  <1>6. FieldsOK(d) BY <1>1 DEF FieldsOK
  <1>7. \A b \in Parts : Found(d, b) = defs \cup {n + 1}
    BY <1>1, <1>2, NoSlicesOK DEF Found
  <1> QED BY <1>5, <1>6, <1>7 DEF d

LEMMA StepWhole ==
  ASSUME IInv, WriteWhole
  PROVE  FlowOK(di', reach', dropped', writes', merged')
  <1>1. program \in Programs /\ writes \in Nat BY Running
  <1>2. /\ writes' = writes + 1 /\ merged' = merged
        /\ di' = WrittenWhole({}, writes + 1)
        /\ reach' = [b \in Parts |-> {writes + 1}]
        /\ dropped' = [b \in Parts |-> {}]
    BY DEF WriteWhole, IsWrite
  <1>3. /\ InfoOK(di', writes + 1) /\ FieldsOK(di')
        /\ \A b \in Parts : Found(di', b) = {} \cup {writes + 1}
    BY <1>1, <1>2, WrittenAll
  <1>4. reach' \in History(writes + 1) /\ dropped' \in History(writes + 1)
    BY <1>1, <1>2 DEF History
  <1> QED BY <1>2, <1>3, <1>4 DEF FlowOK

\* A write at a place of which the code knows nothing adds to what may have been
\* written; what was known of slices is dropped.
LEMMA StepSomewhere ==
  ASSUME IInv, WritePlusSlice \/ WriteNext
  PROVE  FlowOK(di', reach', dropped', writes', merged')
  <1>1. /\ program \in Programs /\ writes \in Nat /\ di.defs \in SUBSET (0..writes)
        /\ reach \in History(writes) /\ dropped \in History(writes)
        /\ di.slices \in Slices(writes)
        /\ Unsliced => DOMAIN di.slices = {}
        /\ \A b \in Parts : reach[b] \subseteq Found(di, b) \cup dropped[b]
        /\ Clean(merged) => \A b \in Parts : dropped[b] = {}
    BY Running
  <1>2. /\ writes' = writes + 1 /\ merged' = merged
        /\ di' = WrittenWhole(di.defs, writes + 1)
        /\ reach' = [b \in Parts |-> reach[b] \cup {writes + 1}]
        /\ dropped' = [b \in Parts |-> dropped[b] \cup Sliced(di.slices, b)]
        /\ "plus_slice" \in program.ops \/ "next" \in program.ops
    BY DEF WritePlusSlice, WriteNext, IsWrite, ClearsSlices
  <1>3. /\ InfoOK(di', writes + 1)
        /\ \A b \in Parts : Found(di', b) = di.defs \cup {writes + 1}
    BY <1>1, <1>2, WrittenAll
  <1>4. reach' \in History(writes + 1)
    <2>1. \A b \in Parts : reach[b] \cup {writes + 1} \in SUBSET (0..(writes + 1))
      BY <1>1 DEF History
    <2> QED BY <1>2, <2>1 DEF History
  <1>5. dropped' \in History(writes + 1)
    <2>1. ASSUME NEW b \in Parts
          PROVE  dropped[b] \cup Sliced(di.slices, b) \in SUBSET (0..(writes + 1))
      <3>1. dropped[b] \in SUBSET (0..writes) BY <1>1, <2>1 DEF History
      <3>2. Sliced(di.slices, b) \in SUBSET (0..writes) BY <1>1, SlicedType
      <3> QED BY <1>1, <3>1, <3>2
    <2> QED BY <1>2, <2>1 DEF History
  <1>6. ASSUME NEW b \in Parts PROVE reach'[b] \subseteq Found(di', b) \cup dropped'[b]
    <2>1. reach[b] \subseteq Sliced(di.slices, b) \cup di.defs \cup dropped[b]
      BY <1>1, <1>6 DEF Found
    <2>2. reach'[b] = reach[b] \cup {writes + 1}
          /\ dropped'[b] = dropped[b] \cup Sliced(di.slices, b)
      BY <1>2, <1>6
    <2> QED BY <1>3, <1>6, <2>1, <2>2
  <1>7. ASSUME Clean(merged), NEW b \in Parts PROVE dropped'[b] = {}
    <2>1. Unsliced BY <1>2, <1>7 DEF Clean, Clears, Unsliced
    <2>2. Sliced(di.slices, b) = {} BY <1>1, <2>1 DEF Sliced
    <2> QED BY <1>1, <1>2, <1>7, <2>2
  <1>8. ~ Exact(merged) BY <1>2 DEF Exact
  <1> QED BY <1>2, <1>3, <1>4, <1>5, <1>6, <1>7, <1>8 DEF FlowOK

LEMMA StepDynamic ==
  ASSUME IInv, WriteDynamic
  PROVE  FlowOK(di', reach', dropped', writes', merged')
  <1>1. /\ program \in Programs /\ writes \in Nat /\ program.width \in Nat \ {0}
        /\ di = [defs |-> di.defs, live |-> di.live, slices |-> di.slices]
        /\ di.defs \in SUBSET (0..writes) /\ di.live \in SUBSET Parts
        /\ di.slices \in Slices(writes + 1)
        /\ Disjoint(di.slices) /\ InFamily(di.slices)
        /\ Unsliced => DOMAIN di.slices = {}
        /\ reach \in History(writes) /\ dropped \in History(writes + 1)
        /\ \A b \in Parts : reach[b] \subseteq Found(di, b) \cup dropped[b]
        /\ Clean(merged) => \A b \in Parts : dropped[b] = {}
    BY Running
  <1>2. /\ writes' = writes + 1 /\ merged' = merged /\ dropped' = dropped
        /\ di' = [di EXCEPT !.defs = @ \cup {writes + 1}, !.live = Parts]
        /\ reach' = [b \in Parts |-> reach[b] \cup {writes + 1}]
        /\ "dynamic" \in program.ops
    BY DEF WriteDynamic, WrittenSomewhere, IsWrite
  <1>3. di' = [defs |-> di.defs \cup {writes + 1}, live |-> Parts, slices |-> di.slices]
    BY <1>1, <1>2
  <1>4. /\ di'.defs = di.defs \cup {writes + 1} /\ di'.live = Parts
        /\ di'.slices = di.slices
    BY <1>3
  <1>5. di' \in Info(writes + 1)
    <2>1. di.defs \cup {writes + 1} \in SUBSET (0..(writes + 1)) BY <1>1
    <2> QED BY <1>1, <1>3, <2>1 DEF Info
  <1>6. 0 \in Parts BY <1>1 DEF Parts
  <1>7. InfoOK(di', writes + 1) BY <1>1, <1>4, <1>5, <1>6 DEF InfoOK
  <1>8. reach' \in History(writes + 1)
    <2>1. \A b \in Parts : reach[b] \cup {writes + 1} \in SUBSET (0..(writes + 1))
      BY <1>1 DEF History
    <2> QED BY <1>2, <2>1 DEF History
  <1>9. ASSUME NEW b \in Parts PROVE reach'[b] \subseteq Found(di', b) \cup dropped'[b]
    <2>1. reach[b] \subseteq Sliced(di.slices, b) \cup di.defs \cup dropped[b]
      BY <1>1, <1>9 DEF Found
    <2>2. Found(di', b) = Sliced(di.slices, b) \cup (di.defs \cup {writes + 1})
      BY <1>4, <1>9 DEF Found
    <2> QED BY <1>2, <2>1, <2>2
  <1>10. ~ Exact(merged) BY <1>2 DEF Exact
  <1> QED BY <1>1, <1>2, <1>7, <1>8, <1>9, <1>10 DEF FlowOK

\* push_front and pop_front move the parts, and what was dropped of them.
LEMMA StepPushPop ==
  ASSUME IInv, NEW k \in {-1, 1}, PushPop(k)
  PROVE  FlowOK(di', reach', dropped', writes', merged')
  <1> DEFINE live == {b \in Parts : b - k \in di.live}
             defs == IF live = {} THEN {} ELSE di.defs
             w == writes + 1
  <1>1. /\ program \in Programs /\ writes \in Nat /\ di.defs \in SUBSET (0..writes)
        /\ reach \in History(writes) /\ dropped \in History(writes)
        /\ di.slices \in Slices(writes)
        /\ Unsliced => DOMAIN di.slices = {}
        /\ \A b \in Parts : reach[b] \subseteq Found(di, b) \cup dropped[b]
        /\ Clean(merged) => \A b \in Parts : dropped[b] = {}
    BY Running
  <1>2. /\ writes' = w /\ merged' = merged
        /\ di' = WrittenWhole(defs, w)
        /\ reach' = [b \in Parts |-> IF b - k \in Parts THEN reach[b - k] ELSE {w}]
        /\ dropped' = [b \in Parts |-> IF b - k \in Parts
                                        THEN dropped[b - k] \cup Sliced(di.slices, b - k)
                                        ELSE {}]
        /\ "push" \in program.ops \/ "pop" \in program.ops
    BY DEF PushPop, Shift, IsWrite
  <1>3. defs \in SUBSET (0..writes) /\ defs \subseteq di.defs BY <1>1
  <1>4. (\E b \in Parts : b - k \in di.live) => defs = di.defs OBVIOUS
  <1> HIDE DEF defs, live
  <1>5. /\ InfoOK(di', w)
        /\ \A b \in Parts : Found(di', b) = defs \cup {w}
    BY <1>1, <1>2, <1>3, WrittenAll
  <1>6. reach' \in History(w)
    <2>1. {w} \in SUBSET (0..w) /\ \A b \in Parts : reach[b] \in SUBSET (0..w)
      BY <1>1 DEF History
    <2>2. \A b \in Parts : (IF b - k \in Parts THEN reach[b - k] ELSE {w}) \in SUBSET (0..w)
      BY <2>1
    <2> QED BY <1>2, <2>2 DEF History
  <1>7. dropped' \in History(w)
    <2>1. ASSUME NEW c \in Parts
          PROVE  dropped[c] \cup Sliced(di.slices, c) \in SUBSET (0..w)
      <3>1. dropped[c] \in SUBSET (0..writes) BY <1>1, <2>1 DEF History
      <3>2. Sliced(di.slices, c) \in SUBSET (0..writes) BY <1>1, SlicedType
      <3> QED BY <1>1, <3>1, <3>2
    <2>2. \A b \in Parts : dropped'[b] \in SUBSET (0..w) BY <1>2, <2>1
    <2> QED BY <1>2, <2>2 DEF History
  <1>8. ASSUME NEW b \in Parts PROVE reach'[b] \subseteq Found(di', b) \cup dropped'[b]
    <2>1. CASE b - k \in Parts
      <3>1. reach[b - k] \subseteq (IF b - k \in di.live THEN di.defs ELSE {})
              \cup Sliced(di.slices, b - k) \cup dropped[b - k]
        BY <1>1, <2>1 DEF Found
      <3>2. (IF b - k \in di.live THEN di.defs ELSE {}) \subseteq defs BY <1>4, <1>8
      <3>3. /\ reach'[b] = reach[b - k]
            /\ dropped'[b] = dropped[b - k] \cup Sliced(di.slices, b - k)
        BY <1>2, <1>8, <2>1
      <3> QED BY <1>5, <1>8, <3>1, <3>2, <3>3
    <2>2. CASE b - k \notin Parts BY <1>2, <1>5, <1>8, <2>2
    <2> QED BY <2>1, <2>2
  <1>9. ASSUME Clean(merged), NEW b \in Parts PROVE dropped'[b] = {}
    <2>1. Unsliced BY <1>2, <1>9 DEF Clean, Clears, Unsliced
    <2>2. \A c : Sliced(di.slices, c) = {} BY <1>1, <2>1 DEF Sliced
    <2> QED BY <1>1, <1>2, <1>9, <2>2
  <1>10. ~ Exact(merged) BY <1>2 DEF Exact
  <1> QED BY <1>2, <1>5, <1>6, <1>7, <1>8, <1>9, <1>10 DEF FlowOK

\* A write of the parts r, and of no other: X is what slices have become.
LEMMA WrittenPart ==
  ASSUME IInv, NEW r \in Intervals, NEW X \in Slices(writes + 1), Disjoint(X), InFamily(X),
         ~ Unsliced, \A b \in r : Sliced(X, b) = {writes + 1},
         NEW d, d = [WithoutLive(r) EXCEPT !.slices = X],
         \A b \in Parts \ r : Found(di, b) \subseteq Found(d, b),
         Exact(merged) => FieldsOK(d) /\ \A b \in Parts \ r : Found(di, b) = Found(d, b),
         NEW h, h = [b \in Parts |-> IF b \in r THEN {writes + 1} ELSE reach[b]],
         NEW f, f = [b \in Parts |-> IF b \in r THEN {} ELSE dropped[b]]
  PROVE  FlowOK(d, h, f, writes + 1, merged)
  <1> DEFINE w == writes + 1
             live == di.live \ r
             defs == IF live = {} THEN {} ELSE di.defs
  <1>1. /\ writes \in Nat
        /\ di = [defs |-> di.defs, live |-> di.live, slices |-> di.slices]
        /\ di.defs \in SUBSET (0..writes) /\ di.live \in SUBSET Parts
        /\ reach \in History(writes) /\ dropped \in History(writes + 1)
        /\ \A b \in Parts : reach[b] \subseteq Found(di, b) \cup dropped[b]
        /\ Clean(merged) => \A b \in Parts : dropped[b] = {}
        /\ Exact(merged) => \A b \in Parts : reach[b] = Found(di, b)
    BY Running
  <1>2. d = [defs |-> defs, live |-> live, slices |-> X] BY <1>1 DEF WithoutLive
  <1>3. d.defs = defs /\ d.live = live /\ d.slices = X BY <1>2
  <1>4. d \in Info(w)
    <2>1. defs \in SUBSET (0..w) /\ live \in SUBSET Parts BY <1>1
    <2>2. X \in Slices(w) OBVIOUS
    <2> HIDE DEF w, defs, live
    <2>3. [defs |-> defs, live |-> live, slices |-> X] \in Info(w) BY <2>1, <2>2 DEF Info
    <2> QED BY <1>2, <2>3, Zenon
  <1>5. live = {} => defs = {} OBVIOUS
  <1>6. InfoOK(d, w) BY <1>3, <1>4, <1>5 DEF InfoOK
  <1> HIDE DEF defs
  <1>7. \A b \in r : Found(d, b) = {w} BY <1>3 DEF Found
  <1>8. h \in History(w)
    <2>1. {w} \in SUBSET (0..w) /\ \A b \in Parts : reach[b] \in SUBSET (0..w)
      BY <1>1 DEF History
    <2>2. \A b \in Parts : (IF b \in r THEN {w} ELSE reach[b]) \in SUBSET (0..w)
      BY <2>1
    <2> QED BY <2>2 DEF History
  <1>9. ASSUME NEW b \in Parts PROVE h[b] \subseteq Found(d, b) \cup f[b]
    <2>1. CASE b \in r BY <1>7, <1>9, <2>1
    <2>2. CASE b \notin r BY <1>1, <1>9, <2>2
    <2> QED BY <2>1, <2>2
  <1>10. ASSUME Exact(merged), NEW b \in Parts PROVE h[b] = Found(d, b)
    <2>1. CASE b \in r BY <1>7, <1>10, <2>1
    <2>2. CASE b \notin r BY <1>1, <1>10, <2>2
    <2> QED BY <2>1, <2>2
  <1>11. f \in History(w) /\ (Clean(merged) => \A b \in Parts : f[b] = {})
    BY <1>1 DEF History
  <1> HIDE DEF w
  <1> QED BY <1>6, <1>8, <1>9, <1>10, <1>11 DEF FlowOK, w

\* Where the slices are as before, so is what is found.
LEMMA FoundOutside ==
  ASSUME IInv, NEW r, NEW X, NEW d, d = [WithoutLive(r) EXCEPT !.slices = X],
         NEW b \in Parts \ r, Sliced(X, b) = Sliced(di.slices, b)
  PROVE  Found(d, b) = Found(di, b)
  <1>1. di = [defs |-> di.defs, live |-> di.live, slices |-> di.slices] BY Running
  <1>2. d = [defs |-> IF di.live \ r = {} THEN {} ELSE di.defs, live |-> di.live \ r,
             slices |-> X]
    BY <1>1 DEF WithoutLive
  <1>3. b \in di.live => d.defs = di.defs BY <1>2
  <1>4. b \in d.live <=> b \in di.live BY <1>2
  <1>5. d.slices = X BY <1>2
  <1> QED BY <1>3, <1>4, <1>5 DEF Found

LEMMA StepSlice ==
  ASSUME IInv, NEW r \in program.slices, WriteSlice(r)
  PROVE  FlowOK(di', reach', dropped', writes', merged')
  <1> DEFINE w == writes + 1
             e == erase_slice(di.slices, r)
             X == Put(e, r, {w})
  <1>1. /\ program \in Programs /\ writes \in Nat /\ w \in Nat
        /\ di.slices \in Slices(w)
        /\ Disjoint(di.slices) /\ InFamily(di.slices)
        /\ di = [defs |-> di.defs, live |-> di.live, slices |-> di.slices]
    BY Running
  <1>2. /\ writes' = w /\ merged' = merged
        /\ di' = [WithoutLive(r) EXCEPT !.slices = Put(erase_slice(@, r), r, {w})]
        /\ reach' = [b \in Parts |-> IF b \in r THEN {w} ELSE reach[b]]
        /\ dropped' = [b \in Parts |-> IF b \in r THEN {} ELSE dropped[b]]
        /\ "slice" \in program.ops /\ program.kind = "bits"
    BY DEF WriteSlice, IsWrite, Overwritten
  <1>3. di' = [WithoutLive(r) EXCEPT !.slices = X]
    <2>1. WithoutLive(r).slices = di.slices BY <1>1 DEF WithoutLive
    <2> QED BY <1>2, <2>1
  <1>4. r \in Intervals /\ r \in Family
    BY <1>1, <1>2, Kinds DEF Family
  <1>5. {w} \in SUBSET (0..w) BY <1>1
  <1> HIDE DEF w
  <1>6. /\ e \in Slices(w) /\ Disjoint(e) /\ InFamily(e)
        /\ \A k \in DOMAIN e : k \cap r = {}
        /\ \A b : b \notin r => Sliced(e, b) = Sliced(di.slices, b)
    BY <1>1, <1>4, Erased
  <1> HIDE DEF e
  <1>7. X \in Slices(w) /\ DOMAIN X = DOMAIN e \cup {r}
    <2>1. w \in Nat /\ e \in Slices(w) /\ r \in Intervals BY <1>1, <1>4, <1>6
    <2>2. X \in Slices(w) BY <1>5, <2>1, PutSlice
    <2>3. DOMAIN X = DOMAIN e \cup {r} BY DEF Put
    <2> QED BY <2>2, <2>3
  <1>8. /\ Disjoint(X)
        /\ \A b : Sliced(X, b) = IF b \in r THEN {w} ELSE Sliced(e, b)
    BY <1>1, <1>4, <1>5, <1>6, PutSliced
  <1> HIDE DEF X
  <1>9. InFamily(X) BY <1>4, <1>6, <1>7 DEF InFamily
  <1>10. ~ Unsliced BY <1>2 DEF Unsliced
  <1>11. \A b \in Parts \ r : Found(di', b) = Found(di, b)
    <2> TAKE b \in Parts \ r
    <2>1. Sliced(X, b) = Sliced(di.slices, b) BY <1>6, <1>8
    <2> QED BY <1>3, <2>1, FoundOutside
  <1>12. FieldsOK(di') BY <1>2 DEF FieldsOK
  <1>13. FlowOK(di', reach', dropped', w, merged)
    BY <1>2, <1>3, <1>4, <1>7, <1>8, <1>9, <1>10, <1>11, <1>12, WrittenPart DEF w
  <1> QED BY <1>2, <1>13

\* The key of one element or field meets no other key.
LEMMA OneKey ==
  ASSUME program \in Programs, program.kind # "bits", NEW n \in Nat,
         NEW s \in Slices(n), InFamily(s), NEW i \in Parts
  PROVE  {i} \in Intervals /\ {i} \in Family /\ \A k \in DOMAIN s : k = {i} \/ k \cap {i} = {}
  <1>1. DOMAIN s \subseteq {{b} : b \in Parts} /\ Family = {{b} : b \in Parts}
    BY DEF InFamily, Whole, Family
  <1>2. \A k \in DOMAIN s : k = {i} \/ k \cap {i} = {}
    <2> TAKE k \in DOMAIN s
    <2>1. PICK b \in Parts : k = {b} BY <1>1
    <2> QED BY <2>1
  <1> QED BY <1>1, <1>2, Singles

LEMMA StepIndex ==
  ASSUME IInv, NEW i \in Parts, WriteIndex(i)
  PROVE  FlowOK(di', reach', dropped', writes', merged')
  <1> DEFINE w == writes + 1
             r == {i}
             X == Put(di.slices, r, {w})
  <1>1. /\ program \in Programs /\ writes \in Nat /\ w \in Nat
        /\ di.slices \in Slices(w)
        /\ Disjoint(di.slices) /\ InFamily(di.slices)
        /\ di = [defs |-> di.defs, live |-> di.live, slices |-> di.slices]
    BY Running
  <1>2. /\ writes' = w /\ merged' = merged
        /\ di' = [WithoutLive(r) EXCEPT !.slices = Put(@, r, {w})]
        /\ reach' = [b \in Parts |-> IF b \in r THEN {w} ELSE reach[b]]
        /\ dropped' = [b \in Parts |-> IF b \in r THEN {} ELSE dropped[b]]
        /\ "index" \in program.ops /\ program.kind = "array"
    BY DEF WriteIndex, IsWrite, Overwritten
  <1>3. di' = [WithoutLive(r) EXCEPT !.slices = X]
    <2>1. WithoutLive(r).slices = di.slices BY <1>1 DEF WithoutLive
    <2> QED BY <1>2, <2>1
  <1>4. /\ r \in Intervals /\ r \in Family
        /\ \A k \in DOMAIN di.slices : k = r \/ k \cap r = {}
    BY <1>1, <1>2, OneKey
  <1>5. {w} \in SUBSET (0..w) BY <1>1
  <1> HIDE DEF w, r
  <1>7. X \in Slices(w) /\ DOMAIN X = DOMAIN di.slices \cup {r}
    BY <1>1, <1>4, <1>5, PutSlice
  <1>8. /\ Disjoint(X)
        /\ \A b : Sliced(X, b) = IF b \in r THEN {w} ELSE Sliced(di.slices, b)
    BY <1>1, <1>4, <1>5, PutSliced
  <1> HIDE DEF X
  <1>9. InFamily(X) BY <1>1, <1>4, <1>7 DEF InFamily
  <1>10. ~ Unsliced BY <1>2 DEF Unsliced
  <1>11. \A b \in Parts \ r : Found(di', b) = Found(di, b)
    <2> TAKE b \in Parts \ r
    <2>1. Sliced(X, b) = Sliced(di.slices, b) BY <1>8
    <2> QED BY <1>3, <2>1, FoundOutside
  <1>12. FieldsOK(di') BY <1>2 DEF FieldsOK
  <1>13. FlowOK(di', reach', dropped', w, merged)
    BY <1>2, <1>3, <1>4, <1>7, <1>8, <1>9, <1>10, <1>11, <1>12, WrittenPart DEF w
  <1> QED BY <1>2, <1>13

\* A live field takes the defs of the struct over to the fields that have none.
LEMMA FieldsOf ==
  ASSUME IInv, program.kind = "struct", NEW i \in Parts
  PROVE  LET F == Fields(i)
         IN  /\ F \in Slices(writes + 1) /\ Disjoint(F) /\ InFamily(F)
             /\ DOMAIN di.slices \subseteq DOMAIN F
             /\ \A k \in DOMAIN di.slices : F[k] = di.slices[k]
             /\ i \in di.live => \A b \in Parts :
                  {b} \in DOMAIN F /\ ({b} \notin DOMAIN di.slices => F[{b}] = di.defs)
             /\ i \notin di.live => F = di.slices
  <1> DEFINE F == Fields(i)
             s == di.slices
             w == writes + 1
             g == [k \in {{j} : j \in Parts} |-> di.defs]
  <1>1. /\ program \in Programs /\ writes \in Nat /\ w \in Nat
        /\ s \in Slices(w) /\ Disjoint(s) /\ InFamily(s)
        /\ di.defs \in SUBSET (0..writes)
    BY Running
  <1>2. CASE i \notin di.live BY <1>1, <1>2 DEF Fields
  <1>3. CASE i \in di.live
    <2>1. F = Over(s, g) BY <1>3 DEF Fields
    <2>2. DOMAIN s \subseteq {{j} : j \in Parts} BY <1>1 DEF InFamily, Whole, Family
    <2>3. F = [k \in {{j} : j \in Parts} |-> IF k \in DOMAIN s THEN s[k] ELSE di.defs]
      BY <2>1, <2>2 DEF Over
    <2>4. {{j} : j \in Parts} \in SUBSET Intervals
      <3>1. \A j \in Parts : {j} \in Intervals BY <1>1, Singles
      <3> QED BY <3>1
    <2>5. di.defs \in SUBSET (0..w) /\ s \in [DOMAIN s -> SUBSET (0..w)]
      BY <1>1, SlicesType
    <2>6. F \in [{{j} : j \in Parts} -> SUBSET (0..w)] BY <2>3, <2>5
    <2> HIDE DEF F, g
    <2>7. F \in Slices(w) /\ DOMAIN F = {{j} : j \in Parts}
      BY <1>1, <2>4, <2>6, IsSlices
    <2>8. Disjoint(F)
      <3> SUFFICES ASSUME NEW k \in DOMAIN F, NEW j \in DOMAIN F, k # j PROVE k \cap j = {}
        BY DEF Disjoint
      <3>1. PICK b \in Parts : k = {b} BY <2>7
      <3>2. PICK c \in Parts : j = {c} BY <2>7
      <3> QED BY <3>1, <3>2
    <2>9. InFamily(F) BY <2>7 DEF InFamily, Family
    <2>10. DOMAIN s \subseteq DOMAIN F /\ \A k \in DOMAIN s : F[k] = s[k]
      BY <2>2, <2>3, <2>7
    <2>11. \A b \in Parts :
             {b} \in DOMAIN F /\ ({b} \notin DOMAIN s => F[{b}] = di.defs)
      BY <2>3, <2>7
    <2> QED BY <1>3, <2>7, <2>8, <2>9, <2>10, <2>11 DEF F
  <1> QED BY <1>2, <1>3

LEMMA StepField ==
  ASSUME IInv, NEW i \in Parts, WriteField(i)
  PROVE  FlowOK(di', reach', dropped', writes', merged')
  <1> DEFINE w == writes + 1
             r == {i}
             s == di.slices
             F == Fields(i)
             X == Put(F, r, {w})
  <1>1. /\ program \in Programs /\ writes \in Nat /\ w \in Nat
        /\ s \in Slices(w) /\ Disjoint(s) /\ InFamily(s)
        /\ di = [defs |-> di.defs, live |-> di.live, slices |-> di.slices]
        /\ Exact(merged) => FieldsOK(di)
    BY Running
  <1>2. /\ writes' = w /\ merged' = merged
        /\ di' = [WithoutLive(r) EXCEPT !.slices = X]
        /\ reach' = [b \in Parts |-> IF b \in r THEN {w} ELSE reach[b]]
        /\ dropped' = [b \in Parts |-> IF b \in r THEN {} ELSE dropped[b]]
        /\ "field" \in program.ops /\ program.kind = "struct"
    BY DEF WriteField, IsWrite, Overwritten
  <1>3. /\ di'.live = di.live \ r /\ di'.slices = X
        /\ di'.defs = IF di.live \ r = {} THEN {} ELSE di.defs
    BY <1>1, <1>2 DEF WithoutLive
  <1>4. /\ F \in Slices(w) /\ Disjoint(F) /\ InFamily(F)
        /\ DOMAIN s \subseteq DOMAIN F
        /\ \A k \in DOMAIN s : F[k] = s[k]
        /\ i \in di.live => \A b \in Parts :
             {b} \in DOMAIN F /\ ({b} \notin DOMAIN s => F[{b}] = di.defs)
        /\ i \notin di.live => F = s
    BY <1>2, FieldsOf
  <1>5. {w} \in SUBSET (0..w) BY <1>1
  <1> HIDE DEF w, r, F
  <1>6. /\ r \in Intervals /\ r \in Family
        /\ \A k \in DOMAIN F : k = r \/ k \cap r = {}
    BY <1>1, <1>2, <1>4, OneKey DEF r
  <1>7. X \in Slices(w) /\ DOMAIN X = DOMAIN F \cup {r}
    <2>1. X \in Slices(w) BY <1>1, <1>4, <1>5, <1>6, PutSlice
    <2>2. DOMAIN X = DOMAIN F \cup {r} BY DEF Put
    <2> QED BY <2>1, <2>2
  <1>8. /\ Disjoint(X)
        /\ \A b : Sliced(X, b) = IF b \in r THEN {w} ELSE Sliced(F, b)
    BY <1>1, <1>4, <1>5, <1>6, PutSliced
  <1> HIDE DEF X
  <1>9. InFamily(X) BY <1>4, <1>6, <1>7 DEF InFamily
  <1>10. ~ Unsliced BY <1>2 DEF Unsliced
  <1>11. ASSUME NEW b \in Parts \ r, {b} \in DOMAIN s PROVE Found(di', b) = Found(di, b)
    <2>1. b \in {b} /\ {b} \in DOMAIN F /\ F[{b}] = s[{b}] BY <1>4, <1>11
    <2>2. Sliced(F, b) = F[{b}] BY <1>4, <2>1, SlicedOf
    <2>3. Sliced(s, b) = s[{b}] BY <1>1, <1>11, <2>1, SlicedOf
    <2>4. Sliced(X, b) = Sliced(di.slices, b) BY <1>8, <2>1, <2>2, <2>3
    <2> QED BY <1>2, <2>4, FoundOutside
  <1>12. ASSUME NEW b \in Parts \ r, {b} \notin DOMAIN s PROVE Sliced(s, b) = {}
    <2>1. \A k \in DOMAIN s : \E c \in Parts : k = {c}
      BY <1>1, <1>2 DEF InFamily, Whole, Family
    <2>2. \A k \in DOMAIN s : b \notin k
      <3> SUFFICES ASSUME NEW k \in DOMAIN s, b \in k PROVE FALSE OBVIOUS
      <3>1. PICK c \in Parts : k = {c} BY <2>1
      <3>2. k = {b} BY <3>1
      <3> QED BY <1>12, <3>2
    <2> QED BY <1>1, <2>2, SlicedOf
  <1>13. CASE i \in di.live
    <2>1. ASSUME NEW b \in Parts \ r, {b} \notin DOMAIN s
          PROVE  Found(di', b) = di.defs /\ Found(di, b) = IF b \in di.live THEN di.defs ELSE {}
      <3>1. {b} \in DOMAIN F /\ F[{b}] = di.defs /\ b \in {b} BY <1>4, <1>13, <2>1
      <3>2. Sliced(X, b) = di.defs
        <4>1. Sliced(F, b) = F[{b}] BY <1>4, <3>1, SlicedOf
        <4> QED BY <1>8, <3>1, <4>1
      <3>3. di'.defs \subseteq di.defs BY <1>3
      <3>4. Sliced(di.slices, b) = {} BY <1>12, <2>1
      <3> QED BY <1>3, <3>2, <3>3, <3>4 DEF Found
    <2>2. \A b \in Parts \ r : Found(di, b) \subseteq Found(di', b)
      <3> TAKE b \in Parts \ r
      <3>1. CASE {b} \in DOMAIN s BY <1>11, <3>1
      <3>2. CASE {b} \notin DOMAIN s BY <2>1, <3>2
      <3> QED BY <3>1, <3>2
    <2>3. ASSUME Exact(merged), NEW b \in Parts \ r PROVE Found(di, b) = Found(di', b)
      <3>1. CASE {b} \in DOMAIN s BY <1>11, <3>1
      <3>2. CASE {b} \notin DOMAIN s
        <4>1. b \in di.live BY <1>1, <1>2, <1>13, <2>3, <3>2 DEF FieldsOK
        <4> QED BY <2>1, <3>2, <4>1
      <3> QED BY <3>1, <3>2
    <2>4. FieldsOK(di')
      <3>1. \A b \in Parts : {b} \in DOMAIN X BY <1>4, <1>7, <1>13
      <3> QED BY <1>3, <3>1 DEF FieldsOK
    <2>5. FlowOK(di', reach', dropped', w, merged)
      BY <1>2, <1>6, <1>7, <1>8, <1>9, <1>10, <2>2, <2>3, <2>4, WrittenPart DEF w
    <2> QED BY <1>2, <2>5
  <1>14. CASE i \notin di.live
    <2>1. \A b \in Parts \ r : Found(di', b) = Found(di, b)
      <3> TAKE b \in Parts \ r
      <3>1. Sliced(X, b) = Sliced(di.slices, b) BY <1>4, <1>8, <1>14
      <3> QED BY <1>2, <3>1, FoundOutside
    <2>2. Exact(merged) => FieldsOK(di')
      <3>1. di'.live = di.live BY <1>3, <1>14 DEF r
      <3>2. DOMAIN di.slices \subseteq DOMAIN di'.slices BY <1>3, <1>4, <1>7, <1>14
      <3> QED BY <1>1, <3>1, <3>2 DEF FieldsOK
    <2>3. FlowOK(di', reach', dropped', w, merged)
      BY <1>2, <1>6, <1>7, <1>8, <1>9, <1>10, <2>1, <2>2, WrittenPart DEF w
    <2> QED BY <1>2, <2>3
  <1> QED BY <1>13, <1>14

-----------------------------------------------------------------------------
(***************************************************************************)
(* A step leaves the program alone, so that what FlowOK says of values     *)
(* does not change; it says no less of what is known already when there    *)
(* are more writes, and when flows have been merged.                       *)
(***************************************************************************)
LEMMA SameProgram ==
  ASSUME program' = program
  PROVE  \A d, h, f, n, m : FlowOK(d, h, f, n, m)' <=> FlowOK(d, h, f, n, m)
  <1>1. Parts' = Parts BY DEF Parts
  <1>2. Intervals' = Intervals BY <1>1 DEF Intervals
  <1>3. (Overlapping' <=> Overlapping) /\ (Clears' <=> Clears) /\ (Unsliced' <=> Unsliced)
    BY DEF Overlapping, Clears, Unsliced
  <1>4. Family' = Family BY <1>1 DEF Family
  <1>5. Whole' <=> Whole BY <1>3 DEF Whole
  <1>6. \A n : Slices(n)' = Slices(n) BY <1>2 DEF Slices
  <1>7. \A n : Info(n)' = Info(n) BY <1>1, <1>6 DEF Info
  <1>8. \A n : History(n)' = History(n) BY <1>1 DEF History
  <1>9. \A d, n : InfoOK(d, n)' <=> InfoOK(d, n)
    BY <1>3, <1>4, <1>5, <1>7 DEF InfoOK, InFamily, Disjoint
  <1>10. \A d : FieldsOK(d)' <=> FieldsOK(d) BY <1>1 DEF FieldsOK
  <1>11. \A m : (Clean(m)' <=> Clean(m)) /\ (Exact(m)' <=> Exact(m))
    BY <1>3, <1>5 DEF Clean, Exact
  <1> QED BY <1>1, <1>8, <1>9, <1>10, <1>11 DEF FlowOK, Found, Sliced

LEMMA Remains ==
  ASSUME NEW n \in Nat, NEW m \in BOOLEAN, NEW d, NEW h, NEW f, FlowOK(d, h, f, n, m)
  PROVE  FlowOK(d, h, f, n + 1, m) /\ FlowOK(d, h, f, n, TRUE)
  <1>1. InfoOK(d, n) /\ InfoOK(d, n + 1) BY Grows DEF FlowOK, InfoOK
  <1>2. /\ h \in History(n) /\ h \in History(n + 1)
        /\ f \in History(n) /\ f \in History(n + 1)
    BY Grows DEF FlowOK
  <1>3. FlowOK(d, h, f, n + 1, m) BY <1>1, <1>2 DEF FlowOK
  <1>4. (Clean(TRUE) => Clean(m)) /\ ~ Exact(TRUE) BY DEF Clean, Exact
  <1>5. FlowOK(d, h, f, n, TRUE) BY <1>1, <1>2, <1>4 DEF FlowOK
  <1> QED BY <1>3, <1>5

\* What a step must keep, said of the next values.
Kept ==
  /\ program' = program /\ writes' \in Def /\ merged' \in BOOLEAN
  /\ stack' \in Seq(Waiting(writes')) /\ Len(stack') <= program.depth
  /\ FlowOK(di', reach', dropped', writes', merged')
  /\ \A i \in 1..Len(stack') :
       FlowOK(stack'[i].di, stack'[i].reach, stack'[i].dropped, writes', merged')

LEMMA KeptInvariant ==
  ASSUME IInv, Kept
  PROVE  IInv'
  <1>1. program' = program /\ program \in Programs BY DEF Kept, IInv
  <1>2. \A d, h, f, n, m :
          FlowOK(d, h, f, n, m)' <=> FlowOK(d, h, f, n, m) BY <1>1, SameProgram
  <1>3. FlowOK(di, reach, dropped, writes, merged)' BY <1>2 DEF Kept
  <1>4. \A i \in 1..Len(stack') :
          FlowOK(stack[i].di, stack[i].reach, stack[i].dropped, writes, merged)'
    BY <1>2 DEF Kept
  <1>5. Waiting(writes)' = Waiting(writes')
    <2>1. Parts' = Parts BY <1>1 DEF Parts
    <2>2. Intervals' = Intervals BY <2>1 DEF Intervals
    <2> QED BY <2>1, <2>2 DEF Waiting, Info, History, Slices
  <1>6. writes' \in Def' BY <1>1 DEF Kept, Def
  <1> QED BY <1>1, <1>3, <1>4, <1>5, <1>6 DEF Kept, IInv

LEMMA InitInvariant ==
  ASSUME Init
  PROVE  IInv
  <1> DEFINE d0 == IF program.param = "live" THEN {0} ELSE {}
             l0 == IF program.param = "live" THEN Parts ELSE {}
  <1>1. program \in Programs /\ stack = <<>> /\ writes = 0 /\ merged = FALSE BY DEF Init
  <1>2. /\ program.width \in Nat \ {0} /\ program.writes \in Nat /\ program.depth \in Nat
        /\ 0 \in Def
    BY <1>1, Kinds DEF Def
  <1>3. di = [defs |-> d0, live |-> l0, slices |-> NoSlices] /\ reach = [b \in Parts |-> d0]
        /\ dropped = [b \in Parts |-> {}]
    BY DEF Init
  <1>4. d0 \in SUBSET (0..0) /\ l0 \in SUBSET Parts /\ (l0 = {} => d0 = {})
        /\ (l0 = {} \/ l0 = Parts) /\ (\A b \in Parts : d0 = IF b \in l0 THEN d0 ELSE {})
    <2>1. 0 \in Parts BY <1>2 DEF Parts
    <2>2. CASE program.param = "live"
      <3>1. d0 = {0} /\ l0 = Parts BY <2>2
      <3> HIDE DEF d0, l0
      <3> QED BY <2>1, <3>1
    <2>3. CASE program.param # "live"
      <3>1. d0 = {} /\ l0 = {} BY <2>3
      <3> HIDE DEF d0, l0
      <3> QED BY <3>1
    <2> QED BY <2>2, <2>3
  <1> HIDE DEF d0, l0
  <1>5. di.defs = d0 /\ di.live = l0 /\ di.slices = NoSlices BY <1>3
  <1>6. di \in Info(0)
    <2>1. NoSlices \in Slices(0) BY NoSlicesOK
    <2> QED BY <1>3, <1>4, <2>1 DEF Info
  <1>7. InfoOK(di, 0) BY <1>4, <1>5, <1>6, NoSlicesOK DEF InfoOK
  <1>8. reach \in History(0) /\ dropped \in History(0) BY <1>3, <1>4 DEF History
  <1>9. \A b \in Parts : reach[b] = Found(di, b)
    <2> TAKE b \in Parts
    <2>1. Sliced(NoSlices, b) = {} BY NoSlicesOK
    <2> QED BY <1>3, <1>4, <1>5, <2>1 DEF Found
  <1>10. FieldsOK(di) BY <1>4, <1>5 DEF FieldsOK
  <1>11. FlowOK(di, reach, dropped, writes, merged)
    BY <1>1, <1>3, <1>7, <1>8, <1>9, <1>10 DEF FlowOK
  <1>12. stack \in Seq(Waiting(writes)) /\ Len(stack) = 0 BY <1>1
  <1>13. Len(stack) <= program.depth /\ writes \in Def BY <1>1, <1>2, <1>12
  <1>14. \A i \in 1..Len(stack) : FALSE BY <1>12
  <1> QED BY <1>1, <1>11, <1>12, <1>13, <1>14 DEF IInv

\* A write leaves the waiting clones alone.
LEMMA WriteKept ==
  ASSUME IInv, NEW op, IsWrite(op), UNCHANGED <<stack, merged>>,
         FlowOK(di', reach', dropped', writes', merged')
  PROVE  IInv'
  <1>1. /\ program' = program /\ writes' = writes + 1 /\ writes < program.writes
        /\ stack' = stack /\ merged' = merged
    BY DEF IsWrite
  <1>2. /\ program \in Programs /\ writes \in Nat /\ merged \in BOOLEAN
        /\ stack \in Seq(Waiting(writes)) /\ Len(stack) <= program.depth
        /\ \A i \in 1..Len(stack) :
             FlowOK(stack[i].di, stack[i].reach, stack[i].dropped, writes, merged)
    BY Running DEF IInv
  <1>3. writes' \in Def BY <1>1, <1>2, Kinds DEF Def
  <1>4. stack' \in Seq(Waiting(writes'))
    <2>1. Waiting(writes) \subseteq Waiting(writes + 1) BY <1>2, Grows DEF Waiting
    <2>2. stack \in Seq(Waiting(writes + 1)) BY <1>2, <2>1
    <2> QED BY <1>1, <2>2
  <1>5. \A i \in 1..Len(stack') :
          FlowOK(stack'[i].di, stack'[i].reach, stack'[i].dropped, writes', merged')
    BY <1>1, <1>2, Remains
  <1>6. Kept BY <1>1, <1>2, <1>3, <1>4, <1>5 DEF Kept
  <1> QED BY <1>6, KeptInvariant

LEMMA BranchKept ==
  ASSUME IInv, Branch
  PROVE  IInv'
  <1> DEFINE e == [di |-> di, reach |-> reach, dropped |-> dropped, in |-> "then"]
  <1>1. /\ program' = program /\ writes' = writes /\ merged' = merged
        /\ di' = di /\ reach' = reach /\ dropped' = dropped /\ stack' = <<e>> \o stack
        /\ Len(stack) < program.depth
    BY DEF Branch
  <1>2. /\ program \in Programs /\ writes \in Def /\ merged \in BOOLEAN
        /\ stack \in Seq(Waiting(writes))
        /\ FlowOK(di, reach, dropped, writes, merged)
        /\ \A i \in 1..Len(stack) :
             FlowOK(stack[i].di, stack[i].reach, stack[i].dropped, writes, merged)
    BY DEF IInv
  <1>3. e \in Waiting(writes) BY <1>2 DEF Waiting, FlowOK, InfoOK
  <1>4. e.di = di /\ e.reach = reach /\ e.dropped = dropped OBVIOUS
  <1> HIDE DEF e
  <1>5. stack' \in Seq(Waiting(writes)) /\ Len(stack') = Len(stack) + 1
    BY <1>1, <1>2, <1>3
  <1>6. ASSUME NEW i \in 1..Len(stack')
        PROVE  FlowOK(stack'[i].di, stack'[i].reach, stack'[i].dropped, writes, merged)
    <2>1. CASE i = 1
      <3>1. stack'[i] = e BY <1>1, <1>2, <1>3, <2>1
      <3> QED BY <1>2, <1>4, <3>1
    <2>2. CASE i # 1
      <3>1. i - 1 \in 1..Len(stack) /\ stack'[i] = stack[i - 1]
        BY <1>1, <1>2, <1>3, <1>5, <1>6, <2>2
      <3> QED BY <1>2, <3>1
    <2> QED BY <2>1, <2>2
  <1>7. Len(stack') <= program.depth
    BY <1>1, <1>2, <1>5, Kinds
  <1>8. Kept BY <1>1, <1>2, <1>5, <1>6, <1>7 DEF Kept
  <1> QED BY <1>8, KeptInvariant

LEMMA ElseKept ==
  ASSUME IInv, Else
  PROVE  IInv'
  <1> DEFINE e == [di |-> di, reach |-> reach, dropped |-> dropped, in |-> "else"]
  <1>1. /\ program' = program /\ writes' = writes /\ merged' = merged
        /\ stack # <<>> /\ stack' = <<e>> \o Tail(stack)
        /\ di' = Head(stack).di /\ reach' = Head(stack).reach
        /\ dropped' = Head(stack).dropped
    BY DEF Else
  <1>2. /\ program \in Programs /\ writes \in Def /\ merged \in BOOLEAN
        /\ stack \in Seq(Waiting(writes)) /\ Len(stack) <= program.depth
        /\ FlowOK(di, reach, dropped, writes, merged)
        /\ \A i \in 1..Len(stack) :
             FlowOK(stack[i].di, stack[i].reach, stack[i].dropped, writes, merged)
    BY DEF IInv
  <1>3. e \in Waiting(writes) BY <1>2 DEF Waiting, FlowOK, InfoOK
  <1>4. e.di = di /\ e.reach = reach /\ e.dropped = dropped OBVIOUS
  <1> HIDE DEF e
  <1>5. 1 \in 1..Len(stack) /\ Head(stack) = stack[1] BY <1>1, <1>2
  <1>6. FlowOK(di', reach', dropped', writes, merged) BY <1>1, <1>2, <1>5
  <1>7. /\ Tail(stack) \in Seq(Waiting(writes)) /\ Len(Tail(stack)) = Len(stack) - 1
        /\ \A i \in 1..Len(Tail(stack)) : Tail(stack)[i] = stack[i + 1]
    BY <1>1, <1>2
  <1>8. stack' \in Seq(Waiting(writes)) /\ Len(stack') = Len(stack)
    BY <1>1, <1>2, <1>3, <1>7
  <1>9. ASSUME NEW i \in 1..Len(stack')
        PROVE  FlowOK(stack'[i].di, stack'[i].reach, stack'[i].dropped, writes, merged)
    <2>1. CASE i = 1
      <3>1. stack'[i] = e BY <1>1, <1>3, <1>7, <2>1
      <3> QED BY <1>2, <1>4, <3>1
    <2>2. CASE i # 1
      <3>1. i \in 1..Len(stack) /\ stack'[i] = stack[i]
        BY <1>1, <1>2, <1>3, <1>7, <1>8, <1>9, <2>2
      <3> QED BY <1>2, <3>1
    <2> QED BY <2>1, <2>2
  <1>10. Kept BY <1>1, <1>2, <1>6, <1>8, <1>9 DEF Kept
  <1> QED BY <1>10, KeptInvariant

LEMMA JoinKept ==
  ASSUME IInv, Join
  PROVE  IInv'
  <1> DEFINE a == di
             d == Head(stack).di
             h == Head(stack).reach
             f == Head(stack).dropped
             sl == MergeSlices(d.slices, a.slices)
  <1>1. /\ program' = program /\ writes' = writes /\ merged' = TRUE
        /\ stack # <<>> /\ stack' = Tail(stack)
        /\ di' = [defs |-> d.defs \cup a.defs, live |-> d.live \cup a.live, slices |-> sl]
        /\ reach' = [b \in Parts |-> h[b] \cup reach[b]]
        /\ dropped' = [b \in Parts |-> f[b] \cup dropped[b]
                                        \cup Missed(d.slices, a.slices, b)]
    BY DEF Join, flow_merge
  <1>2. /\ program \in Programs /\ writes \in Def /\ merged \in BOOLEAN
        /\ stack \in Seq(Waiting(writes)) /\ Len(stack) <= program.depth
        /\ FlowOK(di, reach, dropped, writes, merged)
        /\ \A i \in 1..Len(stack) :
             FlowOK(stack[i].di, stack[i].reach, stack[i].dropped, writes, merged)
    BY DEF IInv
  <1>3. writes \in Nat BY Running
  <1>4. 1 \in 1..Len(stack) /\ Head(stack) = stack[1] BY <1>1, <1>2
  <1>5. FlowOK(d, h, f, writes, TRUE) /\ FlowOK(a, reach, dropped, writes, TRUE)
    BY <1>2, <1>3, <1>4, Remains
  <1>6. /\ stack' \in Seq(Waiting(writes)) /\ Len(stack') = Len(stack) - 1
        /\ \A i \in 1..Len(stack') : stack'[i] = stack[i + 1] /\ i + 1 \in 1..Len(stack)
    BY <1>1, <1>2
  <1>7. \A i \in 1..Len(stack') :
          FlowOK(stack'[i].di, stack'[i].reach, stack'[i].dropped, writes, TRUE)
    BY <1>2, <1>3, <1>6, Remains
  <1>8. /\ d \in Info(writes) /\ a \in Info(writes)
        /\ Disjoint(d.slices) /\ Disjoint(a.slices)
        /\ InFamily(d.slices) /\ InFamily(a.slices)
        /\ (d.live = {} => d.defs = {}) /\ (a.live = {} => a.defs = {})
        /\ (Unsliced => DOMAIN d.slices = {} /\ DOMAIN a.slices = {})
        /\ h \in History(writes) /\ reach \in History(writes)
        /\ f \in History(writes) /\ dropped \in History(writes)
    BY <1>5 DEF FlowOK, InfoOK
  <1>9. /\ d.defs \in SUBSET (0..writes) /\ a.defs \in SUBSET (0..writes)
        /\ d.live \in SUBSET Parts /\ a.live \in SUBSET Parts
        /\ d.slices \in Slices(writes) /\ a.slices \in Slices(writes)
    BY <1>8 DEF Info
  <1> HIDE DEF a, d, h, f
  <1>10. /\ sl \in Slices(writes) /\ Disjoint(sl) /\ InFamily(sl)
         /\ \A b : Sliced(d.slices, b) \subseteq Sliced(sl, b)
         /\ \A b : Sliced(a.slices, b) \subseteq Sliced(sl, b) \cup Missed(d.slices, a.slices, b)
         /\ \A b : Missed(d.slices, a.slices, b) \in SUBSET (0..writes)
         /\ Whole => \A b : Missed(d.slices, a.slices, b) = {}
         /\ DOMAIN a.slices = {} => sl = d.slices
    <2>1. /\ Disjoint(d.slices) /\ Disjoint(a.slices)
          /\ InFamily(d.slices) /\ InFamily(a.slices)
      BY <1>8
    <2>2. d.slices \in Slices(writes) /\ a.slices \in Slices(writes) BY <1>9
    <2>3. program \in Programs /\ writes \in Nat BY <1>2, <1>3
    <2> QED BY <2>1, <2>2, <2>3, MergedFlows, ZenonT(60)
  <1> HIDE DEF sl
  <1>11. di'.defs = d.defs \cup a.defs /\ di'.live = d.live \cup a.live /\ di'.slices = sl
    BY <1>1
  <1>12. di' \in Info(writes) BY <1>1, <1>9, <1>10 DEF Info
  <1>13. InfoOK(di', writes) BY <1>8, <1>10, <1>11, <1>12 DEF InfoOK
  <1>14. reach' \in History(writes)
    <2>1. \A b \in Parts : h[b] \cup reach[b] \in SUBSET (0..writes) BY <1>8 DEF History
    <2> QED BY <1>1, <2>1 DEF History
  <1>15. dropped' \in History(writes)
    <2>1. ASSUME NEW b \in Parts
          PROVE  f[b] \cup dropped[b] \cup Missed(d.slices, a.slices, b) \in SUBSET (0..writes)
      <3>1. f[b] \in SUBSET (0..writes) /\ dropped[b] \in SUBSET (0..writes)
        BY <1>8, <2>1 DEF History
      <3>2. Missed(d.slices, a.slices, b) \in SUBSET (0..writes) BY <1>10
      <3> QED BY <3>1, <3>2
    <2> QED BY <1>1, <2>1 DEF History
  <1>16. ASSUME NEW b \in Parts PROVE reach'[b] \subseteq Found(di', b) \cup dropped'[b]
    <2>1. h[b] \subseteq Found(d, b) \cup f[b] /\ reach[b] \subseteq Found(a, b) \cup dropped[b]
      BY <1>5, <1>16 DEF FlowOK
    <2>2. Found(d, b) \subseteq Found(di', b) BY <1>10, <1>11 DEF Found
    <2>3. Found(a, b) \subseteq Found(di', b) \cup Missed(d.slices, a.slices, b)
      <3>1. Sliced(a.slices, b) \subseteq Sliced(sl, b) \cup Missed(d.slices, a.slices, b) BY <1>10
      <3> QED BY <1>11, <3>1 DEF Found
    <2>4. /\ reach'[b] = h[b] \cup reach[b]
          /\ dropped'[b] = f[b] \cup dropped[b] \cup Missed(d.slices, a.slices, b)
      BY <1>1, <1>16
    <2> QED BY <2>1, <2>2, <2>3, <2>4
  <1>17. ASSUME Clean(TRUE), NEW b \in Parts PROVE dropped'[b] = {}
    <2>1. Whole BY <1>17 DEF Clean
    <2>2. f[b] = {} /\ dropped[b] = {} BY <1>5, <1>17 DEF FlowOK
    <2>3. Missed(d.slices, a.slices, b) = {} BY <1>10, <2>1
    <2> QED BY <1>1, <1>17, <2>2, <2>3
  <1>18. FlowOK(di', reach', dropped', writes, TRUE)
    BY <1>13, <1>14, <1>15, <1>16, <1>17 DEF FlowOK, Exact
  <1>19. Len(stack') <= program.depth BY <1>2, <1>6, Kinds
  <1>20. Kept BY <1>1, <1>2, <1>6, <1>7, <1>18, <1>19 DEF Kept
  <1> QED BY <1>20, KeptInvariant

LEMMA NextInvariant ==
  ASSUME IInv, [Next]_vars
  PROVE  IInv'
  <1>1. CASE UNCHANGED vars
    <2>1. /\ program' = program /\ writes' = writes /\ merged' = merged /\ stack' = stack
          /\ di' = di /\ reach' = reach /\ dropped' = dropped
      BY <1>1 DEF vars
    <2>2. Kept BY <2>1 DEF Kept, IInv
    <2> QED BY <2>2, KeptInvariant
  <1>2. CASE WriteWhole
    <2>1. IsWrite("whole") /\ UNCHANGED <<stack, merged>> BY <1>2 DEF WriteWhole
    <2> QED BY <1>2, <2>1, StepWhole, WriteKept
  <1>3. CASE WritePlusSlice
    <2>1. IsWrite("plus_slice") /\ UNCHANGED <<stack, merged>> BY <1>3 DEF WritePlusSlice
    <2> QED BY <1>3, <2>1, StepSomewhere, WriteKept
  <1>4. CASE WriteDynamic
    <2>1. IsWrite("dynamic") /\ UNCHANGED <<stack, merged>> BY <1>4 DEF WriteDynamic
    <2> QED BY <1>4, <2>1, StepDynamic, WriteKept
  <1>5. CASE WriteNext
    <2>1. IsWrite("next") /\ UNCHANGED <<stack, merged>> BY <1>5 DEF WriteNext
    <2> QED BY <1>5, <2>1, StepSomewhere, WriteKept
  <1>6. ASSUME NEW r \in program.slices, WriteSlice(r) PROVE IInv'
    <2>1. IsWrite("slice") /\ UNCHANGED <<stack, merged>> BY <1>6 DEF WriteSlice
    <2> QED BY <1>6, <2>1, StepSlice, WriteKept
  <1>7. ASSUME NEW i \in Parts, WriteIndex(i) PROVE IInv'
    <2>1. IsWrite("index") /\ UNCHANGED <<stack, merged>> BY <1>7 DEF WriteIndex
    <2> QED BY <1>7, <2>1, StepIndex, WriteKept
  <1>8. ASSUME NEW i \in Parts, WriteField(i) PROVE IInv'
    <2>1. IsWrite("field") /\ UNCHANGED <<stack, merged>> BY <1>8 DEF WriteField
    <2> QED BY <1>8, <2>1, StepField, WriteKept
  <1>9. ASSUME NEW n \in {-1, 1}, PushPop(n) PROVE IInv'
    <2>1. IsWrite(IF n > 0 THEN "push" ELSE "pop") /\ UNCHANGED <<stack, merged>>
      BY <1>9 DEF PushPop
    <2>2. FlowOK(di', reach', dropped', writes', merged') BY <1>9, StepPushPop
    <2> QED BY <2>1, <2>2, WriteKept
  <1>10. CASE Branch BY <1>10, BranchKept
  <1>11. CASE Else BY <1>11, ElseKept
  <1>12. CASE Join BY <1>12, JoinKept
  <1> QED
    BY <1>1, <1>2, <1>3, <1>4, <1>5, <1>6, <1>7, <1>8, <1>9, <1>10, <1>11, <1>12 DEF Next

-----------------------------------------------------------------------------
(***************************************************************************)
(* ComputeDefUse keeps its invariant: whatever a program writes, and       *)
(* however its if statements are nested, the visitor and all clones that   *)
(* wait know disjoint slices, and know what reaches each part.             *)
(***************************************************************************)
THEOREM DefUseInductive == Spec => []IInv
  <1>1. Init => IInv BY InitInvariant
  <1>2. IInv /\ [Next]_vars => IInv' BY NextInvariant
  <1> QED BY <1>1, <1>2, PTL DEF Spec

\* A read finds what is found for its parts.
LEMMA ReadFinds ==
  ASSUME IInv, NEW r \in SUBSET Parts
  PROVE  /\ \A b \in r : Found(di, b) \subseteq do_read(r)
         /\ \A x \in do_read(r) : \E b \in r : x \in Found(di, b)
  <1> DEFINE sliced == UNION {di.slices[k] : k \in {j \in DOMAIN di.slices : j \cap r # {}}}
             whole == IF di.live \cap r = {} THEN {} ELSE di.defs
  <1>1. do_read(r) = sliced \cup whole BY DEF do_read
  <1>2. ASSUME NEW b \in r, NEW x \in Found(di, b) PROVE x \in sliced \cup whole
    <2>1. CASE x \in Sliced(di.slices, b) BY <2>1 DEF Sliced
    <2>2. CASE b \in di.live /\ x \in di.defs
      <3>1. di.live \cap r # {} BY <2>2
      <3>2. x \in whole BY <2>2, <3>1
      <3> QED BY <3>2
    <2> QED BY <1>2, <2>1, <2>2 DEF Found
  <1>3. ASSUME NEW x \in sliced PROVE \E b \in r : x \in Found(di, b)
    <2>1. PICK k \in DOMAIN di.slices : k \cap r # {} /\ x \in di.slices[k] BY <1>3
    <2>2. PICK b \in r : b \in k BY <2>1
    <2>3. x \in Sliced(di.slices, b) BY <2>1, <2>2, SlicedIn
    <2> QED BY <2>2, <2>3 DEF Found
  <1>4. ASSUME NEW x \in whole PROVE \E b \in r : x \in Found(di, b)
    <2>1. di.live \cap r # {} /\ x \in di.defs BY <1>4
    <2>2. PICK b \in r : b \in di.live BY <2>1
    <2> QED BY <2>1, <2>2 DEF Found
  <1> HIDE DEF sliced, whole
  <1>5. \A b \in r : Found(di, b) \subseteq do_read(r) BY <1>1, <1>2
  <1>6. \A x \in do_read(r) : \E b \in r : x \in Found(di, b) BY <1>1, <1>3, <1>4
  <1> QED BY <1>5, <1>6

(***************************************************************************)
(* def_info_t stays exact (erase_slice, split_slice, and the end of        *)
(* do_write): keys never overlap, defs are forgotten with the last part    *)
(* they reach, and until flows are merged a read of a slice or a field     *)
(* finds the writes that reach it, and no others.                          *)
(***************************************************************************)
THEOREM SlicesAreExact == Spec => []SlicesExact
  <1>1. IInv => SlicesExact
    <2> SUFFICES ASSUME IInv PROVE SlicesExact OBVIOUS
    <2>1. /\ program \in Programs /\ writes \in Nat /\ merged \in BOOLEAN
          /\ di.defs \in SUBSET (0..writes) /\ di.live \in SUBSET Parts
          /\ di.slices \in Slices(writes)
          /\ Disjoint(di.slices)
          /\ di.live = {} => di.defs = {}
          /\ reach \in History(writes) /\ dropped \in History(writes)
          /\ Exact(merged) => \A b \in Parts : reach[b] = Found(di, b)
      BY Running
    <2>2. writes \in Def /\ Len(stack) <= program.depth BY DEF IInv
    <2>3. 0..writes \subseteq Def BY <2>1, <2>2, Kinds DEF Def
    <2>4. \A k \in DOMAIN di.slices : k \in Intervals /\ di.slices[k] \in SUBSET (0..writes)
      BY <2>1, SlicesType
    <2>5. reach \in [Parts -> SUBSET Def] /\ dropped \in [Parts -> SUBSET Def]
      BY <2>1, <2>3 DEF History
    <2>6. TypeOK BY <2>1, <2>2, <2>3, <2>4, <2>5 DEF TypeOK
    <2>7. SlicesDisjoint BY <2>1 DEF SlicesDisjoint, Disjoint
    <2>8. DefsOnlyWhereLive BY <2>1 DEF DefsOnlyWhereLive
    <2>9. ASSUME Exact(merged), NEW r \in Intervals PROVE do_read(r) = Reaching(r)
      <3>1. r \in SUBSET Parts BY <2>1, Interval
      <3>2. \A b \in r : reach[b] = Found(di, b) BY <2>1, <2>9, <3>1
      <3>3. \A x : x \in Reaching(r) <=> \E b \in r : x \in Found(di, b)
        BY <3>2 DEF Reaching
      <3>4. \A x : x \in do_read(r) <=> \E b \in r : x \in Found(di, b) BY <3>1, ReadFinds
      <3>5. \A x : x \in do_read(r) <=> x \in Reaching(r) BY <3>3, <3>4
      <3> QED BY <3>5
    <2>10. ReadsExact BY <2>9 DEF ReadsExact, Exact
    <2> QED BY <2>6, <2>7, <2>8, <2>10 DEF SlicesExact
  <1> QED BY <1>1, DefUseInductive, PTL

(***************************************************************************)
(* getDefs returns every definition that reaches a use, in every program:  *)
(* a read of any slice, element or field, and of the whole variable at the *)
(* end, finds all writes that some path leaves there, except those dropped *)
(* for the very parts that are read where a merge leaves a gap between     *)
(* slices or do_write clears them.  Where no flows with different          *)
(* overlapping slices are merged and no write of a part meets a write at   *)
(* an unknown place, nothing is dropped and all of them are found.         *)
(***************************************************************************)
THEOREM UsesAreSound == Spec => []UsesSound
  <1>1. IInv => UsesSound
    <2> SUFFICES ASSUME IInv PROVE UsesSound OBVIOUS
    <2>1. /\ program \in Programs
          /\ \A b \in Parts : reach[b] \subseteq Found(di, b) \cup dropped[b]
          /\ Clean(merged) => \A b \in Parts : dropped[b] = {}
      BY Running
    <2>2. ASSUME NEW r \in Intervals PROVE Reaching(r) \subseteq do_read(r) \cup Dropped(r)
      <3>1. r \in SUBSET Parts BY <2>1, Interval
      <3>2. \A b \in r : Found(di, b) \subseteq do_read(r) BY <3>1, ReadFinds
      <3>3. \A b \in r : reach[b] \subseteq do_read(r) \cup dropped[b] BY <2>1, <3>1, <3>2
      <3> QED BY <3>3 DEF Reaching, Dropped
    <2>3. Reaching(Parts) \subseteq add_uses \cup Dropped(Parts)
      <3>1. \A b \in Parts : Found(di, b) \subseteq add_uses BY DEF Found, Sliced, add_uses
      <3>2. \A b \in Parts : reach[b] \subseteq add_uses \cup dropped[b] BY <2>1, <3>1
      <3> QED BY <3>2 DEF Reaching, Dropped
    <2>4. NothingDropped BY <2>1 DEF NothingDropped, Clean, Whole
    <2> QED BY <2>2, <2>3, <2>4 DEF UsesSound, ReadsSound, AllUsesSound
  <1> QED BY <1>1, DefUseInductive, PTL
=============================================================================
