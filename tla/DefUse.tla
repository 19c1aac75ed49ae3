------------------------------- MODULE DefUse -------------------------------
(***************************************************************************)
(* What ComputeDefUse (midend/def_use.cpp) knows of one variable while it  *)
(* walks over a control or parser: which writes may have given each part   *)
(* of the variable its value.                                              *)
(*                                                                         *)
(* The parts are the bits of a bit<W>, the elements of a header stack or   *)
(* the fields of a struct; a def is the number of the write that made it.  *)
(* def_info_t is the record di: di.defs are writes of the whole variable,  *)
(* which reach the parts in di.live only, and di.slices maps disjoint sets *)
(* of parts, the keys, to the defs that reach them (def_info_t::slices,    *)
(* and ::fields for a struct).  A slice of a slice and a field of a field  *)
(* are left out, and so are valid bits.                                    *)
(***************************************************************************)
EXTENDS Integers, Sequences, FiniteSets, FiniteSetsExt

(***************************************************************************)
(* A kind of program that is analysed: the width of the variable is the    *)
(* number of its parts, slices are those the program writes, ops the kinds *)
(* of write in it.  param says how the variable starts out: "local", or    *)
(* "live" for a parameter of a control of a type that has a name.  writes  *)
(* and depth bound the writes and the nesting of if statements.            *)
(***************************************************************************)
CONSTANT Programs

ASSUME DefUseAssumption ==
  \A p \in Programs :
    /\ p.width \in Nat \ {0}
    /\ p.kind \in {"bits", "array", "struct"} /\ p.param \in {"local", "live"}
    /\ p.slices \subseteq {lo..hi : lo, hi \in 0..(p.width - 1)} \ {{}}
    /\ p.ops \subseteq {"whole", "slice", "plus_slice", "index", "dynamic", "next", "push",
                        "pop", "field", "branch"}
    /\ p.writes \in Nat /\ p.depth \in Nat

VARIABLES
  program,  \* the kind of program
  di,       \* the running visitor's def_info of the variable
  reach,    \* history: the defs that reach each part, on some path to this point
  dropped,  \* history: the defs of each part that the code has let go of, see ReadsSound
  stack,    \* the enclosing if statements, innermost first
  writes,   \* the number of writes passed so far
  merged    \* history: flows have been merged

vars == <<program, di, reach, dropped, stack, writes, merged>>

Parts == 0..(program.width - 1)
Def == 0..program.writes          \* 0 is the parameter itself
Intervals == {lo..hi : lo, hi \in Parts} \ {{}}
NoSlices == [k \in {} |-> {}]

\* The function f with the value b at a, and f with g where f has no value.
Put(f, a, b) == [x \in DOMAIN f \cup {a} |-> IF x = a THEN b ELSE f[x]]
Over(f, g) == [x \in DOMAIN f \cup DOMAIN g |-> IF x \in DOMAIN f THEN f[x] ELSE g[x]]

(***************************************************************************)
(* Slices.                                                                 *)
(***************************************************************************)
\* Key k cut at the borders of range r.
Pieces(k, r) ==
  IF k \cap r = {} THEN {k}
  ELSE {k \cap r, {b \in k : b < Min(r)}, {b \in k : b > Max(r)}} \ {{}}

Repartition(slices, keys) ==
  [p \in keys |-> slices[CHOOSE k \in DOMAIN slices : p \subseteq k]]

CutKeys(slices, r) == UNION {Pieces(k, r) : k \in DOMAIN slices}

\* Mutation: a slice is erased when any of it is overwritten.
erase_slice_overlapping(slices, r) ==
  Repartition(slices, {k \in DOMAIN slices : k \cap r = {}})
erase_slice(slices, r) ==
  Repartition(slices, {k \in CutKeys(slices, r) : ~(k \subseteq r)})

split_slice(slices, r) ==
  IF \A k \in DOMAIN slices : k \cap r = {} THEN Put(slices, r, {})
  ELSE Repartition(slices, CutKeys(slices, r))

\* What split_slice leaves out of the range r when only some of r is there: no key
\* is made for the parts in between.
Gap(slices, r) ==
  IF \A k \in DOMAIN slices : k \cap r = {} THEN {} ELSE r \ UNION DOMAIN slices

\* One round of the loop over a.slices in def_info_t::flow_merge.
MergeSlice(r, defs, slices) ==
  LET cut == split_slice(slices, r)
  IN  [k \in DOMAIN cut |-> IF k \cap r = {} THEN cut[k] ELSE cut[k] \cup defs]

MergeSlices(slices, more) ==
  LET Merge[S \in SUBSET DOMAIN more] ==
        IF S = {} THEN slices
        ELSE LET r == CHOOSE r \in S : TRUE
             IN  MergeSlice(r, more[r], Merge[S \ {r}])
  IN  Merge[DOMAIN more]

\* Mutation: live bits that only one side has are dropped.
flow_merge_live(d, a) ==
  [defs |-> d.defs \cup a.defs,
   live |-> d.live \cap a.live,
   slices |-> MergeSlices(d.slices, a.slices)]
flow_merge(d, a) ==
  [defs |-> d.defs \cup a.defs,
   live |-> d.live \cup a.live,
   slices |-> MergeSlices(d.slices, a.slices)]

(***************************************************************************)
(* do_read, and add_uses of an out parameter: the defs they find.          *)
(***************************************************************************)
\* A slice of bits, an element with a constant index or a field.
do_read(r) ==
  (UNION {di.slices[k] : k \in {j \in DOMAIN di.slices : j \cap r # {}}})
    \cup (IF di.live \cap r = {} THEN {} ELSE di.defs)

\* Also what do_read finds for an element whose index is not constant, or for the
\* next or last one of a stack.
add_uses == di.defs \cup UNION {di.slices[k] : k \in DOMAIN di.slices}

(***************************************************************************)
(* do_write: write number d.                                               *)
(***************************************************************************)
\* The end of do_write, after the defs have been cleared or not.
WrittenWhole(defs, d) == [defs |-> defs \cup {d}, live |-> Parts, slices |-> NoSlices]

\* The defs of part b in a slice, which do_write clears and flow_merge may drop.
Sliced(slices, b) == UNION {slices[k] : k \in {j \in DOMAIN slices : b \in j}}

\* A write somewhere in the variable is taken for one of the whole: the slices are
\* cleared, although the write may have left them as they were.
ClearsSlices == dropped' = [b \in Parts |-> dropped[b] \cup Sliced(di.slices, b)]

WithoutLive(r) ==
  LET live == di.live \ r
  IN  [di EXCEPT !.live = live, !.defs = IF live = {} THEN {} ELSE @]

IsWrite(op) ==
  /\ op \in program.ops /\ writes < program.writes
  /\ writes' = writes + 1
  /\ UNCHANGED program

WriteWhole ==
  /\ IsWrite("whole")
  /\ di' = WrittenWhole({}, writes')
  /\ reach' = [b \in Parts |-> {writes'}]
  /\ dropped' = [b \in Parts |-> {}]
  /\ UNCHANGED <<stack, merged>>

Overwritten(r) ==
  /\ reach' = [b \in Parts |-> IF b \in r THEN {writes'} ELSE reach[b]]
  /\ dropped' = [b \in Parts |-> IF b \in r THEN {} ELSE dropped[b]]

WriteSlice(r) ==
  /\ program.kind = "bits" /\ IsWrite("slice")
  /\ di' = [WithoutLive(r) EXCEPT !.slices = Put(erase_slice(@, r), r, {writes'})]
  /\ Overwritten(r)
  /\ UNCHANGED <<stack, merged>>

\* A slice with a constant width at a place that is not constant.
WritePlusSlice ==
  /\ program.kind = "bits" /\ IsWrite("plus_slice")
  /\ di' = WrittenWhole(di.defs, writes')
  /\ reach' = [b \in Parts |-> reach[b] \cup {writes'}]
  /\ ClearsSlices
  /\ UNCHANGED <<stack, merged>>

WriteIndex(i) ==
  /\ program.kind = "array" /\ IsWrite("index")
  /\ di' = [WithoutLive({i}) EXCEPT !.slices = Put(@, {i}, {writes'})]
  /\ Overwritten({i})
  /\ UNCHANGED <<stack, merged>>

WrittenSomewhere(d) == [di EXCEPT !.defs = @ \cup {d}, !.live = Parts]

WriteDynamic ==
  /\ program.kind = "array" /\ IsWrite("dynamic")
  /\ di' = WrittenSomewhere(writes')
  /\ reach' = [b \in Parts |-> reach[b] \cup {writes'}]
  /\ UNCHANGED <<dropped, stack, merged>>

\* The next or last element of a header stack.
WriteNext ==
  /\ program.kind = "array" /\ IsWrite("next")
  /\ di' = WrittenWhole(di.defs, writes')
  /\ reach' = [b \in Parts |-> reach[b] \cup {writes'}]
  /\ ClearsSlices
  /\ UNCHANGED <<stack, merged>>

\* push_front(n) and pop_front(-n): element b is what b - n was.  The slices are
\* moved as well, but the end of do_write clears them.
Shift(n, d) ==
  LET live == {b \in Parts : b - n \in di.live}
  IN  WrittenWhole(IF live = {} THEN {} ELSE di.defs, d)

PushPop(n) ==
  /\ program.kind = "array" /\ IsWrite(IF n > 0 THEN "push" ELSE "pop")
  /\ di' = Shift(n, writes')
  /\ reach' = [b \in Parts |-> IF b - n \in Parts THEN reach[b - n] ELSE {writes'}]
  /\ dropped' = [b \in Parts |-> IF b - n \in Parts
                                  THEN dropped[b - n] \cup Sliced(di.slices, b - n) ELSE {}]
  /\ UNCHANGED <<stack, merged>>

\* A field takes the struct's defs over to all fields that have none of their own.
Fields(i) ==
  IF i \in di.live
  THEN Over(di.slices, [k \in {{j} : j \in Parts} |-> di.defs])
  ELSE di.slices

WriteField(i) ==
  /\ program.kind = "struct" /\ IsWrite("field")
  /\ di' = [WithoutLive({i}) EXCEPT !.slices = Put(Fields(i), {i}, {writes'})]
  /\ Overwritten({i})
  /\ UNCHANGED <<stack, merged>>

(***************************************************************************)
(* An if statement: a clone waits for the second branch while the visitor  *)
(* itself takes the first one, and is then merged into it.                 *)
(***************************************************************************)
Branch ==
  /\ "branch" \in program.ops /\ Len(stack) < program.depth
  /\ stack' = <<[di |-> di, reach |-> reach, dropped |-> dropped, in |-> "then"]>> \o stack
  /\ UNCHANGED <<program, di, reach, dropped, writes, merged>>

Else ==
  /\ stack # <<>> /\ Head(stack).in = "then"
  /\ stack' = <<[di |-> di, reach |-> reach, dropped |-> dropped, in |-> "else"]>>
                \o Tail(stack)
  /\ di' = Head(stack).di /\ reach' = Head(stack).reach /\ dropped' = Head(stack).dropped
  /\ UNCHANGED <<program, writes, merged>>

\* The defs of part b that the merge of the slices `more` leaves out.
Missed(slices, more, b) ==
  UNION {more[r] : r \in {q \in DOMAIN more : b \in Gap(slices, q)}}

Join ==
  /\ stack # <<>> /\ Head(stack).in = "else"
  /\ di' = flow_merge(Head(stack).di, di)
  /\ reach' = [b \in Parts |-> Head(stack).reach[b] \cup reach[b]]
  /\ dropped' = [b \in Parts |-> Head(stack).dropped[b] \cup dropped[b]
                                   \cup Missed(Head(stack).di.slices, di.slices, b)]
  /\ stack' = Tail(stack)
  /\ merged' = TRUE
  /\ UNCHANGED <<program, writes>>

Init ==
  /\ program \in Programs
  /\ di = [defs |-> IF program.param = "live" THEN {0} ELSE {},
           live |-> IF program.param = "live" THEN Parts ELSE {},
           slices |-> NoSlices]
  /\ reach = [b \in Parts |-> IF program.param = "live" THEN {0} ELSE {}]
  /\ dropped = [b \in Parts |-> {}]
  /\ stack = <<>>
  /\ writes = 0
  /\ merged = FALSE

Next ==
  \/ WriteWhole \/ WritePlusSlice \/ WriteDynamic \/ WriteNext
  \/ \E r \in program.slices : WriteSlice(r)
  \/ \E i \in Parts : WriteIndex(i) \/ WriteField(i)
  \/ \E n \in {-1, 1} : PushPop(n)
  \/ Branch \/ Else \/ Join

Spec == Init /\ [][Next]_vars
-----------------------------------------------------------------------------
(***************************************************************************)
(* Properties.                                                             *)
(***************************************************************************)
TypeOK ==
  /\ di.defs \subseteq Def /\ di.live \subseteq Parts
  /\ \A k \in DOMAIN di.slices : k \in Intervals /\ di.slices[k] \subseteq Def
  /\ reach \in [Parts -> SUBSET Def] /\ dropped \in [Parts -> SUBSET Def]
  /\ Len(stack) <= program.depth /\ writes \in Def /\ merged \in BOOLEAN

Reaching(r) == UNION {reach[b] : b \in r}
Dropped(r) == UNION {dropped[b] : b \in r}

(***************************************************************************)
(* def_use.h: "getDefs(use) will return all the definitions in the program *)
(* that reach the argument use".  In every program, reading any slice,     *)
(* element or field finds every write that some path to here leaves in one *)
(* of its parts, but for those that `dropped` has for these very parts:    *)
(* split_slice creates a range only if none of it is there, so that a      *)
(* merge may miss what lies in between, and the end of do_write clears the *)
(* slices although the write may have been elsewhere.  Nothing else is     *)
(* lost, and a part that is written again is found again.                  *)
(***************************************************************************)
ReadsSound == \A r \in Intervals : Reaching(r) \subseteq do_read(r) \cup Dropped(r)

\* The same for an element with an index that is not known, and for an out
\* parameter at the end of the control or parser.
AllUsesSound == Reaching(Parts) \subseteq add_uses \cup Dropped(Parts)

\* The program has slices that overlap but are not the same.
Overlapping == \E k, j \in program.slices : k # j /\ k \cap j # {}

\* The program writes parts, and also places that the end of do_write takes for the
\* whole variable.
Clears ==
  /\ program.ops \cap {"slice", "index", "field"} # {}
  /\ program.ops \cap {"plus_slice", "next", "push", "pop"} # {}

\* Nothing at all is dropped, and getDefs returns all definitions, in a program
\* that merges no flows with different overlapping slices, nor writes both parts
\* and unknown places of one variable.
NothingDropped ==
  (merged /\ program.kind = "bits" => ~Overlapping) /\ ~Clears =>
    \A b \in Parts : dropped[b] = {}

\* As long as no flows are merged and every write says which parts it writes, a
\* read finds nothing but what reaches it: slices that were overwritten in part
\* are cut exactly.
ReadsExact ==
  ~merged /\ program.ops \subseteq {"whole", "slice", "field", "branch"} =>
    \A r \in Intervals : do_read(r) = Reaching(r)

\* slices_sanity: "make sure keys do not overlap".
SlicesDisjoint == \A k, j \in DOMAIN di.slices : k # j => k \cap j = {}

\* def_use.h: "`defs` will be empty if `live` is".
DefsOnlyWhereLive == di.live = {} => di.defs = {}

(***************************************************************************)
(* A use finds every definition that reaches it (getDefs), whether it      *)
(* reads a part that is known, one that is not, or the whole variable on   *)
(* the way out, except a definition dropped for the parts it reads; and    *)
(* definitions are dropped in two kinds of program only.                   *)
(***************************************************************************)
UsesSound == ReadsSound /\ AllUsesSound /\ NothingDropped

(***************************************************************************)
(* def_info_t is kept exact while slices are written, cut and erased       *)
(* (erase_slice, split_slice): its keys stay disjoint, a write of the      *)
(* whole variable is forgotten with the last part it reaches, and a read   *)
(* finds no write that was overwritten.                                    *)
(***************************************************************************)
SlicesExact == TypeOK /\ SlicesDisjoint /\ DefsOnlyWhereLive /\ ReadsExact
=============================================================================
