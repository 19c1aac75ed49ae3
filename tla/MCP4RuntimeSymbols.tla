------------------------- MODULE MCP4RuntimeSymbols -------------------------
(***************************************************************************)
(* Programs for P4RuntimeSymbols, with ids of two bits below the type and  *)
(* hash values of three.                                                   *)
(***************************************************************************)
EXTENDS P4RuntimeSymbols

Partial(S, T) == UNION {[D -> T] : D \in SUBSET S}

TwoTypes == {1, 2}
AliasNames ==
  <<<<"a">>, <<"a", "a">>, <<"a", "a", "a">>, <<"a", "b">>, <<"a", "b", "a">>, <<"b">>,
    <<"b", "a">>, <<"b", "a", "a">>, <<"b", "a", "b">>, <<"b", "b">>, <<"b", "b", "a">>>>
IdNames == <<<<"c">>, <<"x", "c">>, <<"y", "c">>>>
AllNames == AliasNames \o IdNames

\* Ids: three tables and an action, with ids of their own or not, right and wrong
\* prefixes, and hash values that collide and wrap around.
IdPrograms ==
  {<<p, [n \in ToSet(AllNames) |-> IF n \in DOMAIN h THEN h[n] ELSE 0]>> :
     p \in Partial({<<1, n>> : n \in ToSet(IdNames)} \cup {<<2, <<"c">>>>}, {NoId, 0, 3, 5}),
     h \in [ToSet(IdNames) -> {0, 3, 7}]}

\* Aliases: up to four names of up to three components, one of them used for two
\* types; and five names, more than there are ids.
AliasPrograms ==
  {<<[d \in {<<1, m>> : m \in N} \cup {<<2, CHOOSE m \in N : TRUE>>} |-> NoId],
     [n \in ToSet(AllNames) |-> 6]>> :
     N \in UNION {kSubset(k, ToSet(AliasNames)) : k \in 1..4}
          \cup {ToSet(SubSeq(AliasNames, i, i + 4)) : i \in {1, 7}}}

AllPrograms == IdPrograms \cup AliasPrograms
=============================================================================
