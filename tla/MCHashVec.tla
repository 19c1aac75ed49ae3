----------------------------- MODULE MCHashVec -----------------------------
(***************************************************************************)
(* Small hash vectors.                                                     *)
(***************************************************************************)
EXTENDS HashVec

\* Keys 1 and 2 meet in a table of 7 and part in one of 15; 1 and 4 meet in
\* 15 and part in 31; 1 and 5 never part.  Their homes leave slots that the
\* collisions allowed before a rehash cannot fill.
CollidingHash == [k \in Key |-> CASE k = 1 -> 0 [] k = 2 -> 7
                                  [] k = 3 -> 1 [] k = 4 -> 15 [] OTHER -> 0]

\* The homes of keys 0..2 fill a table of 3; that of key 3 is taken.
PerfectHash == [k \in Key |-> k]

TwoWidths == <<3, 100>>
=============================================================================
