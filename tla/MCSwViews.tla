---------------------------- MODULE MCSwViews -----------------------------
(* Three objects, the first two with one id: a result, its replacement and   *)
(* a second item whose timers run at the same time.                          *)
EXTENDS SwViews, TLC

CONSTANTS i1, i2, i3, u1, u2, v1

MCItem == {i1, i2, i3}
MCUid == {u1, u2}
MCUidOf == [i \in MCItem |-> IF i = i3 THEN u2 ELSE u1]
MCValueOf == [i \in MCItem |-> v1]
\* Exchanging the two objects of one id changes nothing; for safety only.
SameId == Permutations({i1, i2})
=============================================================================
