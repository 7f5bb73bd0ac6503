---------------------------- MODULE MCServiceViews ----------------------------
(* Two accounts, one with two entries, of which one may be hidden, and one    *)
(* with a single entry.                                                       *)
EXTENDS ServiceViews, TLC

CONSTANTS ann, bob, a1, a2, b1

MCOwnerOf == (a1 :> ann) @@ (a2 :> ann) @@ (b1 :> bob)
=============================================================================
