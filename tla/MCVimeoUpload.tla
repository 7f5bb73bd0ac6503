---------------------------- MODULE MCVimeoUpload ----------------------------
(* Two uploads into one new collection, or one of them into an old album or  *)
(* nowhere, with every combination of fields, and one request for the list or *)
(* for the details of the collection.                                       *)
EXTENDS VimeoUpload

CONSTANTS v1, v2, q1, p1, a1, a2, a3

MCWishes ==
  {[v \in Video |-> IF v = v1 THEN [sets |-> s, into |-> p1] ELSE w] :
     s \in SUBSET {"title", "description"},
     w \in {[sets |-> {}, into |-> p1], [sets |-> {"title"}, into |-> a3],
            [sets |-> {"description"}, into |-> None]}}
MCAsks == {"list", p1}
=============================================================================
