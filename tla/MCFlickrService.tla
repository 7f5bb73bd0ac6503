--------------------------- MODULE MCFlickrService ---------------------------
(* Two users' tokens, one of them revoked, and one view.                     *)
EXTENDS FlickrService, TLC

CONSTANTS good, bad, p1, p2, p3

SameProxy == Permutations({p1, p2, p3})
=============================================================================
