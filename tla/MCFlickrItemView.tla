--------------------------- MODULE MCFlickrItemView ---------------------------
(* Two accounts with one photo each, and two views that share a cache file.  *)
EXTENDS FlickrItemView, TLC

CONSTANTS ann, bob, a1, b1, v1, v2

MCPhotosOf == (ann :> {a1}) @@ (bob :> {b1})
SameView == Permutations({v1, v2})
=============================================================================
