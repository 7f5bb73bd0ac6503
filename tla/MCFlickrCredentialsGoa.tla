----------------------- MODULE MCFlickrCredentialsGoa -----------------------
(* Two accounts, three loads and a check.                                  *)
EXTENDS FlickrCredentialsGoa

CONSTANTS a1, a2, l1, l2, l3, c1
=============================================================================
