-------------------------- MODULE MCServiceRequests --------------------------
(* Two requests to the same method.                                         *)
EXTENDS ServiceRequests

CONSTANTS o1, o2
=============================================================================
