--------------------------- MODULE MCClientService ---------------------------
(* Two calls of one program.                                                *)
EXTENDS ClientService

CONSTANTS c1, c2
=============================================================================
