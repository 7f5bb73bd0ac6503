--------------------------- MODULE SwServiceSignals ---------------------------
(***************************************************************************)
(* What the views of a service rely on (the capabilities-changed signal of *)
(* libsocialweb/sw-service.c): whose data the service would be given, and  *)
(* whether it has the capability credentials-valid.  It may lose the        *)
(* capability without a word, because a view that asks in vain gets nothing;*)
(* it may not gain it so, because a view that waits for it would wait on.   *)
(* ServiceViews lives on this, ServiceCredentials implements it.            *)
(***************************************************************************)
CONSTANTS Account, NoAccount

VARIABLES
  user,    \* whose data a call would be given,
  valid,   \* the service has the capability credentials-valid,
  heard,   \* as the last capabilities-changed signal said
  quiet    \* the service may become valid without a word

\* The service is given a's data and is valid or not, and emits the signal or not.
Changes(a, v, caps_changed) ==
  /\ user' = a /\ valid' = v
  /\ v /\ ~valid /\ ~quiet => caps_changed
  /\ heard' = IF caps_changed THEN v ELSE heard
  /\ UNCHANGED quiet

Init == valid = FALSE /\ heard = FALSE

Next == \E a \in Account \cup {NoAccount}, v, c \in BOOLEAN : Changes(a, v, c)

Spec == Init /\ [][Next]_<<user, valid, heard, quiet>>
=============================================================================
