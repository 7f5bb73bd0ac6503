---------------------------- MODULE SwServiceCaps ----------------------------
(***************************************************************************)
(* What a service with verifiable credentials promises its clients and its *)
(* views through the capabilities-changed and user-changed signals         *)
(* (libsocialweb/sw-service.c): it is configured or not, and while it is,  *)
(* the capabilities it announced last hold exactly one verdict on the      *)
(* credentials.  FlickrService implements this; FlickrItemView listens to  *)
(* it without knowing how the verdicts come about.                         *)
(***************************************************************************)
VARIABLES configured, caps

Verdict == {"valid", "invalid"}

Init == configured = FALSE /\ caps = "unconfigured"

\* user-changed and capabilities-changed: the user's credentials were found.
Configure == ~configured /\ configured' = TRUE /\ caps' \in Verdict

\* The credentials are gone or were replaced; both signals are emitted.
Forget == configured' = FALSE /\ caps' = "unconfigured"

\* capabilities-changed only.
Judge == configured /\ configured' = configured /\ caps' \in Verdict

Next == Configure \/ Forget \/ Judge

Spec == Init /\ [][Next]_<<configured, caps>>
=============================================================================
