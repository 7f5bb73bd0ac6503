------------------------------ MODULE SwRequests ------------------------------
(***************************************************************************)
(* What the client of an upload, a status update or a call for collections *)
(* relies on (interfaces/sw-photo-upload.xml, sw-video-upload.xml,          *)
(* sw-status-update.xml, sw-collections.xml), or whoever waits for          *)
(* credentials: a request is refused, or ends well or badly, once and for  *)
(* ever.  Where the service may be silent it may also be dropped without a  *)
(* word, but never once it has been accepted.  ServiceRequests, VimeoUpload *)
(* and FlickrCredentialsGoa implement it, ClientService lives on it.        *)
(***************************************************************************)
CONSTANT Op

VARIABLES
  state,   \* Op -> how far the request has come
  silent   \* the requests that the service may leave without an answer

Verdict == {"failed", "complete"}

Init == state = [o \in Op |-> "idle"]

Goes(o, from, to) == \E s \in to : state[o] = from /\ state' = [state EXCEPT ![o] = s]

\* The client sends the request.
Ask(o) == Goes(o, "idle", {"asked"})

\* The service takes it or not, or has the verdict at once.
Handle(o) ==
  \/ Goes(o, "asked", {"refused", "accepted"} \cup Verdict)
  \/ o \in silent /\ Goes(o, "asked", {"dropped"})

\* What was accepted ends.
Conclude(o) == Goes(o, "accepted", Verdict)

Next == \E o \in Op : Ask(o) \/ Handle(o) \/ Conclude(o)

\* What may happen to a request; Spec adds that an answer comes.
Safety == Init /\ [][Next]_state

Spec == Safety /\ \A o \in Op : WF_state(Handle(o)) /\ WF_state(Conclude(o))
=============================================================================
