---------------------------- MODULE ClientService ----------------------------
(***************************************************************************)
(* The calls that a program makes with the client library                  *)
(* (libsocialweb-client/sw-client-service.c): plain ones, that are over     *)
(* with the reply, and uploads, whose reply is a number by which the signal *)
(* PhotoUploadProgress tells them apart.  Replies and signals of the daemon *)
(* arrive in the order in which they were sent; the daemon may die and be   *)
(* started again, and then it numbers from 1 again (sw-utils.c).            *)
(*                                                                         *)
(* A call's closure is freed when it is over, but the handler that was      *)
(* connected for it stays connected and keeps referring to the memory,      *)
(* which the closure of a later call may be given.                          *)
(***************************************************************************)
EXTENDS Naturals, FiniteSets, Sequences

CONSTANTS
  Call,     \* calls of the program to one service (bound)
  MaxWire   \* messages on their way to the program (bound)

ASSUME ClientAssumption == IsFiniteSet(Call) /\ MaxWire \in Nat

VARIABLES
  kind,     \* Call -> "plain", "photo" or "video"
  stage,    \* Call -> the life of its closure
  opid,     \* Call -> closure->opid
  memory,   \* Call -> whose closure lies where this call's was allocated
  watches,  \* the handlers of PhotoUploadProgress, by the call they were made for
  success,  \* the calls whose callback was given a success
  job,      \* Call -> what the daemon makes of it (SwRequests), or "lost"
  number,   \* Call -> the operation number the daemon gave it
  next,     \* sw_next_opid
  died,     \* the daemon was started again
  wire      \* messages on their way to the program

closures == <<kind, opid, memory, watches>>
outcome == <<stage, success>>
daemon == <<job, number, next, died>>
vars == <<closures, outcome, daemon, wire>>

Freed == "freed"

Daemon == INSTANCE SwRequests WITH Op <- Call, state <- job, silent <- Call

-----------------------------------------------------------------------------
(* Messages of the daemon.                                                 *)

Reply(c, what, n) == [to |-> {c}, what |-> what, opid |-> n]
Signal(n, progress) == [to |-> {}, what |-> progress, opid |-> n]

Sends(m) == Len(wire) < MaxWire /\ wire' = Append(wire, m)

-----------------------------------------------------------------------------
(* The program.                                                            *)

\* The callback is called, and the closure freed.
Over(c, good) ==
  /\ stage' = [stage EXCEPT ![c] = Freed]
  /\ success' = IF good THEN success \cup {c} ELSE success

\* g_slice_new0: memory that was freed is given away again, or other memory.
Allocates(c) ==
  \/ UNCHANGED memory
  \/ \E d \in Call \ {c} :
       /\ stage[d] = Freed /\ memory[d] = d
       /\ memory' = [h \in Call |-> IF memory[h] = d THEN c ELSE memory[h]]

\* A call without an upload: it is sent at once.
StartCall(c) ==
  /\ stage[c] = "idle" /\ Allocates(c)
  /\ kind' = [kind EXCEPT ![c] = "plain"]
  /\ stage' = [stage EXCEPT ![c] = "sent"]
  /\ Daemon!Ask(c)
  /\ UNCHANGED <<opid, watches, success, number, next, died, wire>>

\* _sw_client_service_upload asks for the size of the file first.
StartUpload(c, k) ==
  /\ stage[c] = "idle" /\ Allocates(c)
  /\ kind' = [kind EXCEPT ![c] = k]
  /\ stage' = [stage EXCEPT ![c] = "sizing"]
  /\ UNCHANGED <<opid, watches, success, daemon, wire>>

NoFile(c) ==
  /\ stage[c] = "sizing"
  /\ Over(c, FALSE)
  /\ UNCHANGED <<closures, daemon, wire>>

\* Nobody has added VideoUploadProgress to the proxy, so that connecting to it fails.
GotFileSize_NoSignal(c) ==
  /\ stage[c] = "sizing" /\ stage' = [stage EXCEPT ![c] = "sent"]
  /\ Daemon!Ask(c)
  /\ UNCHANGED <<closures, success, number, next, died, wire>>
GotFileSize(c) ==
  /\ stage[c] = "sizing" /\ stage' = [stage EXCEPT ![c] = "sent"]
  /\ watches' = IF kind[c] = "photo" THEN watches \cup {c} ELSE watches
  /\ Daemon!Ask(c)
  /\ UNCHANGED <<kind, opid, memory, success, number, next, died, wire>>

\* dbus-glib waits 25 seconds for a reply; the bus answers sooner for a daemon that
\* has died.
TimesOut(c) ==
  /\ stage[c] = "sent"
  /\ Over(c, FALSE)
  /\ UNCHANGED <<closures, daemon, wire>>

\* _upload_file_cb keeps the number; an error, or the reply to another call, ends it.
OnReply(c, m) ==
  IF stage[c] # "sent" THEN UNCHANGED <<outcome, opid>>
  ELSE IF m.what = "opid"
       THEN /\ stage' = [stage EXCEPT ![c] = "waiting"]
            /\ opid' = [opid EXCEPT ![c] = m.opid]
            /\ UNCHANGED success
       ELSE Over(c, m.what = "done") /\ UNCHANGED opid

\* _upload_file_progress_cb looks at the closure that lies where its own was: its
\* own or a later one.  In one that was freed and not given away g_slice_free has
\* cleared the callback: nobody is called, and it is freed again (what that does to
\* the allocator is not followed).
Takes_AnyOpid(m) == {c \in {memory[h] : h \in watches} : m.what # "some" /\ stage[c] # Freed}
Takes(m) ==
  {c \in {memory[h] : h \in watches} :
     m.what # "some" /\ opid[c] = m.opid /\ stage[c] # Freed}

\* Every handler that is connected is run, and each closure is taken once at most.
OnProgress(m) ==
  /\ stage' = [c \in Call |-> IF c \in Takes(m) THEN Freed ELSE stage[c]]
  /\ success' = IF m.what = "complete" THEN success \cup Takes(m) ELSE success
  /\ UNCHANGED opid

Receive ==
  /\ wire # <<>> /\ wire' = Tail(wire)
  /\ \/ \E c \in Head(wire).to : OnReply(c, Head(wire))
     \/ Head(wire).to = {} /\ OnProgress(Head(wire))
  /\ UNCHANGED <<kind, memory, watches, daemon>>

-----------------------------------------------------------------------------
(* The daemon, of which only SwRequests is known here, and the bus.        *)

Answers(c) ==
  /\ kind[c] = "plain" /\ Daemon!Handle(c) /\ job'[c] # "accepted"
  /\ \/ job'[c] = "complete" /\ Sends(Reply(c, "done", 0))
     \/ job'[c] \in {"refused", "failed"} /\ Sends(Reply(c, "error", 0))
     \/ job'[c] = "dropped" /\ UNCHANGED wire
  /\ UNCHANGED <<closures, outcome, number, next, died>>

Refuses(c) ==
  /\ kind[c] # "plain" /\ Daemon!Handle(c) /\ job'[c] = "refused"
  /\ Sends(Reply(c, "error", 0))
  /\ UNCHANGED <<closures, outcome, number, next, died>>

\* It gives the upload a number, even if nothing is going to be uploaded.
Accepts(c) ==
  /\ kind[c] # "plain" /\ Daemon!Handle(c) /\ job'[c] \in {"accepted", "dropped"}
  /\ number' = [number EXCEPT ![c] = next] /\ next' = next + 1
  /\ Sends(Reply(c, "opid", next))
  /\ UNCHANGED <<closures, outcome, died>>

SignalOf(c, progress) ==
  IF kind[c] = "photo" THEN Sends(Signal(number[c], progress)) ELSE UNCHANGED wire

\* Progress: -1 in the case of Twitpic, see ServiceRequests.
Reports(c) ==
  /\ job[c] = "accepted" /\ kind[c] = "photo"
  /\ \E progress \in {"some", "failed"} : SignalOf(c, progress)
  /\ UNCHANGED <<closures, outcome, daemon>>

Concludes(c) ==
  /\ Daemon!Conclude(c) /\ SignalOf(c, job'[c])
  /\ UNCHANGED <<closures, outcome, number, next, died>>

\* The daemon dies, and the bus starts it again for the next call.
DaemonDies ==
  /\ ~died /\ died' = TRUE /\ next' = 1
  /\ job' = [c \in Call |-> IF job[c] \in {"asked", "accepted", "dropped"} THEN "lost" ELSE job[c]]
  /\ UNCHANGED <<closures, outcome, number, wire>>

Init_FromZero ==
  /\ kind = [c \in Call |-> "plain"]
  /\ stage = [c \in Call |-> "idle"]
  /\ opid = [c \in Call |-> 0]
  /\ memory = [c \in Call |-> c]
  /\ watches = {}
  /\ success = {}
  /\ Daemon!Init
  /\ number = [c \in Call |-> 0] /\ next = 0 /\ died = FALSE
  /\ wire = <<>>
Init ==
  /\ kind = [c \in Call |-> "plain"]
  /\ stage = [c \in Call |-> "idle"]
  /\ opid = [c \in Call |-> 0]
  /\ memory = [c \in Call |-> c]
  /\ watches = {}
  /\ success = {}
  /\ Daemon!Init
  /\ number = [c \in Call |-> 0] /\ next = 1 /\ died = FALSE
  /\ wire = <<>>

Next ==
  \/ Receive \/ DaemonDies
  \/ \E c \in Call :
       \/ StartCall(c) \/ NoFile(c) \/ GotFileSize(c) \/ TimesOut(c)
       \/ \E k \in {"photo", "video"} : StartUpload(c, k)
       \/ Answers(c) \/ Refuses(c) \/ Accepts(c) \/ Reports(c) \/ Concludes(c)

\* The program runs its main loop, in which timers are due.
Spec ==
  /\ Init /\ [][Next]_vars
  /\ WF_vars(Receive) /\ \A c \in Call : WF_vars(TimesOut(c))

-----------------------------------------------------------------------------
(* Properties                                                              *)

Settled == {"refused"} \cup Daemon!Verdict
Message ==
  [to : {{}} \cup {{c} : c \in Call}, opid : 0 .. Cardinality(Call),
   what : {"opid", "error", "done", "some"} \cup Daemon!Verdict]

\* Every variable has its type.
TypeOK ==
  /\ kind \in [Call -> {"plain", "photo", "video"}]
  /\ stage \in [Call -> {"idle", "sizing", "sent", "waiting", Freed}]
  /\ opid \in [Call -> 0 .. Cardinality(Call)]
  /\ memory \in [Call -> Call] /\ watches \subseteq Call
  /\ success \subseteq Call
  /\ job \in [Call -> {"idle", "asked", "dropped", "accepted", "lost"} \cup Settled]
  /\ number \in [Call -> 0 .. Cardinality(Call)] /\ next \in 1 .. Cardinality(Call) + 1
  /\ died \in BOOLEAN
  /\ wire \in Seq(Message) /\ Len(wire) <= MaxWire

\* The program is told of a success only if there is one: its own, or that of another
\* upload that a daemon that was started again gave the same number.  The first
\* daemon died over the upload then, or it was a video that came to an end unheard.
SuccessIsReal ==
  \A c \in success :
    \/ job[c] = "complete"
    \/ /\ died /\ (job[c] = "lost" \/ kind[c] = "video")
       /\ \E d \in Call : job[d] = "complete" /\ number[d] = number[c]

\* A call that was sent is over, or an upload that has its number; and the program
\* is called back for what the daemon has settled, unless it is a video.
CallsReturn ==
  \A c \in Call :
    /\ stage[c] = "sent" ~> stage[c] = Freed \/ (stage[c] = "waiting" /\ kind[c] # "plain")
    /\ (job[c] \in Settled /\ kind[c] # "video") ~> stage[c] = Freed

\* "And now wait for the progress signals": for a video that is over they come, and
\* the program is called back.
VideoIsTold ==
  \A c \in Call : (job[c] \in Settled /\ kind[c] = "video") ~> stage[c] = Freed
=============================================================================
