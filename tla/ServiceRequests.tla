--------------------------- MODULE ServiceRequests ---------------------------
(***************************************************************************)
(* The requests that a service answers with one HTTP call: uploads of      *)
(* photos and videos (Flickr, Twitpic, SmugMug, Photobucket, Facebook,     *)
(* YouTube), status updates (Twitter, Plurk, Sina, MySpace, Facebook), and  *)
(* the lists, details and creation of collections (SmugMug, Photobucket,    *)
(* Facebook).  Vimeo's uploads take several calls: see VimeoUpload.         *)
(*                                                                         *)
(* A request travels to the daemon, the service checks it and sends a call *)
(* if it has a proxy to send it with, the call reports its progress and     *)
(* ends.  Meanwhile the service finds and loses its user.  A method of a    *)
(* service is a record of the points where the code of the methods differs. *)
(***************************************************************************)
CONSTANT Op   \* requests, all to one method (bound)

VARIABLES
  method,   \* which one
  proxy,    \* of the service: "null", "there", or "freed" and still referred to
  work,     \* Op -> how far the service has come with the request
  said      \* Op -> what the client heard of it last

methodVars == <<method, proxy, work, said>>

-----------------------------------------------------------------------------
(* The methods.                                                            *)
(*   life      how long the service has a proxy: from the start, from the   *)
(*             first user on, or while it has a user                        *)
(*   lacking   what the caller gets when there is none, and whether the     *)
(*             arguments are looked at first                                *)
(*   takes     what becomes of a request, by its arguments: "sent", or what  *)
(*             the caller hears                                            *)
(*   early     the caller is answered when the call has been sent, and hears *)
(*             the verdict by a signal                                     *)
(*   progress  what it hears while the file is written                      *)
(*   verdict   what it hears at the end, by the kind of answer: well formed, *)
(*             without the element that is looked for ("crash": the daemon    *)
(*             then ends, which is not modelled), an HTTP error, or an error   *)
(*             of the service's own                                            *)

Arg == {"good", "no file", "wrong id", "half id"}
Answer == {"ok", "partial", "error", "garbage"}

Sent == [a \in Arg |-> "sent"]
Checked == [Sent EXCEPT !["no file"] = "refused"]

\* An upload whose answer nobody reads (on_photo_upload_cb, _upload_photo_cb).
Upload_SilentError ==
  [life |-> "always", lacking |-> "opid", first |-> "proxy", takes |-> Checked,
   early |-> TRUE, progress |-> "going",
   verdict |-> [ok |-> "complete", partial |-> "complete",
                error |-> "nothing", garbage |-> "complete"]]
Upload ==
  [life |-> "always", lacking |-> "opid", first |-> "proxy", takes |-> Checked,
   early |-> TRUE, progress |-> "going",
   verdict |-> [ok |-> "complete", partial |-> "complete",
                error |-> "failed", garbage |-> "complete"]]
FlickrPhoto == [Upload EXCEPT !.life = "once", !.first = "arguments"]
FlickrVideo == FlickrPhoto
SmugmugFile ==
  [Upload EXCEPT !.life = "freed",
     !.takes = [Checked EXCEPT !["wrong id"] = "refused", !["half id"] = "refused"]]
SmugmugPhoto == SmugmugFile
SmugmugVideo == SmugmugFile
PhotobucketFile == [Upload EXCEPT !.takes = [Checked EXCEPT !["wrong id"] = "refused"]]
PhotobucketPhoto == PhotobucketFile
PhotobucketVideo == PhotobucketFile
FacebookPhoto == PhotobucketFile
FacebookVideo == Upload
YoutubeVideo == [Upload EXCEPT !.takes = [Sent EXCEPT !["no file"] = "failed"]]

\* Twitpic's answer is read whenever the callback is called, the first times too early.
TwitpicPhoto ==
  [Upload EXCEPT !.life = "session", !.first = "arguments", !.progress = "failed",
     !.verdict = [ok |-> "complete", partial |-> "crash",
                  error |-> "failed", garbage |-> "failed"]]

\* A status update: the signal is StatusUpdated, TRUE or FALSE.
Status ==
  [life |-> "session", lacking |-> "nothing", first |-> "proxy", takes |-> Sent,
   early |-> TRUE, progress |-> "none",
   verdict |-> [ok |-> "complete", partial |-> "complete",
                error |-> "failed", garbage |-> "complete"]]
TwitterStatus == Status
PlurkStatus == Status
SinaStatus == Status
MySpaceStatus == Status
FacebookStatus == [Status EXCEPT !.life = "always"]

\* A call for collections: the verdict is the caller's answer.
Call ==
  [life |-> "always", lacking |-> "nothing", first |-> "proxy", takes |-> Sent,
   early |-> FALSE, progress |-> "none",
   verdict |-> [ok |-> "complete", partial |-> "complete",
                error |-> "failed", garbage |-> "failed"]]
SmugmugList == [Call EXCEPT !.life = "freed"]
SmugmugCreate ==
  [SmugmugList EXCEPT !.takes = [Sent EXCEPT !["wrong id"] = "refused"],
                      !.verdict.partial = "crash"]
SmugmugDetails == [SmugmugCreate EXCEPT !.takes["half id"] = "nothing"]
PhotobucketList == Call
PhotobucketCreate == [Call EXCEPT !.takes = [Sent EXCEPT !["wrong id"] = "refused"]]
PhotobucketDetails == [PhotobucketCreate EXCEPT !.verdict.partial = "crash"]
FacebookList == [Call EXCEPT !.verdict.partial = "nothing"]
FacebookCreate == PhotobucketCreate
FacebookDetails == FacebookCreate

Method ==
  {FlickrPhoto, FlickrVideo, TwitpicPhoto, SmugmugPhoto, SmugmugVideo,
   PhotobucketPhoto, PhotobucketVideo, FacebookPhoto, FacebookVideo, YoutubeVideo,
   TwitterStatus, PlurkStatus, SinaStatus, MySpaceStatus, FacebookStatus,
   SmugmugList, SmugmugCreate, SmugmugDetails,
   PhotobucketList, PhotobucketCreate, PhotobucketDetails,
   FacebookList, FacebookCreate, FacebookDetails}

-----------------------------------------------------------------------------
(* The service.                                                            *)

\* It learns who its user is.
FindsUser ==
  /\ proxy' = "there"
  /\ UNCHANGED <<method, work, said>>

\* It loses its user, the network or the credentials.  SmugMug gives its proxies
\* up when it has no token any more, but does not forget them.
LosesUser ==
  /\ proxy = "there"
  /\ \/ method.life = "session" /\ proxy' = "null"
     \/ method.life = "freed" /\ proxy' = "freed"
  /\ UNCHANGED <<method, work, said>>

-----------------------------------------------------------------------------
(* A request.  What a method does with a freed proxy depends on what became *)
(* of the memory: here it works, or is not taken for a proxy.               *)

HasProxy == proxy \in {"there", "freed"}
LacksProxy == proxy \in {"null", "freed"}

Hears(o, w, s) ==
  /\ work' = [work EXCEPT ![o] = w]
  /\ said' = [said EXCEPT ![o] = s]
  /\ UNCHANGED <<method, proxy>>

\* The client calls the method, whatever the capabilities are.
Asks(o) == work[o] = "idle" /\ Hears(o, "asked", "nothing")

\* The method finds the arguments wrong; SmugMug forgets to answer.
Rejects(o, a) ==
  /\ work[o] = "asked" /\ method.takes[a] # "sent"
  /\ method.first = "arguments" \/ HasProxy
  /\ IF method.takes[a] = "nothing" THEN Hears(o, "dropped", "nothing")
                                    ELSE Hears(o, "ended", method.takes[a])

\* It has no proxy, and goes on without a call or returns.
Lacks(o, a) ==
  /\ work[o] = "asked" /\ LacksProxy
  /\ method.first = "arguments" => method.takes[a] = "sent"
  /\ Hears(o, "dropped", method.lacking)

Sends(o, a) ==
  /\ work[o] = "asked" /\ HasProxy /\ method.takes[a] = "sent"
  /\ Hears(o, "sent", IF method.early THEN "opid" ELSE "nothing")

\* A part of the file has been written: only while there is more to write.
Progress_OfAnyCall(o) == work[o] = "sent" /\ Hears(o, "sent", method.progress)
Progress(o) ==
  /\ work[o] = "sent" /\ method.progress # "none"
  /\ Hears(o, "sent", method.progress)

\* The call ends.
CallEnds(o, k) ==
  /\ work[o] = "sent" /\ method.verdict[k] # "crash"
  /\ Hears(o, IF method.verdict[k] = "nothing" THEN "dropped" ELSE "ended", method.verdict[k])

MethodsInit ==
  /\ method \in Method
  /\ proxy = IF method.life = "always" THEN "there" ELSE "null"
  /\ work = [o \in Op |-> "idle"]
  /\ said = [o \in Op |-> "nothing"]

Handles(o) == \E a \in Arg : Rejects(o, a) \/ Lacks(o, a) \/ Sends(o, a)
Ends(o) == \E k \in Answer : CallEnds(o, k)

MethodsNext ==
  \/ FindsUser
  \/ LosesUser
  \/ \E o \in Op : Asks(o) \/ Handles(o) \/ Progress(o) \/ Ends(o)

\* The main loop gets to every message, and every HTTP call ends.
MethodsFairness == \A o \in Op : WF_methodVars(Handles(o)) /\ WF_methodVars(Ends(o))

MethodsSpec == MethodsInit /\ [][MethodsNext]_methodVars /\ MethodsFairness

-----------------------------------------------------------------------------
(* Properties                                                              *)

Verdict == {"failed", "complete"}

\* Every variable has its type.
MethodsTypeOK ==
  /\ method \in Method /\ proxy \in {"null", "there", "freed"}
  /\ work \in [Op -> {"idle", "asked", "sent", "ended", "dropped"}]
  /\ said \in [Op -> {"nothing", "refused", "opid", "going"} \cup Verdict]

\* How a request stands in the terms of SwRequests.
StandingOf(o) ==
  IF work[o] = "ended" THEN said[o]
  ELSE IF work[o] # "sent" THEN work[o]
  ELSE IF method.early THEN "accepted" ELSE "asked"

\* A client waits in vain for a service without a proxy, for the details of half a
\* SmugMug collection and for a Facebook list without data.
Contract ==
  INSTANCE SwRequests
    WITH state <- [o \in Op |-> StandingOf(o)],
         silent <- {o \in Op : LacksProxy \/ method \in {SmugmugDetails, FacebookList}}

\* Every request is refused, dropped for one of these reasons, or ends once and for
\* ever with the verdict that its client is told; a call that was sent does end so.
MethodsImplementRequests == Contract!Spec
=============================================================================
