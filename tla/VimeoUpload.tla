----------------------------- MODULE VimeoUpload -----------------------------
(***************************************************************************)
(* Vimeo (services/vimeo/vimeo.c): an upload is a chain of HTTP calls, each  *)
(* made by the callback of the one before.  Vimeo has no albums without      *)
(* videos: a new collection is a placeholder in a table of the service, and  *)
(* the first upload into it creates the album.  Lists and details of         *)
(* collections are put together from the server's albums and that table.     *)
(*                                                                         *)
(* The server carries a call out at some moment before it is answered, or    *)
(* does and the answer is lost.                                            *)
(***************************************************************************)
EXTENDS Naturals, FiniteSets

CONSTANTS
  Video, Query,        \* uploads, and requests for a list or for details (bounds)
  Placeholder, Album,  \* ids of placeholders and of albums (bounds)
  Old,                 \* the albums that there are from the start
  Wishes,              \* what the uploads may be asked for with (bound)
  Asks,                \* what the requests may be about (bound)
  None

Wish ==
  [sets : SUBSET {"title", "description"}, into : {None} \cup Album \cup Placeholder]

\* The id of an album that an answer should have contained, and did not.
NullId == "(null)"

\* An id names one thing: placeholders are numbered under a name of their own.
ASSUME IdAssumption ==
  /\ Video \cap Query = {} /\ Album \cap Placeholder = {}
  /\ {None, NullId, "list", "unknown", "other"} \cap (Album \cup Placeholder) = {}
  /\ None \notin {NullId, "list", "unknown", "other"}
ASSUME VimeoAssumption ==
  /\ Old \subseteq Album /\ Wishes \subseteq [Video -> Wish]
  /\ Asks \subseteq {"list"} \cup Album \cup Placeholder

VARIABLES
  wants,   \* Video -> the fields and the collection that come with the upload
  stage,   \* Op -> the call that is under way, or how the request ended
  names,   \* Op -> the album that the call is about (ctx->album_id), or "list"
  real,    \* Placeholder -> real_id, or "unknown": not in album_placeholders
  bound,   \* simple_proxy has been bound to a user
  acted,   \* the calls that the server has carried out
  has,     \* Video -> what the server did to it
  lies,    \* Video -> the album it was put in
  of,      \* Album -> for what it was made: a placeholder, or by other means
  seen,    \* Query -> the albums that the server answers with
  answer   \* Query -> the collections its caller was told

Op == Video \cup Query
server == <<has, lies, of, seen>>
vars == <<wants, stage, names, real, bound, acted, server, answer>>

Tagging == {"complete", "title", "description"}
Under == Tagging \cup {"quota", "ticket", "file", "verify", "add", "create", "listing"}

-----------------------------------------------------------------------------
(* The server.  An answer that the service takes for a success comes from a    *)
(* server that did what it was asked.                                      *)

Carries(o) == stage[o] \in Under /\ o \notin acted /\ acted' = acted \cup {o}

Tags(v) ==
  /\ Carries(v) /\ stage[v] \in Tagging
  /\ has' = [has EXCEPT ![v] = @ \cup {stage[v]}]
  /\ UNCHANGED <<wants, stage, names, real, bound, lies, of, seen, answer>>

Puts(v) ==
  /\ Carries(v) /\ stage[v] = "add" /\ names[v] \in Album /\ of[names[v]] # None
  /\ lies' = [lies EXCEPT ![v] = names[v]]
  /\ UNCHANGED <<wants, stage, names, real, bound, has, of, seen, answer>>

Creates(v) ==
  /\ Carries(v) /\ stage[v] = "create"
  /\ \E a \in Album :
       /\ of[a] = None /\ of' = [of EXCEPT ![a] = wants[v].into]
       /\ lies' = [lies EXCEPT ![v] = a]
  /\ UNCHANGED <<wants, stage, names, real, bound, has, seen, answer>>

Lists(q) ==
  /\ Carries(q) /\ stage[q] = "listing"
  /\ seen' = [seen EXCEPT ![q] = {a \in Album : of[a] # None}]
  /\ UNCHANGED <<wants, stage, names, real, bound, has, lies, of, answer>>

-----------------------------------------------------------------------------
(* The chain.                                                              *)

\* The request o goes on with the call s about the album i, or is over.
Calls(o, s, i) ==
  /\ stage' = [stage EXCEPT ![o] = s]
  /\ names' = [names EXCEPT ![o] = i]
  /\ acted' = acted \ {o}

Ends(o, s) == Calls(o, s, names[o])

\* A placeholder stands for its album; any other id, one the service has never
\* given out included, is taken for an album's.
RealId(i) == IF i \in Placeholder /\ real[i] # "unknown" THEN real[i] ELSE i

Ask(o) ==
  /\ stage[o] = "idle" /\ Ends(o, "asked")
  /\ UNCHANGED <<wants, real, bound, server, answer>>

\* There is a file or not; the caller gets its operation number.
UploadVideo(v) ==
  /\ stage[v] = "asked" /\ (Ends(v, "refused") \/ Ends(v, "quota"))
  /\ UNCHANGED <<wants, real, bound, server, answer>>

Passes(v, from, to) ==
  /\ stage[v] = from /\ Ends(v, to)
  /\ UNCHANGED <<wants, real, bound, server, answer>>
GotQuota(v) == Passes(v, "quota", "ticket")
GotTicket(v) == Passes(v, "ticket", "file")
FileSent(v) == Passes(v, "file", "verify")
Verified(v) == Passes(v, "verify", "complete")

\* The answer to the call s has come, and there may be an album to put the video in.
AddVideoToAlbum_Unresolved(v) ==
  LET into == wants[v].into IN
  IF into = None THEN Ends(v, "done")
  ELSE Calls(v, "add", IF into \in Placeholder THEN real[into] ELSE into)
AddVideoToAlbum(v) ==
  LET into == wants[v].into IN
  IF into = None THEN Ends(v, "done")
  ELSE IF RealId(into) = None THEN Calls(v, "create", None)
  ELSE Calls(v, "add", RealId(into))

SetsDescription_Last(v) ==
  IF "description" \in wants[v].sets THEN Ends(v, "done") ELSE AddVideoToAlbum(v)
SetsDescription(v) ==
  IF "description" \in wants[v].sets THEN Ends(v, "description") ELSE AddVideoToAlbum(v)

UploadComplete(v) ==
  /\ stage[v] = "complete" /\ v \in acted
  /\ IF "title" \in wants[v].sets THEN Ends(v, "title") ELSE SetsDescription(v)
  /\ UNCHANGED <<wants, real, bound, server, answer>>

TitleSet(v) ==
  /\ stage[v] = "title" /\ v \in acted /\ SetsDescription(v)
  /\ UNCHANGED <<wants, real, bound, server, answer>>

DescriptionSet(v) ==
  /\ stage[v] = "description" /\ v \in acted /\ AddVideoToAlbum(v)
  /\ UNCHANGED <<wants, real, bound, server, answer>>

AddedToAlbum(v) ==
  /\ stage[v] = "add" /\ v \in acted /\ Ends(v, "done")
  /\ UNCHANGED <<wants, real, bound, server, answer>>

\* The placeholder is given the id in the answer, whether it has one or not.
AlbumCreated_Forgets(v) ==
  /\ stage[v] = "create" /\ v \in acted /\ Ends(v, "done")
  /\ UNCHANGED <<wants, real, bound, server, answer>>
AlbumCreated(v) ==
  /\ stage[v] = "create" /\ v \in acted /\ Ends(v, "done")
  /\ \E i \in {lies[v], NullId} : real' = [real EXCEPT ![wants[v].into] = i]
  /\ UNCHANGED <<wants, bound, server, answer>>

\* UPLOAD_ERROR, or an error for the caller: the call failed, was refused or was
\* answered with something else.
Fails_InSilence(o) ==
  /\ stage[o] \in Under /\ Ends(o, IF stage[o] = "file" THEN "dropped" ELSE "failed")
  /\ UNCHANGED <<wants, real, bound, server, answer>>
Fails(o) ==
  /\ stage[o] \in Under /\ Ends(o, "failed")
  /\ UNCHANGED <<wants, real, bound, server, answer>>

-----------------------------------------------------------------------------
(* Collections.                                                            *)

CollectionsCreate(p) ==
  /\ real[p] = "unknown" /\ real' = [real EXCEPT ![p] = None]
  /\ UNCHANGED <<wants, stage, names, bound, acted, server, answer>>

\* The list of albums is asked for; a proxy that is not bound sends nothing.
AsksAlbums(q, i) ==
  /\ Calls(q, IF bound THEN "listing" ELSE "dropped", i)
  /\ UNCHANGED answer

CollectionsGetList(q) ==
  /\ stage[q] = "asked" /\ names[q] = "list" /\ AsksAlbums(q, "list")
  /\ UNCHANGED <<wants, real, bound, server>>

\* A placeholder without an album is answered with itself.
CollectionsGetDetails(q) ==
  /\ stage[q] = "asked" /\ names[q] # "list"
  /\ \/ RealId(names[q]) # None /\ AsksAlbums(q, RealId(names[q]))
     \/ /\ RealId(names[q]) = None /\ Ends(q, "done")
        /\ answer' = [answer EXCEPT ![q] = {names[q]}]
  /\ UNCHANGED <<wants, real, bound, server>>

GotList_AllPlaceholders(q) ==
  /\ stage[q] = "listing" /\ names[q] = "list" /\ q \in acted /\ Ends(q, "done")
  /\ answer' = [answer EXCEPT ![q] = seen[q] \cup {p \in Placeholder : real[p] # "unknown"}]
  /\ UNCHANGED <<wants, real, bound, server>>
GotList(q) ==
  /\ stage[q] = "listing" /\ names[q] = "list" /\ q \in acted /\ Ends(q, "done")
  /\ answer' = [answer EXCEPT ![q] = seen[q] \cup {p \in Placeholder : real[p] = None}]
  /\ UNCHANGED <<wants, real, bound, server>>

GotDetails(q) ==
  /\ stage[q] = "listing" /\ names[q] # "list" /\ q \in acted
  /\ \/ names[q] \in seen[q] /\ Ends(q, "done") /\ answer' = [answer EXCEPT ![q] = {names[q]}]
     \/ names[q] \notin seen[q] /\ Ends(q, "failed") /\ UNCHANGED answer
  /\ UNCHANGED <<wants, real, bound, server>>

\* The user was checked for the first time.
CheckedAccessToken ==
  /\ ~bound /\ bound' = TRUE
  /\ UNCHANGED <<wants, stage, names, real, acted, server, answer>>

-----------------------------------------------------------------------------
Init ==
  /\ wants \in Wishes
  /\ stage = [o \in Op |-> "idle"]
  /\ \E ask \in [Query -> Asks] :
       names = [o \in Op |-> IF o \in Query THEN ask[o] ELSE None]
  /\ real = [p \in Placeholder |-> "unknown"]
  /\ bound = FALSE /\ acted = {}
  /\ has = [v \in Video |-> {}] /\ lies = [v \in Video |-> None]
  /\ of = [a \in Album |-> IF a \in Old THEN "other" ELSE None]
  /\ seen = [q \in Query |-> {}] /\ answer = [q \in Query |-> {}]

Handles(v) == UploadVideo(v)
Answered(v) ==
  \/ GotQuota(v) \/ GotTicket(v) \/ FileSent(v) \/ Verified(v)
  \/ UploadComplete(v) \/ TitleSet(v) \/ DescriptionSet(v)
  \/ AddedToAlbum(v) \/ AlbumCreated(v) \/ Fails(v)
Looks(q) == CollectionsGetList(q) \/ CollectionsGetDetails(q)
Found(q) == GotList(q) \/ GotDetails(q) \/ Fails(q)

Next ==
  \/ CheckedAccessToken
  \/ \E p \in Placeholder : CollectionsCreate(p)
  \/ \E o \in Op : Ask(o)
  \/ \E v \in Video : Tags(v) \/ Puts(v) \/ Creates(v) \/ Handles(v) \/ Answered(v)
  \/ \E q \in Query : Lists(q) \/ Looks(q) \/ Found(q)

\* The main loop gets to every message, and every HTTP call ends.
Fairness ==
  /\ \A v \in Video : WF_vars(Handles(v)) /\ WF_vars(Answered(v))
  /\ \A q \in Query : WF_vars(Looks(q)) /\ WF_vars(Found(q))

Spec == Init /\ [][Next]_vars /\ Fairness

-----------------------------------------------------------------------------
(* Properties                                                              *)

\* Every variable has its type, and a call for an album has an id to name.
TypeOK ==
  /\ wants \in Wishes
  /\ stage \in [Op -> Under \cup {"idle", "asked", "refused", "dropped", "failed", "done"}]
  /\ names \in [Op -> {None, NullId, "list"} \cup Album \cup Placeholder]
  /\ \A v \in Video : stage[v] = "add" => names[v] # None
  /\ real \in [Placeholder -> {"unknown", None, NullId} \cup Album]
  /\ bound \in BOOLEAN /\ acted \subseteq {o \in Op : stage[o] \in Under}
  /\ has \in [Video -> SUBSET Tagging] /\ lies \in [Video -> {None} \cup Album]
  /\ of \in [Album -> {None, "other"} \cup Placeholder]
  /\ seen \in [Query -> SUBSET Album] /\ answer \in [Query -> SUBSET (Album \cup Placeholder)]

\* 100 is the truth: Vimeo has the video, with the title and the description that
\* were asked for, in the collection or an album that was made for it.
VerdictIsTrue ==
  \A v \in Video : stage[v] = "done" =>
    /\ {"complete"} \cup wants[v].sets \subseteq has[v]
    /\ wants[v].into # None =>
         lies[v] # None /\ (wants[v].into \in {lies[v], of[lies[v]]})

\* A second album is made for one collection only while, or after, the answer to the
\* first attempt was outstanding or lost.
SecondAlbumIsExplained ==
  [][\A v \in Video :
       stage[v] # "create" /\ stage'[v] = "create"
         /\ (\E a \in Album : of[a] = wants[v].into)
       => \E u \in Video \ {v} :
            wants[u].into = wants[v].into /\ stage[u] \in {"create", "failed"}]_vars

\* A list lacks a new collection only if its album was made after the server had
\* looked, and has it twice only if the answer to its making is outstanding or lost.
ListIsExplained ==
  [][\A q \in Query, p \in Placeholder :
       stage[q] = "listing" /\ stage'[q] = "done" /\ names[q] = "list" /\ real[p] # "unknown"
       => LET albums == {a \in Album : of[a] = p}
          IN /\ answer'[q] \cap (albums \cup {p}) = {} => albums \ seen[q] # {}
             /\ p \in answer'[q] /\ answer'[q] \cap albums # {} =>
                  \E v \in Video : wants[v].into = p /\ stage[v] \in {"create", "failed"}]_vars

Standing(o) ==
  IF stage[o] = "done" THEN "complete"
  ELSE IF stage[o] = "listing" THEN "asked"
  ELSE IF stage[o] \in Under THEN "accepted"
  ELSE stage[o]

\* A list is not answered when the proxy has not been bound.
Requests ==
  INSTANCE SwRequests
    WITH state <- [o \in Op |-> Standing(o)], silent <- IF bound THEN {} ELSE Query

\* Every request is refused, dropped for want of a proxy, or ends once and for
\* ever; the chain of an upload that was accepted always ends with a verdict.
ImplementsRequests == Requests!Spec
=============================================================================
