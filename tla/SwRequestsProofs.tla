--------------------------- MODULE SwRequestsProofs ---------------------------
(***************************************************************************)
(* Theorems about two of those that implement SwRequests: the GOA manager of *)
(* Flickr (FlickrCredentialsGoa), for any accounts, loads and checks, and the *)
(* methods of one HTTP call (ServiceRequests), for any number of requests.    *)
(***************************************************************************)
EXTENDS FlickrCredentialsGoa, ServiceRequests, TLAPS

-----------------------------------------------------------------------------
(* The GOA manager: the inductive invariant.                               *)

\* Only a load waits for the objects or the token of GOA, and only a check for the
\* answer of EnsureCredentials.
WaitsFit ==
  \A r \in Request :
    /\ step[r] \in {"objects", "listed", "token"} => r \in Load
    /\ step[r] = "ensure" => r \in Check

\* As long as loads have not overlapped, one at most is under way.
OneLoad == ~crowded => \A r, s \in Loading : r = s

\* Then the fields are filled from one account and in the order in which the load
\* asks for them.
FieldsInOrder ==
  ~crowded =>
    /\ consumer \in {None, object_path}
    /\ token \in {None, consumer}
    /\ \A r \in Load :
         /\ step[r] \in {"objects", "listed"} => object_path = None
         /\ step[r] = "token" => token = None /\ consumer = about[r] /\ object_path = about[r]

\* While a check that was not overtaken waits, no load is under way: it would have
\* emptied a field that the check needed.
CheckIsAlone ==
  \A c \in Check :
    step[c] = "ensure" /\ ~crowded /\ c \notin overtaken =>
      /\ Loading = {}
      /\ object_path = about[c] /\ consumer = about[c] /\ token = about[c]

\* A load that will not find an account has looked while there was none: GOA's answer
\* has none, or GOA has none to answer with.
SearchFits ==
  \A r \in Request :
    \/ step[r] = "objects" /\ account = None
    \/ step[r] = "listed" /\ about[r] = None
    => r \in without

IInv == TypeOK /\ WaitsFit /\ OneLoad /\ FieldsInOrder /\ CheckIsAlone /\ SearchFits

LEMMA InitIInv == Init => IInv
BY GoaAssumption DEF Init, IInv, TypeOK, WaitsFit, OneLoad, FieldsInOrder, CheckIsAlone,
   SearchFits, Loading, Waits, Request

-----------------------------------------------------------------------------
(* Each step keeps it.                                                     *)

LEMMA AskKeeps == ASSUME IInv, NEW r \in Request, Ask(r) PROVE IInv'
<1> USE DEF Ask, Tells, Goes, IInv, fields, history
<1>1. TypeOK'
  BY DEF TypeOK, Waits
<1>2. Loading' = Loading
  BY DEF TypeOK, Loading, Waits, Request
<1>3. WaitsFit' /\ OneLoad' /\ FieldsInOrder' /\ CheckIsAlone' /\ SearchFits'
  BY <1>2 DEF TypeOK, WaitsFit, OneLoad, FieldsInOrder, CheckIsAlone, SearchFits, Request
<1> QED
  BY <1>1, <1>3

LEMMA StartLoadKeeps == ASSUME IInv, NEW r \in Load, StartLoad(r) PROVE IInv'
<1> USE DEF StartLoad, Clear, Tells, Goes, IInv
<1>0. r \in Request /\ r \notin Check
  BY GoaAssumption DEF Request
<1>1. TypeOK'
  BY <1>0 DEF TypeOK, Waits
<1>2. Loading' \subseteq Loading \cup {r}
  BY <1>0 DEF TypeOK, Loading, Waits, Request
<1>3. WaitsFit'
  BY <1>0 DEF TypeOK, WaitsFit
<1>4. ~crowded' => Loading = {}
  OBVIOUS
<1>5. OneLoad'
  BY <1>2, <1>4 DEF OneLoad
<1>6. \A q \in Load : ~crowded' => step'[q] # "token"
  BY <1>0, <1>4 DEF TypeOK, Loading, Waits, Request
<1>7. FieldsInOrder'
  BY <1>6 DEF FieldsInOrder
<1>8. \A c \in Check : step'[c] = "ensure" => c \in overtaken'
  BY <1>0 DEF TypeOK, Request
<1>9. SearchFits'
  BY <1>0 DEF TypeOK, SearchFits
<1> QED
  BY <1>1, <1>3, <1>5, <1>7, <1>8, <1>9 DEF CheckIsAlone

LEMMA ListsKeep == ASSUME IInv, NEW r \in Request, GoaLists(r) PROVE IInv'
<1> USE DEF GoaLists, Goes, IInv, fields, history
<1>0. r \in Load /\ r \notin Check
  BY GoaAssumption DEF WaitsFit
<1>1. TypeOK'
  BY <1>0 DEF TypeOK, Waits
<1>2. Loading' = Loading
  BY DEF TypeOK, Loading, Waits, Request
<1>3. WaitsFit' /\ OneLoad' /\ FieldsInOrder'
  BY <1>0, <1>2 DEF TypeOK, WaitsFit, OneLoad, FieldsInOrder, Request
<1>4. CheckIsAlone'
  BY <1>0, <1>2 DEF TypeOK, CheckIsAlone, Request
<1>5. SearchFits'
  BY <1>0 DEF TypeOK, SearchFits
<1> QED
  BY <1>1, <1>3, <1>4, <1>5

LEMMA ObjectsKeep == ASSUME IInv, NEW r \in Request, OnManagedObjects(r) PROVE IInv'
<1> USE DEF OnManagedObjects, GetAccessData, Tells, Goes, IInv, history
<1>0. r \in Load /\ r \notin Check /\ r \in Loading
  BY GoaAssumption DEF WaitsFit, Loading, Waits
<1>1. TypeOK'
  BY <1>0 DEF TypeOK, Waits
<1>2. Loading' \subseteq Loading
  BY <1>0 DEF TypeOK, Loading, Waits, Request
<1>3. WaitsFit'
  BY <1>0 DEF TypeOK, WaitsFit
<1>4. OneLoad'
  BY <1>2 DEF OneLoad
<1>5. ASSUME ~crowded PROVE \A q \in Load : q # r => step'[q] \notin Waits
  BY <1>0, <1>5 DEF TypeOK, OneLoad, Loading, Request
<1>6. ASSUME ~crowded PROVE object_path = None /\ consumer = None /\ token = None
  BY <1>0, <1>6 DEF FieldsInOrder
<1>7. FieldsInOrder'
  BY <1>0, <1>5, <1>6 DEF FieldsInOrder, TypeOK, Waits, Request
<1>8. CheckIsAlone'
  <2>1. \A c \in Check : step'[c] = step[c]
    BY <1>0 DEF TypeOK, Request
  <2> QED
    BY <1>0, <2>1 DEF CheckIsAlone
<1>9. SearchFits'
  BY <1>0 DEF TypeOK, SearchFits
<1> QED
  BY <1>1, <1>3, <1>4, <1>7, <1>8, <1>9

LEMMA TokenKeeps == ASSUME IInv, NEW r \in Request, OnAccessToken(r) PROVE IInv'
<1> USE DEF OnAccessToken, Tells, Goes, IInv, history
<1>0. r \in Load /\ r \notin Check /\ r \in Loading
  BY GoaAssumption DEF WaitsFit, Loading, Waits
<1>1. TypeOK'
  BY <1>0 DEF TypeOK, Waits, Request
<1>2. Loading' \subseteq Loading
  BY <1>0 DEF TypeOK, Loading, Waits, Request
<1>3. WaitsFit'
  BY <1>0 DEF TypeOK, WaitsFit
<1>4. OneLoad'
  BY <1>2 DEF OneLoad
<1>5. ASSUME ~crowded PROVE \A q \in Load : step'[q] \notin {"objects", "listed", "token"}
  BY <1>0, <1>5 DEF TypeOK, OneLoad, Loading, Waits, Request
<1>6. FieldsInOrder'
  BY <1>0, <1>5 DEF FieldsInOrder
<1>7. CheckIsAlone'
  <2>1. \A c \in Check : step'[c] = step[c]
    BY <1>0 DEF TypeOK, Request
  <2> QED
    BY <1>0, <2>1 DEF CheckIsAlone
<1>8. SearchFits'
  BY <1>0 DEF TypeOK, SearchFits
<1> QED
  BY <1>1, <1>3, <1>4, <1>6, <1>7, <1>8

LEMMA StartCheckKeeps == ASSUME IInv, NEW r \in Check, StartCheck(r) PROVE IInv'
<1> USE DEF StartCheck, Tells, Goes, IInv, fields, history
<1>0. r \in Request /\ r \notin Load
  BY GoaAssumption DEF Request
<1>1. TypeOK'
  BY <1>0 DEF TypeOK, Waits
<1>2. Loading' = Loading /\ \A q \in Load : step'[q] = step[q] /\ about'[q] = about[q]
  BY <1>0 DEF TypeOK, Loading, Waits, Request
<1>3. WaitsFit' /\ OneLoad' /\ FieldsInOrder'
  BY <1>0, <1>2 DEF TypeOK, WaitsFit, OneLoad, FieldsInOrder
<1>4. CheckIsAlone'
  <2> SUFFICES ASSUME NEW c \in Check, step'[c] = "ensure", ~crowded, c \notin overtaken
               PROVE  /\ Loading = {} /\ object_path = about'[c]
                      /\ consumer = about'[c] /\ token = about'[c]
    BY <1>2 DEF CheckIsAlone
  <2>1. CASE c = r
    <3>1. None \notin {object_path, consumer, token} /\ about'[r] = object_path
      BY <1>0, <2>1 DEF TypeOK
    <3>2. consumer = object_path /\ token = object_path
      BY <3>1 DEF FieldsInOrder
    <3>3. \A q \in Load : step[q] \notin {"objects", "listed", "token"}
      BY <3>1 DEF FieldsInOrder
    <3>4. Loading = {}
      BY <3>3, GoaAssumption DEF Loading, WaitsFit, Waits, Request
    <3> QED
      BY <2>1, <3>1, <3>2, <3>4
  <2>2. CASE c # r
    BY <1>0, <2>2 DEF TypeOK, CheckIsAlone, Request
  <2> QED
    BY <2>1, <2>2
<1>5. SearchFits'
  BY <1>0 DEF TypeOK, SearchFits
<1> QED
  BY <1>1, <1>3, <1>4, <1>5

LEMMA EnsureKeeps == ASSUME IInv, NEW r \in Request, OnEnsureCredentials(r) PROVE IInv'
<1> USE DEF OnEnsureCredentials, Tells, Goes, IInv, fields, history
<1>0. r \in Check /\ r \notin Load
  BY GoaAssumption DEF WaitsFit
<1>1. TypeOK'
  BY <1>0 DEF TypeOK, Waits
<1>2. Loading' = Loading /\ \A q \in Load : step'[q] = step[q]
  BY <1>0 DEF TypeOK, Loading, Waits, Request
<1>3. WaitsFit' /\ OneLoad' /\ FieldsInOrder' /\ CheckIsAlone' /\ SearchFits'
  BY <1>0, <1>2 DEF TypeOK, WaitsFit, OneLoad, FieldsInOrder, CheckIsAlone, SearchFits,
                      Request
<1> QED
  BY <1>1, <1>3

LEMMA NextIInv == IInv /\ [Next]_vars => IInv'
<1> SUFFICES ASSUME IInv, [Next]_vars PROVE IInv'
  OBVIOUS
<1>1. ASSUME NEW a \in Account \cup {None}, AccountChanges(a) PROVE IInv'
  BY <1>1 DEF AccountChanges, fields, IInv, TypeOK, WaitsFit, OneLoad, FieldsInOrder,
              CheckIsAlone, SearchFits, Loading, Listing
<1>2. CASE UNCHANGED vars
  BY <1>2 DEF vars, fields, history, IInv, TypeOK, WaitsFit, OneLoad, FieldsInOrder,
              CheckIsAlone, SearchFits, Loading
<1>3. ASSUME NEW r \in Request, Starts(r) PROVE IInv'
  BY <1>3, StartLoadKeeps, StartCheckKeeps DEF Starts, Request
<1>4. ASSUME NEW r \in Request, Answered(r) PROVE IInv'
  BY <1>4, ObjectsKeep, TokenKeeps, EnsureKeeps DEF Answered
<1> QED
  BY <1>1, <1>2, <1>3, <1>4, AskKeeps, ListsKeep DEF Next

LEMMA IInvHolds == Spec => []IInv
BY InitIInv, NextIInv, PTL DEF Spec

-----------------------------------------------------------------------------
(* What follows from it.                                                   *)

\* Every variable keeps its type.
THEOREM TypeCorrect == Spec => []TypeOK
<1>1. IInv => TypeOK
  BY DEF IInv
<1> QED
  BY IInvHolds, <1>1, PTL

\* on_ensure_credentials: a yes speaks for the account whose keys and token the
\* manager holds, unless loads overlapped or one began meanwhile.
THEOREM YesIsAboutWhatIsHeld == Spec => CheckedIsWhole
<1> DEFINE Whole ==
      \A c \in Check :
        step[c] = "ensure" /\ step'[c] = "yes" /\ ~crowded /\ c \notin overtaken
          => \A a \in {object_path, consumer, token} : a = about[c]
<1>1. IInv => Whole
  BY DEF IInv, CheckIsAlone
<1>2. IInv /\ [Next]_vars => [Whole]_vars
  BY <1>1
<1> QED
  BY <1>2, IInvHolds, PTL DEF Spec, CheckedIsWhole

-----------------------------------------------------------------------------
(* Whoever loads or checks sees a SwRequests.                              *)

standing == [r \in Request |-> Standing(r)]

\* A step of r that takes its standing from one of SwRequests to the next.
LEMMA OneStandingMoves ==
  ASSUME TypeOK, NEW r \in Request, NEW s, Goes(r, s)
  PROVE  /\ \A q \in Request : q # r => Standing(q)' = Standing(q)
         /\ standing' = [standing EXCEPT ![r] = Standing(r)']
         /\ step'[r] = s
BY DEF TypeOK, Goes, Standing, standing

LEMMA AskMaps == ASSUME IInv, NEW r \in Request, Ask(r) PROVE Requests!Ask(r)
<1>1. Goes(r, "asked") /\ Standing(r) = "idle" /\ TypeOK
  BY DEF Ask, Tells, Standing, Waits, IInv
<1>2. Standing(r)' = "asked"
  BY <1>1, OneStandingMoves DEF Standing, Waits
<1> QED
  BY <1>1, <1>2, OneStandingMoves DEF Requests!Ask, Requests!Goes, standing

\* find_account, or its refusal.
LEMMA StartLoadMaps ==
  ASSUME IInv, NEW r \in Load, StartLoad(r) PROVE Requests!Handle(r) \/ UNCHANGED standing
<1>0. r \in Request /\ Standing(r) = "asked" /\ TypeOK
  BY DEF StartLoad, Standing, Waits, Request, IInv
<1>1. CASE Goes(r, "objects")
  <2>1. Standing(r)' = "asked"
    BY <1>0, <1>1, OneStandingMoves DEF Standing, Waits
  <2> QED
    BY <1>0, <1>1, <2>1, OneStandingMoves DEF standing
<1>2. CASE Goes(r, "no")
  <2>1. Standing(r)' = "failed"
    BY <1>0, <1>2, OneStandingMoves DEF Standing, Waits
  <2> QED
    BY <1>0, <1>2, <2>1, OneStandingMoves
    DEF Requests!Handle, Requests!Goes, Requests!Verdict, standing
<1> QED
  BY <1>1, <1>2 DEF StartLoad, Tells

\* on_managed_objects drops a load only if GOA had listed no account, whatever it has now.
LEMMA ObjectsMap ==
  ASSUME IInv, NEW r \in Request, OnManagedObjects(r) PROVE Requests!Handle(r)
<1>0. r \in Load /\ Standing(r) = "asked" /\ TypeOK
  BY DEF OnManagedObjects, Standing, Waits, IInv, WaitsFit
<1>1. CASE Goes(r, "no")
  <2>1. Standing(r)' = "failed"
    BY <1>0, <1>1, OneStandingMoves DEF Standing, Waits
  <2> QED
    BY <1>0, <1>1, <2>1, OneStandingMoves
    DEF Requests!Handle, Requests!Goes, Requests!Verdict, standing
<1>2. CASE about[r] = None /\ step[r] = "listed" /\ Goes(r, "dropped")
  <2>1. Standing(r)' = "dropped" /\ r \in without
    BY <1>0, <1>2, OneStandingMoves DEF Standing, Waits, IInv, SearchFits, Request
  <2> QED
    BY <1>0, <1>2, <2>1, OneStandingMoves DEF Requests!Handle, Requests!Goes, standing
<1>3. CASE Goes(r, "token")
  <2>1. Standing(r)' = "accepted"
    BY <1>0, <1>3, OneStandingMoves DEF Standing, Waits
  <2> QED
    BY <1>0, <1>3, <2>1, OneStandingMoves
    DEF Requests!Handle, Requests!Goes, Requests!Verdict, standing
<1> QED
  BY <1>1, <1>2, <1>3 DEF OnManagedObjects, GetAccessData, Tells

\* GOA's answer on its way is no step of the load.
LEMMA ListsMap == ASSUME IInv, NEW r \in Request, GoaLists(r) PROVE UNCHANGED standing
<1>1. Standing(r) = "asked" /\ TypeOK /\ Goes(r, "listed")
  BY DEF GoaLists, Standing, Waits, IInv
<1>2. Standing(r)' = "asked"
  BY <1>1, OneStandingMoves DEF Standing, Waits
<1> QED
  BY <1>1, <1>2, OneStandingMoves DEF standing

LEMMA StartCheckMaps ==
  ASSUME IInv, NEW r \in Check, StartCheck(r) PROVE Requests!Handle(r)
<1>0. r \in Request /\ Standing(r) = "asked" /\ TypeOK
  BY DEF StartCheck, Standing, Waits, Request, IInv
<1>1. \E s \in {"no", "ensure"} : Goes(r, s)
  BY DEF StartCheck, Tells
<1>2. Standing(r)' \in {"failed", "accepted"}
  BY <1>0, <1>1, OneStandingMoves DEF Standing, Waits
<1> QED
  BY <1>0, <1>1, <1>2, OneStandingMoves
  DEF Requests!Handle, Requests!Goes, Requests!Verdict, standing

\* on_get_access_token_cb and on_ensure_credentials give the verdict.
LEMMA VerdictMaps ==
  ASSUME IInv, NEW r \in Request, OnAccessToken(r) \/ OnEnsureCredentials(r)
  PROVE  Requests!Conclude(r)
<1>0. Standing(r) = "accepted" /\ TypeOK
  BY DEF OnAccessToken, OnEnsureCredentials, Standing, Waits, IInv
<1>1. \E s \in {"no", "yes"} : Goes(r, s)
  BY DEF OnAccessToken, OnEnsureCredentials, Tells
<1>2. Standing(r)' \in Requests!Verdict
  BY <1>0, <1>1, OneStandingMoves DEF Standing, Waits, Requests!Verdict
<1> QED
  BY <1>0, <1>1, <1>2, OneStandingMoves DEF Requests!Conclude, Requests!Goes, standing

\* Every step is a step of SwRequests or none: whoever loads or checks is told
\* one outcome, once and for ever, and only a load is dropped, one that looked for an
\* account while there was none (the safety part of ImplementsRequests).
THEOREM OutcomeIsToldOnce == Spec => Requests!Safety
<1>1. Init => Requests!Init
  BY DEF Init, Requests!Init, Standing, Waits
<1>2. IInv /\ [Next]_vars => [Requests!Next]_standing
  <2> SUFFICES ASSUME IInv, [Next]_vars PROVE [Requests!Next]_standing
    OBVIOUS
  <2>1. ASSUME NEW a \in Account \cup {None}, AccountChanges(a) PROVE UNCHANGED standing
    BY <2>1 DEF AccountChanges, standing, Standing
  <2>2. CASE UNCHANGED vars
    BY <2>2 DEF vars, standing, Standing
  <2>3. ASSUME NEW r \in Request, Starts(r) PROVE Requests!Handle(r) \/ UNCHANGED standing
    BY <2>3, StartLoadMaps, StartCheckMaps DEF Starts, Request
  <2>4. ASSUME NEW r \in Request, Answered(r)
        PROVE Requests!Handle(r) \/ Requests!Conclude(r)
    BY <2>4, ObjectsMap, VerdictMaps DEF Answered
  <2> QED
    BY <2>1, <2>2, <2>3, <2>4, AskMaps, ListsMap DEF Next, Requests!Next
<1> QED
  BY <1>1, <1>2, IInvHolds, PTL DEF Spec, Requests!Safety, standing

-----------------------------------------------------------------------------
(* The methods of one call: ServiceRequests.                               *)

\* What the proofs ask of a method: it answers whatever the arguments are and whatever
\* comes back, or it is one of the two that forget to.
Shape ==
  [life : {"always", "once", "session", "freed"}, lacking : {"opid", "nothing"},
   first : {"proxy", "arguments"}, early : BOOLEAN, progress : {"none", "going", "failed"},
   takes : [Arg -> {"sent", "refused", "failed", "nothing"}],
   verdict : [Answer -> {"complete", "failed", "nothing", "crash"}]]
Heeds == [Arg -> {"sent", "refused", "failed"}]

Answering(m) ==
  m \in Shape /\ m.takes \in Heeds /\ \A k \in Answer : m.verdict[k] # "nothing"
Sound(m) ==
  \/ Answering(m)
  \/ /\ m = SmugmugDetails /\ m \in Shape
     /\ \A k \in Answer : m.verdict[k] # "nothing"
  \/ m = FacebookList /\ m \in Shape /\ m.takes \in Heeds /\ ~m.early

\* A method that differs from one that answers in these fields answers too.
LEMMA Varied ==
  ASSUME NEW m, Answering(m), NEW t \in Heeds, NEW l \in {"always", "once", "session", "freed"}
  PROVE  /\ Answering([m EXCEPT !.takes = t])
         /\ Answering([m EXCEPT !.life = l])
         /\ Answering([m EXCEPT !.life = l, !.takes = t])
         /\ Answering([m EXCEPT !.life = l, !.first = "arguments"])
         /\ Answering([m EXCEPT !.verdict.partial = "crash"])
<1> USE DEF Answering, Shape, Heeds, Arg, Answer
<1>0. t \in [Arg -> {"sent", "refused", "failed", "nothing"}]
  OBVIOUS
<1>1. Answering([m EXCEPT !.takes = t])
  BY <1>0
<1>2. Answering([m EXCEPT !.life = l])
  OBVIOUS
<1>3. Answering([m EXCEPT !.life = l, !.takes = t])
  BY <1>0
<1>4. Answering([m EXCEPT !.life = l, !.first = "arguments"])
  OBVIOUS
<1>5. Answering([m EXCEPT !.verdict.partial = "crash"])
  OBVIOUS
<1> QED
  BY <1>1, <1>2, <1>3, <1>4, <1>5

LEMMA Heeded ==
  /\ Sent \in Heeds /\ Checked \in Heeds
  /\ \A t \in Heeds, a \in Arg, s \in {"refused", "failed"} :
       [t EXCEPT ![a] = s] \in Heeds
BY DEF Sent, Checked, Heeds, Arg

LEMMA UploadsAnswer ==
  \A m \in {FlickrPhoto, FlickrVideo, TwitpicPhoto,
            SmugmugPhoto, SmugmugVideo, PhotobucketPhoto,
            PhotobucketVideo, FacebookPhoto, FacebookVideo,
            YoutubeVideo} : Answering(m)
<1>0. \A a \in {"no file", "wrong id", "half id"} : a \in Arg
  BY DEF Arg
<1>1. Answering(Upload)
  BY Heeded DEF Answering, Shape, Upload, Answer, Heeds
<1>2. Answering(FlickrPhoto)
  BY <1>1, Varied, Heeded DEF FlickrPhoto
<1>3. Answering(PhotobucketFile)
  BY <1>1, Varied, Heeded, <1>0 DEF PhotobucketFile
<1>4. Answering(YoutubeVideo)
  BY <1>1, Varied, Heeded, <1>0 DEF YoutubeVideo
<1>5. Answering(SmugmugFile)
  <2>1. [Checked EXCEPT !["wrong id"] = "refused", !["half id"] = "refused"] \in Heeds
    BY Heeded, <1>0
  <2> QED
    BY <1>1, <2>1, Varied DEF SmugmugFile
<1>6. Answering(TwitpicPhoto)
  <2> DEFINE reads == [ok |-> "complete", partial |-> "crash", error |-> "failed",
                       garbage |-> "failed"]
  <2>1. reads \in [Answer -> {"complete", "failed", "crash"}]
    BY DEF Answer
  <2> HIDE DEF reads
  <2>2. Answering([Upload EXCEPT !.life = "session", !.first = "arguments",
                                         !.progress = "failed", !.verdict = reads])
    BY <1>1, <2>1 DEF Answering, Shape
  <2> QED
    BY <2>2 DEF TwitpicPhoto, reads
<1> QED
  BY <1>1, <1>2, <1>3, <1>4, <1>5, <1>6
  DEF FlickrVideo, SmugmugPhoto, SmugmugVideo,
      PhotobucketPhoto, PhotobucketVideo, FacebookPhoto,
      FacebookVideo

LEMMA StatusesAnswer ==
  \A m \in {TwitterStatus, PlurkStatus, SinaStatus,
            MySpaceStatus, FacebookStatus} : Answering(m)
<1>1. Answering(Status)
  BY Heeded DEF Answering, Shape, Status, Answer, Heeds
<1>2. Answering(FacebookStatus)
  BY <1>1, Varied, Heeded DEF FacebookStatus
<1> QED
  BY <1>1, <1>2
  DEF TwitterStatus, PlurkStatus, SinaStatus, MySpaceStatus

LEMMA CallsAnswer ==
  /\ \A m \in {SmugmugList, SmugmugCreate, PhotobucketList,
               PhotobucketCreate, PhotobucketDetails,
               FacebookCreate, FacebookDetails} : Answering(m)
  /\ Sound(SmugmugDetails) /\ Sound(FacebookList)
<1>0. Sent \in Heeds /\ [Sent EXCEPT !["wrong id"] = "refused"] \in Heeds
  BY Heeded DEF Arg
<1>1. Answering(Call) /\ ~Call.early
  BY Heeded DEF Answering, Shape, Call, Answer, Heeds
<1>2. Answering(SmugmugList)
  BY <1>1, Varied, <1>0 DEF SmugmugList
<1>3. Answering(PhotobucketCreate)
  BY <1>1, Varied, <1>0 DEF PhotobucketCreate
<1>4. Answering(PhotobucketDetails)
  BY <1>3, Varied, <1>0 DEF PhotobucketDetails
<1>5. Answering(SmugmugCreate)
  <2> DEFINE checked == [SmugmugList EXCEPT
                           !.takes = [Sent EXCEPT !["wrong id"] = "refused"]]
  <2>1. Answering(checked)
    BY <1>0, <1>2, Varied
  <2>2. SmugmugCreate = [checked EXCEPT !.verdict.partial = "crash"]
    BY <1>2 DEF SmugmugCreate, Answering, Shape
  <2> HIDE DEF checked
  <2> QED
    BY <2>1, <2>2, Varied, <1>0
<1>6. Sound(SmugmugDetails)
  BY <1>5 DEF SmugmugDetails, Sound, Answering, Shape, Heeds, Arg, Answer
<1>7. Sound(FacebookList)
  BY <1>1 DEF FacebookList, Sound, Answering, Shape, Heeds, Arg, Answer
<1> QED
  BY <1>1, <1>2, <1>3, <1>4, <1>5, <1>6, <1>7
  DEF PhotobucketList, FacebookCreate, FacebookDetails

LEMMA MethodsAreSound == ASSUME NEW m \in Method PROVE Sound(m)
BY UploadsAnswer, StatusesAnswer, CallsAnswer DEF Method, Sound

\* What the steps use of it.
LEMMA SoundMethod ==
  \A m \in Method :
    /\ m.lacking \in {"opid", "nothing"} /\ m.progress \in {"none", "going", "failed"}
    /\ m.early \in BOOLEAN
    /\ \A a \in Arg : /\ m.takes[a] \in {"sent", "refused", "failed", "nothing"}
                      /\ m.takes[a] = "nothing" => m = SmugmugDetails
    /\ \A k \in Answer : /\ m.verdict[k] \in {"complete", "failed", "nothing", "crash"}
                         /\ m.verdict[k] = "nothing" => m = FacebookList /\ ~m.early
<1>1. \A m \in Method : Sound(m)
  BY MethodsAreSound
<1> QED
  BY <1>1 DEF Sound, Answering, Shape, Heeds

\* The service, the work and the client's knowledge keep their types, for any number
\* of requests to any of the 24 methods (services/*).
THEOREM MethodsKeepTypes == MethodsSpec => []MethodsTypeOK
<1>1. MethodsInit => MethodsTypeOK
  BY DEF MethodsInit, MethodsTypeOK
<1>2. MethodsTypeOK /\ [MethodsNext]_methodVars => MethodsTypeOK'
  <2> SUFFICES ASSUME MethodsTypeOK, [MethodsNext]_methodVars PROVE MethodsTypeOK'
    OBVIOUS
  <2> USE DEF MethodsTypeOK, Hears, Verdict
  <2>1. CASE FindsUser \/ LosesUser \/ UNCHANGED methodVars
    BY <2>1 DEF FindsUser, LosesUser, methodVars
  <2>2. ASSUME NEW o \in Op, Asks(o) PROVE MethodsTypeOK'
    BY <2>2 DEF Asks
  <2>3. ASSUME NEW o \in Op, Handles(o) PROVE MethodsTypeOK'
    <3>1. PICK a \in Arg : Rejects(o, a) \/ Lacks(o, a) \/ Sends(o, a)
      BY <2>3 DEF Handles
    <3>2. CASE Rejects(o, a)
      <4>1. method.takes[a] \in {"refused", "failed", "nothing"}
        BY <3>2, SoundMethod DEF Rejects
      <4> QED
        BY <3>2, <4>1 DEF Rejects
    <3>3. CASE Lacks(o, a)
      BY <3>3, SoundMethod DEF Lacks
    <3>4. CASE Sends(o, a)
      BY <3>4 DEF Sends
    <3> QED
      BY <3>1, <3>2, <3>3, <3>4
  <2>4. ASSUME NEW o \in Op, Progress(o) PROVE MethodsTypeOK'
    BY <2>4, SoundMethod DEF Progress
  <2>5. ASSUME NEW o \in Op, Ends(o) PROVE MethodsTypeOK'
    BY <2>5, SoundMethod DEF Ends, CallEnds
  <2> QED
    BY <2>1, <2>2, <2>3, <2>4, <2>5 DEF MethodsNext
<1> QED
  BY <1>1, <1>2, PTL DEF MethodsSpec

\* The requests as SwRequests sees them: a step of one moves no other.
requests == [o \in Op |-> StandingOf(o)]

LEMMA OneRequestMoves ==
  ASSUME MethodsTypeOK, NEW o \in Op, method' = method,
         work' = [work EXCEPT ![o] = work'[o]], said' = [said EXCEPT ![o] = said'[o]]
  PROVE  requests' = [requests EXCEPT ![o] = StandingOf(o)']
<1>1. \A q \in Op \ {o} : work'[q] = work[q] /\ said'[q] = said[q]
  BY DEF MethodsTypeOK
<1>2. \A q \in Op \ {o} : StandingOf(q)' = StandingOf(q)
  BY <1>1 DEF StandingOf
<1> QED
  BY <1>2 DEF requests

LEMMA AskMoves ==
  ASSUME MethodsTypeOK, NEW o \in Op, Asks(o) PROVE Contract!Ask(o)
<1>1. StandingOf(o) = "idle" /\ StandingOf(o)' = "asked"
  BY DEF Asks, Hears, StandingOf, MethodsTypeOK
<1>2. requests' = [requests EXCEPT ![o] = StandingOf(o)']
  BY OneRequestMoves DEF Asks, Hears, MethodsTypeOK
<1> QED
  BY <1>1, <1>2 DEF Contract!Ask, Contract!Goes, requests

LEMMA HandlesMoves ==
  ASSUME MethodsTypeOK, NEW o \in Op, Handles(o)
  PROVE  Contract!Handle(o) \/ requests' = requests
<1> USE DEF Rejects, Lacks, Sends
<1>1. PICK a \in Arg : Rejects(o, a) \/ Lacks(o, a) \/ Sends(o, a)
  BY DEF Handles
<1>2. requests[o] = "asked" /\ StandingOf(o) = "asked" /\ method \in Method
  BY <1>1 DEF StandingOf, MethodsTypeOK, requests
<1>3. requests' = [requests EXCEPT ![o] = StandingOf(o)']
  BY <1>1, OneRequestMoves DEF Hears, MethodsTypeOK
<1>4. CASE Rejects(o, a)
  <2>0. method.takes[a] # "sent"
    BY <1>4
  <2>1. /\ method.takes[a] \in {"refused", "failed", "nothing"}
        /\ method.takes[a] = "nothing" => method = SmugmugDetails
    BY <1>2, <2>0, SoundMethod
  <2>2. StandingOf(o)' =
          IF method.takes[a] = "nothing" THEN "dropped" ELSE method.takes[a]
    BY <1>4 DEF Hears, StandingOf, MethodsTypeOK
  <2> QED
    BY <1>2, <1>3, <2>1, <2>2
    DEF Contract!Handle, Contract!Goes, Contract!Verdict, requests
<1>5. CASE Lacks(o, a)
  <2>1. StandingOf(o)' = "dropped" /\ LacksProxy
    BY <1>5 DEF Hears, StandingOf, MethodsTypeOK
  <2> QED
    BY <1>2, <1>3, <2>1 DEF Contract!Handle, Contract!Goes, requests
<1>6. CASE Sends(o, a)
  <2>1. StandingOf(o)' \in {"accepted", "asked"}
    BY <1>6 DEF Hears, StandingOf, MethodsTypeOK
  <2>2. CASE StandingOf(o)' = "accepted"
    BY <1>2, <1>3, <2>2 DEF Contract!Handle, Contract!Goes, requests
  <2>3. CASE StandingOf(o)' = "asked"
    BY <1>2, <1>3, <2>3 DEF requests
  <2> QED
    BY <2>1, <2>2, <2>3
<1> QED
  BY <1>1, <1>4, <1>5, <1>6

LEMMA EndsMoves ==
  ASSUME MethodsTypeOK, NEW o \in Op, Ends(o)
  PROVE  Contract!Handle(o) \/ Contract!Conclude(o)
<1>1. PICK k \in Answer : CallEnds(o, k)
  BY DEF Ends
<1>2. /\ requests[o] = IF method.early THEN "accepted" ELSE "asked"
      /\ method.verdict[k] \in {"complete", "failed", "nothing"}
      /\ method.verdict[k] = "nothing" => method = FacebookList /\ ~method.early
  BY <1>1, SoundMethod DEF CallEnds, StandingOf, MethodsTypeOK, requests
<1>3. requests' = [requests EXCEPT ![o] = StandingOf(o)']
  BY <1>1, OneRequestMoves DEF CallEnds, Hears, MethodsTypeOK
<1>4. StandingOf(o)' =
        IF method.verdict[k] = "nothing" THEN "dropped" ELSE method.verdict[k]
  BY <1>1 DEF CallEnds, Hears, StandingOf, MethodsTypeOK
<1> QED
  BY <1>2, <1>3, <1>4
  DEF Contract!Handle, Contract!Conclude, Contract!Goes,
      Contract!Verdict, requests

\* Every step of a method is a step of SwRequests or none: a request is refused or
\* ends once, and what was acknowledged is never dropped (the safety part of
\* ImplementsRequests).
THEOREM MethodsTellOneOutcome == MethodsSpec => Contract!Safety
<1>1. MethodsInit => Contract!Init
  BY DEF MethodsInit, Contract!Init, StandingOf
<1>2. MethodsTypeOK /\ [MethodsNext]_methodVars => [Contract!Next]_requests
  <2> SUFFICES ASSUME MethodsTypeOK, [MethodsNext]_methodVars
               PROVE  [Contract!Next]_requests
    OBVIOUS
  <2>1. CASE FindsUser \/ LosesUser \/ UNCHANGED methodVars
    BY <2>1 DEF FindsUser, LosesUser, methodVars, requests, StandingOf
  <2>2. ASSUME NEW o \in Op, Progress(o) PROVE requests' = requests
    BY <2>2 DEF Progress, Hears, StandingOf, MethodsTypeOK, requests
  <2> QED
    BY <2>1, <2>2, AskMoves, HandlesMoves, EndsMoves DEF MethodsNext, Contract!Next
<1> QED
  BY <1>1, <1>2, MethodsKeepTypes, PTL DEF MethodsSpec, Contract!Safety, requests
=============================================================================
