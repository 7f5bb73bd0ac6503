-------------------------- MODULE ServiceViewsProofs --------------------------
(***************************************************************************)
(* Proofs about ServiceViews for any accounts and entries, and for all its *)
(* classes of views.  What a proof needs to know of a class is in          *)
(* ClassFacts; no proof goes through the classes one by one after that.    *)
(***************************************************************************)
EXTENDS ServiceViews, FiniteSetTheorems, TLAPS

\* What the proofs use of a class: its fields have their types, and the calls
\* of a view that has an index end in one list, to be cancelled together.
Sound(k) ==
  /\ k.steps \in {"one", "chain", "ids", "friends"}
  /\ k.lists \in BOOLEAN /\ k.filters \in BOOLEAN
  /\ k.hears \in {"timer", "refresh", "nothing"}
  /\ k.steps \in {"ids", "friends"} => k.lists
  /\ k.steps = "ids" => k.asks = "valid"

LEMMA ClassFacts == \A k \in Class : Sound(k)
<1>1. Sound(Plurk) /\ Sound(MySpace) /\ Sound(SinaOwn) /\ Sound(TwitterTimeline)
  BY DEF Sound, Plurk, MySpace, SinaOwn, TwitterTimeline
<1>2. Sound(SinaFeed) /\ Sound(TwitterTrends) /\ Sound(TwitterContacts)
  BY DEF Sound, SinaFeed, TwitterTrends, TwitterContacts
<1>3. Sound(Youtube) /\ Sound(Vimeo) /\ Sound(FacebookItems) /\ Sound(FacebookContacts)
  BY DEF Sound, Youtube, Vimeo, FacebookItems, FacebookContacts
<1>4. Sound(LastfmItems) /\ Sound(LastfmContacts)
  BY DEF Sound, LastfmItems, LastfmContacts
<1> QED
  BY <1>1, <1>2, <1>3, <1>4 DEF Class

LEMMA InitTypeOK == ASSUME Init PROVE TypeOK
BY DEF Init, TypeOK

\* A request keeps the types if the account it signs for is one.
LEMMA RequestType ==
  ASSUME TypeOK, Request \/ NoRequest, user' \in Account \cup {NoAccount},
         open'
  PROVE  /\ calls' \subseteq Call /\ collected' \subseteq Uid
         /\ failed' \in BOOLEAN /\ crossed' \in BOOLEAN
<1>1. CASE NoRequest
  BY <1>1 DEF TypeOK, NoRequest
<1>2. CASE Request
  <2>1. FirstCall \in Call
    BY DEF FirstCall, Call, Kind
  <2>2. Unsent \in Call
    BY DEF Unsent, Call, Kind
  <2>3. calls' \subseteq calls \cup {FirstCall, Unsent}
    BY <1>2 DEF Request
  <2>4. collected' \subseteq Uid /\ failed' \in BOOLEAN
    BY <1>2 DEF TypeOK, Request, Cancelled
  <2>5. crossed' \in BOOLEAN
    BY <1>2 DEF TypeOK, Request
  <2> QED
    BY <2>1, <2>2, <2>3, <2>4, <2>5 DEF TypeOK
<1> QED
  BY <1>1, <1>2

LEMMA ServiceTypeOK ==
  ASSUME TypeOK, NEW a \in Account \cup {NoAccount},
         NEW v \in BOOLEAN, NEW u \in BOOLEAN, NEW p \in BOOLEAN,
         ServiceChanges(a, v, u, p)
  PROVE  TypeOK'
<1>1. user' \in Account \cup {NoAccount} /\ valid' \in BOOLEAN /\ heard' \in BOOLEAN
  BY DEF ServiceChanges, Signals!Changes, TypeOK
<1>2. UNCHANGED <<view, banned, open, wanted>>
  BY DEF ServiceChanges
<1>3. contents' \subseteq Uid /\ cache' \subseteq Uid /\ (~open => contents' = {})
  BY DEF ServiceChanges, OnUserChanged, TypeOK
<1>4. CASE open /\ p
  <2>1. OnCapabilitiesChanged
    BY <1>4 DEF ServiceChanges
  <2>2. polling' \in BOOLEAN
    BY <2>1, <1>1 DEF OnCapabilitiesChanged, TypeOK
  <2>3. /\ calls' \subseteq Call /\ collected' \subseteq Uid
        /\ failed' \in BOOLEAN /\ crossed' \in BOOLEAN
    BY <2>1, <1>1, <1>2, <1>4, RequestType DEF OnCapabilitiesChanged
  <2> QED
    BY <1>1, <1>2, <1>3, <1>4, <2>2, <2>3 DEF TypeOK
<1>5. CASE ~(open /\ p)
  BY <1>1, <1>2, <1>3, <1>5 DEF ServiceChanges, NoRequest, TypeOK
<1> QED
  BY <1>4, <1>5

LEMMA ViewTypeOK ==
  ASSUME TypeOK, OpenView \/ StartView \/ RefreshView \/ StopView \/ CloseView
  PROVE  TypeOK'
<1>1. CASE OpenView
  BY <1>1 DEF OpenView, TypeOK, service_vars
<1>2. CASE StartView
  <2>1. Request \/ NoRequest
    BY <1>2 DEF StartView
  <2>2. /\ calls' \subseteq Call /\ collected' \subseteq Uid
        /\ failed' \in BOOLEAN /\ crossed' \in BOOLEAN
    BY <1>2, <2>1, RequestType DEF StartView, TypeOK, service_vars
  <2>3. contents' \subseteq Uid
    BY <1>2 DEF StartView, FromCache, TypeOK
  <2> QED
    BY <1>2, <2>2, <2>3 DEF StartView, TypeOK, service_vars
<1>3. CASE RefreshView
  <2>1. /\ calls' \subseteq Call /\ collected' \subseteq Uid
        /\ failed' \in BOOLEAN /\ crossed' \in BOOLEAN
    BY <1>3, RequestType DEF RefreshView, TypeOK, service_vars
  <2> QED
    BY <1>3, <2>1 DEF RefreshView, TypeOK, service_vars
<1>4. CASE StopView
  BY <1>4 DEF StopView, TypeOK, service_vars
<1>5. CASE CloseView
  BY <1>5 DEF CloseView, TypeOK, service_vars
<1> QED
  BY <1>1, <1>2, <1>3, <1>4, <1>5

LEMMA ReplyTypeOK ==
  ASSUME TypeOK, NEW c \in calls, NEW S \in SUBSET EntriesOf(c.user),
         ResultReceived(c, S) \/ TimelineReceived(c, S) \/ IndexReceived(c, S)
  PROVE  TypeOK'
<1>1. c \in Call /\ open /\ S \subseteq Uid /\ Passed(S) \subseteq Uid
  BY DEF TypeOK, EntriesOf, Passed
<1>2. CASE ResultReceived(c, S)
  <2>1. c.about \subseteq Uid
    BY <1>1 DEF Call
  <2>2. contents' \subseteq Uid /\ cache' \subseteq Uid
    BY <1>1, <1>2, <2>1 DEF ResultReceived, Report, TypeOK
  <2>3. calls' \subseteq Call
    BY <1>2 DEF ResultReceived, Answered, TypeOK
  <2> QED
    BY <1>1, <1>2, <2>2, <2>3 DEF ResultReceived, TypeOK, service_vars
<1>3. CASE TimelineReceived(c, S)
  <2> DEFINE next == [kind |-> "result", about |-> Passed(S),
                      user |-> IF user = NoAccount THEN c.user ELSE user]
  <2>1. next \in Call
    BY <1>1 DEF Call, Kind, TypeOK
  <2>2. calls' \subseteq Call
    BY <1>3, <2>1 DEF TimelineReceived, Answered, TypeOK
  <2> QED
    BY <1>1, <1>3, <2>2 DEF TimelineReceived, TypeOK, service_vars
<1>4. CASE IndexReceived(c, S)
  <2>1. \A i \in S : [kind |-> "part", user |-> c.user, about |-> {i}] \in Call
    BY <1>1 DEF Call, Kind
  <2>2. calls' \subseteq Call
    BY <1>4, <2>1 DEF IndexReceived, Answered, TypeOK
  <2> QED
    BY <1>1, <1>4, <2>2 DEF IndexReceived, TypeOK, service_vars
<1> QED
  BY <1>2, <1>3, <1>4

LEMMA PartTypeOK ==
  ASSUME TypeOK, NEW c \in calls, NEW S \in SUBSET c.about, NEW i \in BOOLEAN,
         PartReceived(c, S, i) \/ ImageReceived(c) \/ CallFails(c)
  PROVE  TypeOK'
<1>1. c \in Call /\ open /\ S \subseteq Uid /\ Passed(S) \subseteq Uid
  BY DEF TypeOK, Call, Passed
<1>2. CASE PartReceived(c, S, i)
  <2>1. [kind |-> "image", user |-> c.user, about |-> c.about] \in Call
    BY <1>1 DEF Call, Kind
  <2>2. calls' \subseteq Call
    BY <1>2, <2>1 DEF PartReceived, TypeOK
  <2>3. contents' \subseteq Uid /\ cache' \subseteq Uid /\ collected' \subseteq Uid
    BY <1>1, <1>2 DEF PartReceived, UpdateIfDone, Report, TypeOK
  <2> QED
    BY <1>1, <1>2, <2>2, <2>3 DEF PartReceived, TypeOK, service_vars
<1>3. CASE ImageReceived(c)
  <2>1. contents' \subseteq Uid /\ cache' \subseteq Uid /\ collected' \subseteq Uid
    BY <1>3 DEF ImageReceived, UpdateIfDone, Report, TypeOK
  <2> QED
    BY <1>1, <1>3, <2>1 DEF ImageReceived, TypeOK, service_vars
<1>4. CASE CallFails(c)
  <2>1. failed' \in BOOLEAN
    BY <1>4, ClassFacts DEF CallFails, TypeOK, Listed, Sound
  <2> QED
    BY <1>1, <1>4, <2>1 DEF CallFails, TypeOK, service_vars
<1> QED
  BY <1>2, <1>3, <1>4

LEMMA StepTypeOK == ASSUME TypeOK, [Next]_vars PROVE TypeOK'
<1>1. CASE \E uid \in Hideable : HideItem(uid)
  BY <1>1, ViewsAssumption DEF HideItem, OnItemHidden, TypeOK, service_vars
<1>2. CASE UNCHANGED vars
  BY <1>2 DEF vars, service_vars, TypeOK
<1>3. CASE OpenView \/ StartView \/ RefreshView \/ StopView \/ CloseView
  BY <1>3, ViewTypeOK
<1>4. CASE \E a \in Account \cup {NoAccount}, v, u, p \in BOOLEAN :
             ServiceChanges(a, v, u, p)
  BY <1>4, ServiceTypeOK
<1>5. CASE \E c \in calls : \E S \in SUBSET EntriesOf(c.user) :
             ResultReceived(c, S) \/ TimelineReceived(c, S) \/ IndexReceived(c, S)
  BY <1>5, ReplyTypeOK
<1>6. CASE \E c \in calls :
             \/ \E S \in SUBSET c.about, i \in BOOLEAN : PartReceived(c, S, i)
             \/ ImageReceived(c) \/ CallFails(c)
  <2>1. \A c \in calls : {} \in SUBSET c.about
    OBVIOUS
  <2> QED
    BY <1>6, <2>1, PartTypeOK
<1> QED
  BY <1>1, <1>2, <1>3, <1>4, <1>5, <1>6 DEF Next

\* Every variable keeps its type, and a closed view has nothing under way.
THEOREM TypeCorrect == Spec => []TypeOK
BY InitTypeOK, StepTypeOK, PTL DEF Spec
-----------------------------------------------------------------------------
(* Wanted views.                                                           *)

\* The timer of a view that does not hear of capabilities stays with the
\* client; that of another comes back with the announcement that the
\* credentials are valid.
WantedInv ==
  /\ ~open => ~wanted
  /\ wanted /\ (valid \/ view.hears # "timer") => polling

LEMMA StepWanted ==
  ASSUME TypeOK, WantedInv, [Next]_vars
  PROVE  WantedInv'
<1>1. ASSUME NEW a \in Account \cup {NoAccount},
             NEW v \in BOOLEAN, NEW u \in BOOLEAN, NEW p \in BOOLEAN,
             ServiceChanges(a, v, u, p)
      PROVE  WantedInv'
  BY <1>1 DEF ServiceChanges, Signals!Changes, OnCapabilitiesChanged, WantedInv, TypeOK
<1>2. CASE OpenView \/ StartView \/ RefreshView \/ StopView \/ CloseView
  BY <1>2 DEF OpenView, StartView, RefreshView, StopView, CloseView, WantedInv,
     service_vars
<1>3. CASE UNCHANGED <<view, service_vars, open, polling, wanted>>
  BY <1>3 DEF WantedInv, service_vars
<1>4. ASSUME \/ \E uid \in Hideable : HideItem(uid)
             \/ \E c \in calls : \/ \E S \in SUBSET EntriesOf(c.user) :
                                      \/ ResultReceived(c, S)
                                      \/ TimelineReceived(c, S)
                                      \/ IndexReceived(c, S)
                                 \/ \E S \in SUBSET c.about, i \in BOOLEAN :
                                      PartReceived(c, S, i)
                                 \/ ImageReceived(c) \/ CallFails(c)
             \/ UNCHANGED vars
      PROVE  UNCHANGED <<view, service_vars, open, polling, wanted>>
  BY <1>4 DEF HideItem, ResultReceived, TimelineReceived, IndexReceived,
     PartReceived, ImageReceived, CallFails, vars
<1> QED
  BY <1>1, <1>2, <1>3, <1>4 DEF Next

\* A view that the client started and did not stop is polled whenever the
\* credentials are valid, however often they were not meanwhile.
THEOREM WantedViewsArePolled == Spec => []WantedIsPolled
<1>1. Init => WantedInv
  BY DEF Init, WantedInv
<1>2. WantedInv => WantedIsPolled
  BY DEF WantedInv, WantedIsPolled
<1> QED
  BY <1>1, <1>2, StepWanted, TypeCorrect, PTL DEF Spec

-----------------------------------------------------------------------------
(* Rounds: a request and the calls that follow from it.                    *)

\* The kinds of the calls are those of the class.
KindsFit ==
  \A c \in calls :
    /\ c.kind \in {"part", "image", "index"} => view.steps \in {"ids", "friends"}
    /\ c.kind = "result" => view.steps \in {"one", "chain"}
    /\ c.kind = "timeline" => view.steps = "chain"
    /\ view.steps = "one" => c.about = {}

CollectedFits == collected # {} => view.steps \in {"ids", "friends"}

\* A request for the friends cancels every call before it: it is the first of
\* its round.
IndexIsAlone ==
  view.steps = "friends" =>
    \A c \in calls : c.kind = "index" => calls = {c} /\ collected = {}

\* Unless accounts have crossed, a call is about entries of the account it is
\* signed for, and the calls of a gathering view are all of one account, as is
\* what they gave.
RoundIsOne ==
  ~crossed =>
    /\ \A c \in calls : c.about \subseteq EntriesOf(c.user)
    /\ view.steps \in {"ids", "friends"} =>
         /\ \A c \in calls : collected \subseteq EntriesOf(c.user)
         /\ \A c, d \in calls : c.user = d.user
         /\ OneAccount(collected)

Rounds == KindsFit /\ CollectedFits /\ IndexIsAlone /\ RoundIsOne /\ StrandedOnlyByFailure
round_vars == <<view, calls, collected, failed, crossed>>

LEMMA SameRounds == ASSUME Rounds, UNCHANGED round_vars PROVE Rounds'
BY DEF Rounds, KindsFit, CollectedFits, IndexIsAlone, RoundIsOne, StrandedOnlyByFailure,
   round_vars, Listed, OneAccount, EntriesOf

LEMMA RequestRounds ==
  ASSUME TypeOK, Rounds, Request, UNCHANGED view
  PROVE  Rounds'
<1>1. Sound(view)
  BY ClassFacts DEF TypeOK
<1>2. CASE view.lists /\ (Asks \/ view.asks = "account")
  <2>1. /\ collected' = {}
        /\ \A c \in calls' : c = FirstCall \/ c = Unsent \/ c \in calls
    BY <1>2 DEF Request, Cancelled
  <2>2. FirstCall.about = {} /\ Unsent.about = {} /\ Unsent.kind = "unsent"
    BY DEF FirstCall, Unsent
  <2>3. /\ FirstCall.kind \in {"part", "image", "index"}
             => view.steps \in {"ids", "friends"}
        /\ FirstCall.kind = "result" => view.steps \in {"one", "chain"}
        /\ FirstCall.kind = "timeline" => view.steps = "chain"
    BY <1>1 DEF FirstCall, Sound
  <2>4. KindsFit'
    BY <2>1, <2>2, <2>3 DEF Rounds, KindsFit
  <2>5. view.steps = "friends" => calls' = {FirstCall} \/ calls' = {Unsent}
    <3>1. view.steps = "friends" => \A c \in calls : Listed(c)
      BY <1>2 DEF Listed
    <3> QED
      BY <1>2, <3>1 DEF Request
  <2>6. IndexIsAlone'
    BY <2>1, <2>2, <2>5 DEF IndexIsAlone
  <2>7. RoundIsOne'
    <3> SUFFICES ASSUME ~crossed'
                 PROVE  RoundIsOne'
      BY DEF RoundIsOne
    <3>1. \A c \in calls' : c.about \subseteq EntriesOf(c.user)
      BY <2>1, <2>2 DEF Request, Rounds, RoundIsOne
    <3>2. CASE view.steps = "ids"
      <4>1. Asks
        BY <1>1, <1>2, <3>2 DEF Sound
      <4>2. FirstCall.user = user'
        BY DEF FirstCall
      <4>3. \A c \in calls' : c.user = user'
        BY <1>2, <3>2, <4>1, <4>2 DEF Request
      <4> QED
        BY <2>1, <3>1, <4>3 DEF RoundIsOne, OneAccount
    <3>3. CASE view.steps = "friends"
      BY <2>1, <2>5, <3>1, <3>3 DEF RoundIsOne, OneAccount
    <3> QED
      BY <3>1, <3>2, <3>3 DEF RoundIsOne
  <2> QED
    BY <2>1, <2>4, <2>6, <2>7 DEF Rounds, CollectedFits, StrandedOnlyByFailure
<1>3. CASE ~(view.lists /\ (Asks \/ view.asks = "account"))
  <2>1. failed' = failed /\ collected' = collected
    BY <1>3 DEF Request, Cancelled, TypeOK
  <2>2. CASE ~Asks
    <3>1. calls' = calls /\ crossed' = crossed
      BY <1>3, <2>2 DEF Request, TypeOK
    <3> QED
      BY <2>1, <3>1, SameRounds DEF round_vars
  <2>3. CASE Asks
    <3>1. ~view.lists /\ view.steps \in {"one", "chain"}
      BY <1>1, <1>3, <2>3 DEF Sound
    <3>2. calls' = calls \cup {FirstCall} /\ crossed' = crossed
      BY <3>1, <2>3 DEF Request, TypeOK
    <3>3. /\ FirstCall.about = {}
          /\ FirstCall.kind = IF view.steps = "one" THEN "result" ELSE "timeline"
      BY <3>1 DEF FirstCall
    <3>4. collected = {}
      BY <3>1 DEF Rounds, CollectedFits
    <3> QED
      BY <2>1, <3>1, <3>2, <3>3, <3>4
      DEF Rounds, KindsFit, CollectedFits, IndexIsAlone, RoundIsOne, StrandedOnlyByFailure
  <2> QED
    BY <2>2, <2>3
<1> QED
  BY <1>2, <1>3

LEMMA ServiceRounds ==
  ASSUME TypeOK, Rounds, NEW a \in Account \cup {NoAccount},
         NEW v \in BOOLEAN, NEW u \in BOOLEAN, NEW p \in BOOLEAN,
         ServiceChanges(a, v, u, p)
  PROVE  Rounds'
<1>1. UNCHANGED view /\ (Request \/ NoRequest)
  BY DEF ServiceChanges, OnCapabilitiesChanged
<1>2. CASE Request
  BY <1>1, <1>2, RequestRounds
<1>3. CASE NoRequest
  BY <1>1, <1>3, SameRounds DEF NoRequest, round_vars
<1> QED
  BY <1>1, <1>2, <1>3

LEMMA ViewRounds ==
  ASSUME TypeOK, Rounds, OpenView \/ StartView \/ RefreshView \/ StopView \/ CloseView
  PROVE  Rounds'
<1>1. CASE OpenView \/ StopView
  BY <1>1, SameRounds DEF OpenView, StopView, round_vars
<1>2. CASE StartView
  <2>1. UNCHANGED view /\ (Request \/ NoRequest)
    BY <1>2 DEF StartView
  <2> QED
    BY <2>1, RequestRounds, SameRounds DEF NoRequest, round_vars
<1>3. CASE RefreshView
  BY <1>3, RequestRounds DEF RefreshView
<1>4. CASE CloseView
  BY <1>4 DEF CloseView, Rounds, KindsFit, CollectedFits, IndexIsAlone, RoundIsOne,
     StrandedOnlyByFailure, OneAccount
<1> QED
  BY <1>1, <1>2, <1>3, <1>4

LEMMA ReplyRounds ==
  ASSUME TypeOK, Rounds, NEW c \in calls, NEW S \in SUBSET EntriesOf(c.user),
         ResultReceived(c, S) \/ TimelineReceived(c, S) \/ IndexReceived(c, S)
  PROVE  Rounds'
<1>1. UNCHANGED <<view, collected, failed>>
  BY DEF ResultReceived, TimelineReceived, IndexReceived
<1>2. CASE ResultReceived(c, S) \/ TimelineReceived(c, S)
  <2>1. view.steps \in {"one", "chain"} /\ collected = {}
    BY <1>2 DEF ResultReceived, TimelineReceived, Rounds, KindsFit, CollectedFits
  <2>2. KindsFit'
    <3>1. CASE ResultReceived(c, S)
      BY <1>1, <3>1 DEF ResultReceived, Answered, Rounds, KindsFit
    <3>2. CASE TimelineReceived(c, S)
      <4>1. view.steps = "chain"
        BY <3>2 DEF TimelineReceived, Rounds, KindsFit
      <4> QED
        BY <1>1, <3>2, <4>1 DEF TimelineReceived, Answered, Rounds, KindsFit
    <3> QED
      BY <1>2, <3>1, <3>2
  <2>3. RoundIsOne'
    <3> SUFFICES ASSUME ~crossed'
                 PROVE  \A d \in calls' : d.about \subseteq EntriesOf(d.user)
      BY <1>1, <2>1 DEF RoundIsOne
    <3>1. ~crossed
      BY <1>2 DEF ResultReceived, TimelineReceived
    <3>2. \A d \in calls : d.about \subseteq EntriesOf(d.user)
      BY <3>1 DEF Rounds, RoundIsOne
    <3>3. CASE ResultReceived(c, S)
      BY <3>2, <3>3 DEF ResultReceived, Answered
    <3>4. CASE TimelineReceived(c, S)
      <4> DEFINE next == [kind |-> "result", about |-> Passed(S),
                          user |-> IF user = NoAccount THEN c.user ELSE user]
      <4>1. calls' \subseteq calls \cup {next}
        BY <3>4 DEF TimelineReceived, Answered
      <4>2. next.about \subseteq EntriesOf(c.user)
        BY DEF Passed
      <4>3. next.user = c.user \/ next.about = {}
        BY <3>4 DEF TimelineReceived
      <4> HIDE DEF next
      <4> QED
        BY <3>2, <4>1, <4>2, <4>3
    <3> QED
      BY <1>2, <3>3, <3>4
  <2> QED
    BY <1>1, <2>1, <2>2, <2>3
    DEF Rounds, CollectedFits, IndexIsAlone, StrandedOnlyByFailure
<1>3. CASE IndexReceived(c, S)
  <2>1. /\ c.kind = "index" /\ view.steps \in {"ids", "friends"}
        /\ \A d \in calls' : \/ d \in calls /\ (d # c \/ ~Listed(c))
                             \/ d.kind = "part" /\ d.user = c.user /\ d.about \subseteq S
    BY <1>3 DEF IndexReceived, Answered, Rounds, KindsFit
  <2>2. KindsFit'
    BY <1>1, <2>1 DEF Rounds, KindsFit
  <2>3. IndexIsAlone' /\ (view.steps = "friends" => collected = {})
    <3>1. view.steps = "friends" => calls = {c} /\ collected = {}
      BY <2>1 DEF Rounds, IndexIsAlone
    <3>2. Listed(c) \/ view.steps # "friends"
      BY ClassFacts DEF Listed, TypeOK, Sound
    <3>3. view.steps = "friends" => \A d \in calls' : d.kind = "part"
      BY <2>1, <3>1, <3>2
    <3> QED
      BY <1>1, <3>1, <3>3 DEF IndexIsAlone
  <2>4. RoundIsOne'
    <3>1. crossed' = crossed
      BY <1>3 DEF IndexReceived
    <3> QED
      BY <1>1, <2>1, <3>1 DEF Rounds, RoundIsOne, OneAccount, EntriesOf
  <2>5. StrandedOnlyByFailure'
    <3>1. CASE view.steps = "ids"
      <4>1. ~Listed(c) /\ calls \ {c} \subseteq calls'
        BY <1>3, <2>1, <3>1 DEF Listed, IndexReceived, Answered
      <4> QED
        BY <1>1, <4>1 DEF Rounds, StrandedOnlyByFailure, Listed
    <3>2. CASE view.steps = "friends"
      BY <1>1, <2>3, <3>2 DEF StrandedOnlyByFailure
    <3> QED
      BY <2>1, <3>1, <3>2
  <2> QED
    BY <1>1, <2>2, <2>3, <2>4, <2>5 DEF Rounds, CollectedFits
<1> QED
  BY <1>2, <1>3

LEMMA PartRounds ==
  ASSUME TypeOK, Rounds, NEW c \in calls, NEW S \in SUBSET c.about, NEW i \in BOOLEAN,
         PartReceived(c, S, i) \/ ImageReceived(c)
  PROVE  Rounds'
<1> DEFINE gathered == IF c.kind = "part" THEN collected \cup Passed(S) ELSE collected
<1>1. /\ UNCHANGED <<view, failed, crossed>>
      /\ c.kind \in {"part", "image"}
      /\ UpdateIfDone(gathered)
      /\ \A d \in calls' : \/ d \in calls /\ d # c
                           \/ d.kind = "image" /\ d.user = c.user /\ d.about = c.about
  BY DEF PartReceived, ImageReceived
<1>2. view.steps \in {"ids", "friends"}
  BY <1>1 DEF Rounds, KindsFit
<1>3. KindsFit'
  BY <1>1, <1>2 DEF Rounds, KindsFit
<1>4. collected' \in {{}, gathered}
  BY <1>1 DEF UpdateIfDone
<1>5. IndexIsAlone'
  BY <1>1 DEF Rounds, IndexIsAlone
<1>6. RoundIsOne'
  <2> SUFFICES ASSUME ~crossed
               PROVE  RoundIsOne'
    BY <1>1 DEF RoundIsOne
  <2>1. \A d \in calls : /\ d.user = c.user
                         /\ d.about \cup collected \subseteq EntriesOf(c.user)
    BY <1>2 DEF Rounds, RoundIsOne
  <2>2. gathered \subseteq EntriesOf(c.user)
    BY <2>1 DEF Passed
  <2>3. \A d \in calls' : d.user = c.user /\ d.about \subseteq EntriesOf(c.user)
    BY <1>1, <2>1
  <2> QED
    BY <1>1, <1>4, <2>2, <2>3 DEF RoundIsOne, OneAccount, EntriesOf
<1>7. StrandedOnlyByFailure'
  BY <1>1 DEF UpdateIfDone, StrandedOnlyByFailure, Listed
<1> QED
  BY <1>1, <1>2, <1>3, <1>5, <1>6, <1>7 DEF Rounds, CollectedFits

LEMMA FailureRounds ==
  ASSUME TypeOK, Rounds, NEW c \in calls, CallFails(c)
  PROVE  Rounds'
<1>1. UNCHANGED <<view, collected, crossed>> /\ calls' = calls \ {c}
      /\ failed' = (failed \/ Listed(c))
  BY DEF CallFails
<1>2. StrandedOnlyByFailure'
  BY <1>1 DEF Rounds, StrandedOnlyByFailure, Listed
<1> QED
  BY <1>1, <1>2
  DEF Rounds, KindsFit, CollectedFits, IndexIsAlone, RoundIsOne, OneAccount, EntriesOf

LEMMA StepRounds == ASSUME TypeOK, Rounds, [Next]_vars PROVE Rounds'
<1>1. CASE UNCHANGED vars \/ \E uid \in Hideable : HideItem(uid)
  BY <1>1, SameRounds DEF HideItem, vars, round_vars
<1>2. CASE OpenView \/ StartView \/ RefreshView \/ StopView \/ CloseView
  BY <1>2, ViewRounds
<1>3. CASE \E a \in Account \cup {NoAccount}, v, u, p \in BOOLEAN :
             ServiceChanges(a, v, u, p)
  BY <1>3, ServiceRounds
<1>4. CASE \E c \in calls : \E S \in SUBSET EntriesOf(c.user) :
             ResultReceived(c, S) \/ TimelineReceived(c, S) \/ IndexReceived(c, S)
  BY <1>4, ReplyRounds
<1>5. CASE \E c \in calls : \E S \in SUBSET c.about, i \in BOOLEAN : PartReceived(c, S, i)
  BY <1>5, PartRounds
<1>6. CASE \E c \in calls : ImageReceived(c)
  <2>1. \A c \in calls : {} \in SUBSET c.about
    OBVIOUS
  <2> QED
    BY <1>6, <2>1, PartRounds
<1>7. CASE \E c \in calls : CallFails(c)
  BY <1>7, FailureRounds
<1> QED
  BY <1>1, <1>2, <1>3, <1>4, <1>5, <1>6, <1>7 DEF Next

LEMMA InitRounds == ASSUME Init PROVE Rounds
BY DEF Init, Rounds, KindsFit, CollectedFits, IndexIsAlone, RoundIsOne,
   StrandedOnlyByFailure, OneAccount

THEOREM RoundsHold == Spec => []Rounds
BY InitRounds, StepRounds, TypeCorrect, PTL DEF Spec

\* Whichever reply comes last hands on what was gathered: it stays behind only
\* when a call of the round failed.
THEOREM NothingIsStranded == Spec => []StrandedOnlyByFailure
<1>1. Rounds => StrandedOnlyByFailure
  BY DEF Rounds
<1> QED
  BY <1>1, RoundsHold, PTL

-----------------------------------------------------------------------------
(* What a reply reports.                                                   *)

\* A view and its cache change by a report, or only lose entries.
Shrinks ==
  /\ contents' \subseteq contents \/ contents' \subseteq cache
  /\ cache' \subseteq cache

LEMMA NoReportShrinks ==
  ASSUME TypeOK, [Next]_vars,
         \A c \in calls :
           /\ \A S \in SUBSET EntriesOf(c.user) : ~ResultReceived(c, S)
           /\ \A S \in SUBSET c.about, i \in BOOLEAN : ~PartReceived(c, S, i)
           /\ ~ImageReceived(c)
  PROVE  Shrinks
<1>1. CASE UNCHANGED vars \/ \E uid \in Hideable : HideItem(uid)
  BY <1>1 DEF HideItem, OnItemHidden, vars, Shrinks
<1>2. CASE OpenView \/ StartView \/ RefreshView \/ StopView \/ CloseView
  BY <1>2 DEF OpenView, StartView, RefreshView, StopView, CloseView, FromCache, Shrinks
<1>3. CASE \E a \in Account \cup {NoAccount}, v, u, p \in BOOLEAN :
             ServiceChanges(a, v, u, p)
  BY <1>3 DEF ServiceChanges, OnUserChanged, Shrinks
<1>4. CASE \E c \in calls : \/ CallFails(c)
                           \/ \E S \in SUBSET EntriesOf(c.user) :
                                TimelineReceived(c, S) \/ IndexReceived(c, S)
  BY <1>4 DEF CallFails, TimelineReceived, IndexReceived, Shrinks
<1> QED
  BY <1>1, <1>2, <1>3, <1>4 DEF Next

\* What the last part of a round reports is of the account of the round.
LEMMA PartReport ==
  ASSUME TypeOK, Rounds, ~crossed, view.steps \in {"ids", "friends"},
         NEW c \in calls, NEW S \in SUBSET c.about, NEW i \in BOOLEAN,
         PartReceived(c, S, i) \/ ImageReceived(c)
  PROVE  \/ UNCHANGED <<contents, cache>>
         \/ contents' \subseteq EntriesOf(c.user) /\ cache' = contents'
<1>1. collected \cup Passed(S) \subseteq EntriesOf(c.user)
  BY DEF Rounds, RoundIsOne, Passed
<1> QED
  BY <1>1 DEF PartReceived, ImageReceived, UpdateIfDone, Report

\* That accounts have crossed is never forgotten.
LEMMA StepCrossed == ASSUME TypeOK, [Next]_vars PROVE crossed => crossed'
<1>1. Request \/ NoRequest => (crossed => crossed')
  BY DEF Request, NoRequest
<1>2. (\E a \in Account \cup {NoAccount}, v, u, p \in BOOLEAN : ServiceChanges(a, v, u, p))
        => Request \/ NoRequest
  BY DEF ServiceChanges, OnCapabilitiesChanged
<1> QED
  BY <1>1, <1>2
  DEF Next, HideItem, OpenView, StartView, RefreshView, StopView, CloseView, ResultReceived,
      TimelineReceived, IndexReceived, PartReceived, ImageReceived, CallFails, vars

LEMMA StepApart ==
  ASSUME TypeOK, Rounds, AccountsStayApart, [Next]_vars
  PROVE  AccountsStayApart'
<1> SUFFICES ASSUME ~crossed'
             PROVE  OneAccount(contents') /\ OneAccount(cache')
  BY DEF AccountsStayApart, OneAccount
<1>1. ~crossed
  BY StepCrossed
<1>2. OneAccount(contents) /\ OneAccount(cache)
  BY <1>1 DEF AccountsStayApart
<1>3. CASE Shrinks
  BY <1>2, <1>3 DEF Shrinks, OneAccount
<1>4. ASSUME NEW c \in calls, NEW S \in SUBSET EntriesOf(c.user), ResultReceived(c, S)
      PROVE  OneAccount(contents') /\ OneAccount(cache')
  <2>1. c.about \subseteq EntriesOf(c.user)
    BY <1>1 DEF Rounds, RoundIsOne
  <2>2. Passed(S) \subseteq EntriesOf(c.user)
    BY DEF Passed
  <2> QED
    BY <1>2, <1>4, <2>1, <2>2 DEF ResultReceived, Report, OneAccount, EntriesOf
<1>5. ASSUME NEW c \in calls, NEW S \in SUBSET c.about, NEW i \in BOOLEAN,
             PartReceived(c, S, i) \/ ImageReceived(c)
      PROVE  OneAccount(contents') /\ OneAccount(cache')
  <2>1. view.steps \in {"ids", "friends"}
    BY <1>5 DEF PartReceived, ImageReceived, Rounds, KindsFit
  <2>2. \/ UNCHANGED <<contents, cache>>
        \/ contents' \subseteq EntriesOf(c.user) /\ cache' = contents'
    BY <1>1, <1>5, <2>1, PartReport
  <2> QED
    BY <1>2, <2>2 DEF OneAccount, EntriesOf
<1>6. \A c \in calls : {} \in SUBSET c.about
  OBVIOUS
<1> QED
  BY <1>3, <1>4, <1>5, <1>6, NoReportShrinks

\* However the account changes while calls are under way, a view of any class shows,
\* and its cache keeps, the entries of one account; unless a call for the ids outlived
\* its round, or a second call of a chain was signed for another account.
THEOREM AccountsAreKeptApart == Spec => []AccountsStayApart
<1>1. Init => AccountsStayApart
  BY DEF Init, AccountsStayApart, OneAccount
<1> QED
  BY <1>1, StepApart, TypeCorrect, RoundsHold, PTL DEF Spec

LEMMA StepHidden ==
  ASSUME TypeOK, Rounds, HiddenNotShown, [Next]_vars
  PROVE  HiddenNotShown'
<1>1. CASE \E uid \in Hideable : HideItem(uid)
  BY <1>1 DEF HideItem, OnItemHidden, HiddenNotShown
<1>2. CASE OpenView \/ StartView \/ RefreshView \/ StopView \/ CloseView
  BY <1>2 DEF OpenView, StartView, RefreshView, StopView, CloseView, FromCache,
     HiddenNotShown
<1>3. CASE \E a \in Account \cup {NoAccount}, v, u, p \in BOOLEAN :
             ServiceChanges(a, v, u, p)
  BY <1>3 DEF ServiceChanges, OnUserChanged, HiddenNotShown
<1>4. ASSUME NEW c \in calls, NEW S \in SUBSET EntriesOf(c.user), ResultReceived(c, S)
      PROVE  HiddenNotShown'
  <2>1. view.steps = "one" => c.about = {}
    BY DEF Rounds, KindsFit
  <2> QED
    BY <1>4, <2>1 DEF ResultReceived, Report, Passed, HiddenNotShown
<1>5. CASE \E c \in calls :
             \/ \E S \in SUBSET c.about, i \in BOOLEAN : PartReceived(c, S, i)
             \/ ImageReceived(c)
  <2>1. view.steps # "one" /\ UNCHANGED view
    BY <1>5 DEF PartReceived, ImageReceived, Rounds, KindsFit
  <2> QED
    BY <2>1 DEF HiddenNotShown
<1>6. CASE \/ UNCHANGED vars
           \/ \E c \in calls : \/ CallFails(c)
                              \/ \E S \in SUBSET EntriesOf(c.user) :
                                   TimelineReceived(c, S) \/ IndexReceived(c, S)
  BY <1>6 DEF CallFails, TimelineReceived, IndexReceived, vars, HiddenNotShown
<1> QED
  BY <1>1, <1>2, <1>3, <1>4, <1>5, <1>6 DEF Next

\* Hiding an item, a reply that was under way and the cache: in none of their
\* orders does a view that reports a reply at once show what is hidden.
THEOREM HiddenIsNotShown == Spec => []HiddenNotShown
<1>1. Init => HiddenNotShown
  BY DEF Init, HiddenNotShown
<1> QED
  BY <1>1, StepHidden, TypeCorrect, RoundsHold, PTL DEF Spec

-----------------------------------------------------------------------------
(* What comes back.                                                        *)

\* What the service says takes entries out and never puts one in.
LEMMA SignalsNeverAdd == ASSUME [Next]_vars PROVE SignalsOnlyRemove
<1>1. ASSUME NEW a \in Account \cup {NoAccount},
             NEW v \in BOOLEAN, NEW u \in BOOLEAN, NEW p \in BOOLEAN,
             ServiceChanges(a, v, u, p)
      PROVE  SignalsOnlyRemove
  BY <1>1 DEF ServiceChanges, OnUserChanged, SignalsOnlyRemove
<1>2. ASSUME NEW uid \in Hideable, HideItem(uid)
      PROVE  SignalsOnlyRemove
  BY <1>2 DEF HideItem, OnItemHidden, SignalsOnlyRemove
<1>3. UNCHANGED <<service_vars, banned>> => SignalsOnlyRemove
  BY DEF SignalsOnlyRemove
<1> QED
  BY <1>1, <1>2, <1>3
  DEF Next, OpenView, StartView, RefreshView, StopView, CloseView, ResultReceived,
      TimelineReceived, IndexReceived, PartReceived, ImageReceived, CallFails, vars

\* What may become of a banned entry that is not among what was gathered.
StaysAway(uid) ==
  /\ uid \in contents' => uid \in contents
  /\ uid \in cache' => uid \in cache
  /\ uid \notin Gathered'

\* A new request brings nothing along: its calls are about nobody yet.
LEMMA RequestStaysAway ==
  ASSUME NEW uid, uid \notin Gathered, Request \/ NoRequest
  PROVE  uid \notin Gathered'
<1>1. CASE NoRequest
  BY <1>1 DEF NoRequest, Gathered
<1>2. CASE Request
  <2>1. FirstCall.about = {} /\ Unsent.about = {}
    BY DEF FirstCall, Unsent
  <2>2. calls' \subseteq calls \cup {FirstCall, Unsent}
    BY <1>2 DEF Request
  <2>3. collected' \in {{}, collected}
    BY <1>2 DEF Request, Cancelled
  <2> QED
    BY <2>1, <2>2, <2>3 DEF Gathered
<1> QED
  BY <1>1, <1>2

LEMMA ReplyStaysAway ==
  ASSUME NEW uid \in banned, uid \notin Gathered, view.filters,
         NEW c \in calls, NEW S \in SUBSET EntriesOf(c.user),
         ResultReceived(c, S) \/ TimelineReceived(c, S) \/ IndexReceived(c, S)
  PROVE  StaysAway(uid)
<1>1. uid \notin Passed(S)
  BY DEF Passed
<1>2. CASE ResultReceived(c, S)
  <2>1. uid \notin c.about
    BY <1>2 DEF ResultReceived, Gathered
  <2>2. calls' \subseteq calls /\ UNCHANGED collected
    BY <1>2 DEF ResultReceived, Answered
  <2>3. uid \notin Gathered'
    BY <2>2 DEF Gathered
  <2> QED
    BY <1>1, <1>2, <2>1, <2>3 DEF ResultReceived, Report, StaysAway
<1>3. CASE TimelineReceived(c, S)
  <2> DEFINE next == [kind |-> "result", about |-> Passed(S),
                      user |-> IF user = NoAccount THEN c.user ELSE user]
  <2>1. calls' \subseteq calls \cup {next}
    BY <1>3 DEF TimelineReceived, Answered
  <2>2. uid \notin next.about
    BY <1>1
  <2>3. UNCHANGED <<collected, contents, cache>>
    BY <1>3 DEF TimelineReceived
  <2> HIDE DEF next
  <2> QED
    BY <2>1, <2>2, <2>3 DEF Gathered, StaysAway
<1>4. CASE IndexReceived(c, S)
  <2>1. \A d \in calls' : d \in calls \/ d.kind = "part"
    BY <1>4 DEF IndexReceived, Answered
  <2> QED
    BY <1>4, <2>1 DEF IndexReceived, Gathered, StaysAway
<1> QED
  BY <1>2, <1>3, <1>4

LEMMA PartStaysAway ==
  ASSUME NEW uid \in banned, uid \notin Gathered, view.filters,
         NEW c \in calls, NEW S \in SUBSET c.about, NEW i \in BOOLEAN,
         PartReceived(c, S, i) \/ ImageReceived(c)
  PROVE  StaysAway(uid)
<1>1. PICK all \in {collected \cup Passed(S), collected} : UpdateIfDone(all)
  BY DEF PartReceived, ImageReceived
<1>2. uid \notin all
  BY <1>1 DEF Passed, Gathered
<1>3. \A d \in calls' : d \in calls \/ d.kind = "image"
  BY DEF PartReceived, ImageReceived
<1> QED
  BY <1>1, <1>2, <1>3 DEF UpdateIfDone, Report, Gathered, StaysAway

LEMMA StepStaysAway ==
  ASSUME NEW uid \in banned, uid \notin Gathered, view.filters, [Next]_vars
  PROVE  StaysAway(uid)
<1>1. ASSUME NEW a \in Account \cup {NoAccount},
             NEW v \in BOOLEAN, NEW u \in BOOLEAN, NEW p \in BOOLEAN,
             ServiceChanges(a, v, u, p)
      PROVE  StaysAway(uid)
  <2>1. Request \/ NoRequest
    BY <1>1 DEF ServiceChanges, OnCapabilitiesChanged
  <2> QED
    BY <1>1, <2>1, RequestStaysAway DEF ServiceChanges, OnUserChanged, StaysAway
<1>2. CASE StartView \/ RefreshView
  <2>1. Request \/ NoRequest
    BY <1>2 DEF StartView, RefreshView
  <2>2. uid \in contents' => uid \in contents
    BY <1>2 DEF StartView, RefreshView, FromCache
  <2> QED
    BY <1>2, <2>1, <2>2, RequestStaysAway DEF StartView, RefreshView, StaysAway
<1>3. CASE OpenView \/ StopView \/ CloseView
  BY <1>3 DEF OpenView, StopView, CloseView, Gathered, StaysAway
<1>4. CASE UNCHANGED vars \/ \E h \in Hideable : HideItem(h)
  BY <1>4 DEF HideItem, OnItemHidden, vars, Gathered, StaysAway
<1>5. CASE \E c \in calls : \E S \in SUBSET EntriesOf(c.user) :
             ResultReceived(c, S) \/ TimelineReceived(c, S) \/ IndexReceived(c, S)
  BY <1>5, ReplyStaysAway
<1>6. CASE \E c \in calls :
             \/ \E S \in SUBSET c.about, i \in BOOLEAN : PartReceived(c, S, i)
             \/ ImageReceived(c)
  <2>1. \A c \in calls : {} \in SUBSET c.about
    OBVIOUS
  <2> QED
    BY <1>6, <2>1, PartStaysAway
<1>7. CASE \E c \in calls : CallFails(c)
  BY <1>7 DEF CallFails, Gathered, StaysAway
<1> QED
  BY <1>1, <1>2, <1>3, <1>4, <1>5, <1>6, <1>7 DEF Next

\* A hidden entry that comes back, in the view or in its cache, was gathered before
\* it was hidden: the ban list is asked on every other way in, by every class that
\* asks it at all; and what the service says puts no entry in.
THEOREM NothingElseComesBack == Spec => HiddenReturnsOnlyGathered
<1> DEFINE Returns == /\ SignalsOnlyRemove
                      /\ view.filters =>
                           \A uid \in banned :
                             \/ uid \in Gathered
                             \/ /\ uid \in contents' => uid \in contents
                                /\ uid \in cache' => uid \in cache
                                /\ uid \notin Gathered'
<1>1. [Next]_vars => Returns
  BY SignalsNeverAdd, StepStaysAway DEF StaysAway
<1>2. [Next]_vars => [Returns]_vars
  BY <1>1
<1> QED
  BY <1>2, PTL DEF Spec, HiddenReturnsOnlyGathered

=============================================================================
