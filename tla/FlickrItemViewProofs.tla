------------------------ MODULE FlickrItemViewProofs ------------------------
(***************************************************************************)
(* Proofs about FlickrItemView for any accounts, photos and views.         *)
(* HiddenNotShown is inductive next to the types: every way into a view    *)
(* passes through Allowed, a new ban empties every view of its photo, and  *)
(* the step that forgets bans, a restart, leaves nothing in a view.        *)
(***************************************************************************)
EXTENDS FlickrItemView, TLAPS

LEMMA InitTypeOK == ASSUME Init PROVE TypeOK
<1>1. contents \in [View -> SUBSET Photo]
  BY DEF Init
<1>2. configured \in BOOLEAN /\ caps \in {"unconfigured", "valid", "invalid"}
  BY DEF Init, Service!Init
<1> QED
  BY <1>1, <1>2 DEF Init, TypeOK, Everywhere

\* The service's signals keep the types, whichever verdict comes with them.
LEMMA SignalsTypeOK ==
  ASSUME TypeOK, ServiceConfigured \/ ServiceForgets \/ ServiceJudged
  PROVE  TypeOK'
<1>1. /\ configured' \in BOOLEAN /\ caps' \in {"unconfigured", "valid", "invalid"}
      /\ user' \in Account \cup {NoAccount}
  BY DEF TypeOK, ServiceConfigured, ServiceForgets, ServiceJudged,
     Service!Configure, Service!Forget, Service!Judge, Service!Verdict
<1>2. /\ polling' \subseteq open' /\ lookups' \subseteq open'
      /\ open' = open /\ requests' = requests
  BY DEF TypeOK, ServiceConfigured, ServiceForgets, ServiceJudged,
     OnCapabilitiesChanged
<1>3. /\ contents' \in [View -> SUBSET Photo] /\ cache' \subseteq Photo
  BY DEF TypeOK, ServiceConfigured, ServiceForgets, ServiceJudged,
     OnUserChanged
<1>4. UNCHANGED <<keyring, ban_vars>>
  BY DEF ServiceConfigured, ServiceForgets, ServiceJudged
<1> QED
  BY <1>1, <1>2, <1>3, <1>4 DEF TypeOK, ban_vars

LEMMA ViewTypeOK ==
  ASSUME TypeOK, NEW v \in View,
         \/ OpenView(v) \/ StartView(v) \/ RefreshView(v) \/ StopView(v)
         \/ LookupDone(v) \/ CloseView(v)
         \/ \E a \in Account : RequestFails(v, a)
  PROVE  TypeOK'
<1>1. /\ polling' \subseteq open' /\ lookups' \subseteq open' /\ open' \subseteq View
  BY DEF TypeOK, OpenView, StartView, RefreshView, StopView, LookupDone,
     CloseView, RequestFails
<1>2. requests' \subseteq open' \X Account
  <2>1. CASE LookupDone(v)
    BY <2>1 DEF TypeOK, LookupDone
  <2>2. CASE CloseView(v)
    <3>1. ASSUME NEW r \in requests, r[1] # v
          PROVE  r \in (open \ {v}) \X Account
      BY <3>1 DEF TypeOK
    <3> QED
      BY <2>2, <3>1 DEF CloseView
  <2>3. CASE OpenView(v)
    BY <2>3 DEF TypeOK, OpenView
  <2>4. CASE StartView(v) \/ RefreshView(v) \/ StopView(v)
             \/ \E a \in Account : RequestFails(v, a)
    <3>1. requests' \subseteq requests /\ open' = open
      BY <2>4 DEF StartView, RefreshView, StopView, RequestFails
    <3> QED
      BY <3>1 DEF TypeOK
  <2> QED
    BY <2>1, <2>2, <2>3, <2>4
<1>3. contents' \in [View -> SUBSET Photo]
  BY DEF TypeOK, OpenView, StartView, RefreshView, StopView, LookupDone,
     CloseView, RequestFails, LoadFromCache, SetFromSet, Allowed
<1>4. UNCHANGED <<service_vars, keyring, cache, ban_vars>>
  BY DEF OpenView, StartView, RefreshView, StopView, LookupDone, CloseView,
     RequestFails
<1> QED
  BY <1>1, <1>2, <1>3, <1>4 DEF TypeOK, service_vars, ban_vars

LEMMA PhotosTypeOK ==
  ASSUME TypeOK, NEW v \in View, NEW a \in Account, NEW S \in SUBSET Photo,
         NEW ready, PhotosReceived(v, a, S, ready)
  PROVE  TypeOK'
<1>1. contents' \in [View -> SUBSET Photo] /\ cache' \subseteq Photo
  BY DEF TypeOK, PhotosReceived, SetFromSet, Allowed, CacheSave
<1> QED
  BY <1>1 DEF TypeOK, PhotosReceived, service_vars, ban_vars

LEMMA StepTypeOK == ASSUME TypeOK, [Next]_vars PROVE TypeOK'
<1>1. CASE \E a \in Account \cup {NoAccount} : KeyringChanges(a)
  BY <1>1 DEF TypeOK, KeyringChanges, ban_vars
<1>2. CASE \E uid \in Photo : HideItem(uid)
  <2>1. PICK uid \in Photo : HideItem(uid)
    BY <1>2
  <2>2. contents' \in [View -> SUBSET Photo]
    BY <2>1 DEF TypeOK, HideItem, OnItemHidden
  <2>3. banned' \subseteq Photo /\ hidden' \subseteq Photo
    BY <2>1 DEF TypeOK, HideItem
  <2>4. ban_file' \in (SUBSET banned') \cup {ban_file} /\ whole' \subseteq Everywhere
    BY <2>1 DEF TypeOK, HideItem, SaveBans, Everywhere
  <2>5. ban_file' \subseteq Photo
    BY <2>3, <2>4 DEF TypeOK
  <2> QED
    BY <2>1, <2>2, <2>3, <2>4, <2>5 DEF TypeOK, HideItem, service_vars
<1>3. CASE Restart
  <2>1. contents' \in [View -> SUBSET Photo]
    BY <1>3 DEF Restart
  <2>2. banned' \subseteq Photo /\ whole' \subseteq Everywhere
    BY <1>3 DEF TypeOK, Restart, LoadBans, Everywhere
  <2> QED
    BY <1>3, <2>1, <2>2 DEF TypeOK, Restart
<1>4. CASE UNCHANGED vars
  BY <1>4 DEF vars, service_vars, ban_vars, TypeOK
<1> QED
  BY <1>1, <1>2, <1>3, <1>4, SignalsTypeOK, ViewTypeOK, PhotosTypeOK DEF Next

\* Every variable keeps its type: only open views poll, look up or have calls.
THEOREM TypeCorrect == Spec => []TypeOK
BY InitTypeOK, StepTypeOK, PTL DEF Spec

-----------------------------------------------------------------------------
LEMMA StepHidden ==
  ASSUME TypeOK, HiddenNotShown, [Next]_vars
  PROVE  HiddenNotShown'
<1>1. CASE ServiceConfigured \/ ServiceForgets \/ ServiceJudged
  BY <1>1 DEF HiddenNotShown, ServiceConfigured, ServiceForgets, ServiceJudged,
     OnUserChanged, ban_vars
<1>2. ASSUME NEW v \in View, StartView(v)
      PROVE  HiddenNotShown'
  BY <1>2 DEF TypeOK, HiddenNotShown, StartView, LoadFromCache, SetFromSet, Allowed,
     ban_vars
<1>3. ASSUME NEW v \in View, NEW a \in Account, NEW S, NEW ready,
             PhotosReceived(v, a, S, ready)
      PROVE  HiddenNotShown'
  BY <1>3 DEF TypeOK, HiddenNotShown, PhotosReceived, SetFromSet, Allowed,
     ban_vars
<1>4. ASSUME NEW v \in View, CloseView(v)
      PROVE  HiddenNotShown'
  BY <1>4 DEF TypeOK, HiddenNotShown, CloseView, ban_vars
<1>5. ASSUME NEW uid \in Photo, HideItem(uid)
      PROVE  HiddenNotShown'
  BY <1>5 DEF HiddenNotShown, HideItem, OnItemHidden
<1>6. CASE Restart
  BY <1>6 DEF HiddenNotShown, Restart
<1>7. ASSUME UNCHANGED <<contents, banned>>
      PROVE  HiddenNotShown'
  BY <1>7 DEF HiddenNotShown
<1>8. ASSUME NEW v \in View,
             \/ OpenView(v) \/ RefreshView(v) \/ StopView(v) \/ LookupDone(v)
             \/ \E a \in Account : RequestFails(v, a)
      PROVE  UNCHANGED <<contents, banned>>
  BY <1>8 DEF OpenView, RefreshView, StopView, LookupDone, RequestFails,
     ban_vars
<1>9. ASSUME (\E a \in Account \cup {NoAccount} : KeyringChanges(a)) \/ UNCHANGED vars
      PROVE  UNCHANGED <<contents, banned>>
  BY <1>9 DEF KeyringChanges, vars, ban_vars
<1> QED
  BY <1>1, <1>2, <1>3, <1>4, <1>5, <1>6, <1>7, <1>8, <1>9 DEF Next

\* An item that was hidden while the daemon runs is in no view: neither a reply
\* that was on its way nor the cache file, which still holds it, brings it back.
THEOREM HiddenStaysHidden == Spec => []HiddenNotShown
<1>1. Init => HiddenNotShown
  BY DEF Init, HiddenNotShown
<1> QED
  BY <1>1, StepHidden, TypeCorrect, PTL DEF Spec

-----------------------------------------------------------------------------
\* By the reads and writes that succeeded, what was ever hidden is all in memory, or
\* all on disk.
BansAreWhole ==
  /\ "list" \in whole => banned = hidden
  /\ "file" \in whole => ban_file = hidden

LEMMA StepBans == ASSUME BansAreWhole, [Next]_vars PROVE BansAreWhole'
<1>1. ASSUME NEW uid \in Photo, HideItem(uid) PROVE BansAreWhole'
  <2>1. CASE ban_file' = banned' /\ whole' = IF "list" \in whole THEN Everywhere ELSE {}
    BY <1>1, <2>1 DEF BansAreWhole, HideItem
  <2>2. CASE whole' = whole \cap {"list"}
    BY <1>1, <2>2 DEF BansAreWhole, HideItem
  <2> QED
    BY <1>1, <2>1, <2>2 DEF HideItem, SaveBans
<1>2. CASE Restart
  <2>1. CASE banned' = ban_file /\ whole' = IF "file" \in whole THEN Everywhere ELSE {}
    BY <1>2, <2>1 DEF BansAreWhole, Restart
  <2>2. CASE whole' = whole \cap {"file"}
    BY <1>2, <2>2 DEF BansAreWhole, Restart
  <2> QED
    BY <1>2, <2>1, <2>2 DEF Restart, LoadBans
<1>3. CASE UNCHANGED ban_vars
  BY <1>3 DEF BansAreWhole, ban_vars
<1>4. ASSUME \/ ServiceConfigured \/ ServiceForgets \/ ServiceJudged
             \/ \E a \in Account \cup {NoAccount} : KeyringChanges(a)
             \/ UNCHANGED vars
      PROVE  UNCHANGED ban_vars
  BY <1>4 DEF ServiceConfigured, ServiceForgets, ServiceJudged, KeyringChanges, vars
<1>5. ASSUME NEW v \in View,
             \/ OpenView(v) \/ StartView(v) \/ RefreshView(v) \/ StopView(v)
             \/ LookupDone(v) \/ CloseView(v)
             \/ \E a \in Account : RequestFails(v, a)
             \/ \E a \in Account, S, ready \in SUBSET Photo :
                  PhotosReceived(v, a, S, ready)
      PROVE  UNCHANGED ban_vars
  BY <1>5 DEF OpenView, StartView, RefreshView, StopView, LookupDone,
     CloseView, RequestFails, PhotosReceived
<1> QED
  BY <1>1, <1>2, <1>3, <1>4, <1>5 DEF Next

\* What was ever hidden is in no view, over any restarts and whatever is still in the
\* cache file or on its way, unless the list of bans was read in part, or from a file
\* that the last save had not written whole.
THEOREM BansOutliveTheDaemon == Spec => []HiddenReturnsByFaultOnly
<1>1. Init => BansAreWhole
  BY DEF Init, BansAreWhole
<1>2. BansAreWhole /\ HiddenNotShown => HiddenReturnsByFaultOnly
  BY DEF BansAreWhole, HiddenNotShown, HiddenReturnsByFaultOnly
<1> QED
  BY <1>1, <1>2, StepBans, HiddenStaysHidden, PTL DEF Spec

-----------------------------------------------------------------------------
LEMMA StepSignals ==
  ASSUME TypeOK, [Next]_vars
  PROVE  SignalsOnlyRemove
<1> SUFFICES ASSUME service_vars' # service_vars
             PROVE  /\ \A v \in View : contents'[v] \subseteq contents[v]
                    /\ cache' \subseteq cache
  BY DEF SignalsOnlyRemove
<1>1. CASE ServiceConfigured \/ ServiceForgets \/ ServiceJudged
  BY <1>1 DEF ServiceConfigured, ServiceForgets, ServiceJudged, OnUserChanged
<1>2. CASE Restart
  BY <1>2 DEF Restart
<1>3. CASE \E a \in Account \cup {NoAccount} : KeyringChanges(a)
  BY <1>3 DEF KeyringChanges
<1>4. ASSUME NEW v \in View,
             \/ OpenView(v) \/ StartView(v) \/ RefreshView(v) \/ StopView(v)
             \/ LookupDone(v) \/ CloseView(v)
             \/ \E a \in Account : RequestFails(v, a)
             \/ \E a \in Account, S, ready \in SUBSET Photo :
                  PhotosReceived(v, a, S, ready)
      PROVE  UNCHANGED service_vars
  BY <1>4 DEF OpenView, StartView, RefreshView, StopView, LookupDone,
     CloseView, RequestFails, PhotosReceived
<1>5. ASSUME NEW uid \in Photo, HideItem(uid)
      PROVE  UNCHANGED service_vars
  BY <1>5 DEF HideItem
<1>6. CASE UNCHANGED vars
  BY <1>6 DEF vars
<1> QED
  BY <1>1, <1>2, <1>3, <1>4, <1>5, <1>6 DEF Next

\* The conjuncts of RefilledByOneAnswer about the views and the cache.
Refilled ==
  /\ \A v \in View : \/ contents'[v] \subseteq contents[v]
                    \/ contents'[v] \subseteq Allowed(cache)
                    \/ Brings(v, contents'[v])
  /\ cache' \subseteq cache \/ \E v \in View : Brings(v, cache')

\* A reply replaces what its view holds, and the cache, with photos of the account
\* that signed the call.
LEMMA ReplyRefills ==
  ASSUME TypeOK, NEW v \in View, NEW a \in Account, NEW S \in SUBSET PhotosOf[a],
         NEW ready, PhotosReceived(v, a, S, ready)
  PROVE  Refilled
<1>1. \A T \in SUBSET Allowed(S) : Brings(v, T)
  BY DEF PhotosReceived, Brings, Allowed
<1>2. contents'[v] = Allowed(S) /\ \A w \in View \ {v} : contents'[w] = contents[w]
  BY DEF PhotosReceived, SetFromSet, TypeOK
<1>3. cache' \subseteq Allowed(S) \/ cache' = cache
  BY DEF PhotosReceived, CacheSave
<1> QED
  BY <1>1, <1>2, <1>3 DEF Refilled

LEMMA StepRefills ==
  ASSUME TypeOK, [Next]_vars
  PROVE  Refilled
<1>1. CASE ServiceConfigured \/ ServiceForgets \/ ServiceJudged \/ Restart
  BY <1>1 DEF ServiceConfigured, ServiceForgets, ServiceJudged, Restart, OnUserChanged,
     Refilled
<1>2. ASSUME NEW v \in View, StartView(v)
      PROVE  Refilled
  BY <1>2 DEF TypeOK, StartView, LoadFromCache, SetFromSet, Refilled
<1>3. ASSUME NEW v \in View, CloseView(v)
      PROVE  Refilled
  BY <1>3 DEF TypeOK, CloseView, Refilled
<1>4. CASE \E uid \in Photo : HideItem(uid)
  BY <1>4 DEF HideItem, OnItemHidden, Refilled
<1>5. CASE UNCHANGED <<contents, cache>>
  BY <1>5 DEF Refilled
<1>6. ASSUME NEW v \in View,
             \/ OpenView(v) \/ RefreshView(v) \/ StopView(v) \/ LookupDone(v)
             \/ \E a \in Account : RequestFails(v, a)
      PROVE  UNCHANGED <<contents, cache>>
  BY <1>6 DEF OpenView, RefreshView, StopView, LookupDone, RequestFails
<1>7. ASSUME (\E a \in Account \cup {NoAccount} : KeyringChanges(a)) \/ UNCHANGED vars
      PROVE  UNCHANGED <<contents, cache>>
  BY <1>7 DEF KeyringChanges, vars
<1> QED
  BY <1>1, <1>2, <1>3, <1>4, <1>5, <1>6, <1>7, ReplyRefills DEF Next

\* What the service signals (a user change, new capabilities) puts nothing into a
\* view or the cache, and what else does replaces it as a whole, with one answer to
\* a call that the view waits for or with the cache file, and leaves out what is
\* hidden.
THEOREM AnswersRefill == Spec => RefilledByOneAnswer
<1> DEFINE Step == /\ SignalsOnlyRemove
                   /\ \A v \in View : \/ contents'[v] \subseteq contents[v]
                                      \/ contents'[v] \subseteq Allowed(cache)
                                      \/ Brings(v, contents'[v])
                   /\ cache' \subseteq cache \/ \E v \in View : Brings(v, cache')
<1>1. TypeOK /\ [Next]_vars => Step
  BY StepSignals, StepRefills DEF Refilled
<1>2. TypeOK /\ [Next]_vars => [Step]_vars
  BY <1>1
<1> QED
  BY <1>2, TypeCorrect, PTL DEF Spec, RefilledByOneAnswer

-----------------------------------------------------------------------------
\* Every view holds the photos of one account, and so does the cache file.
OfOneAccount(S) == S # {} => \E a \in Account : S \subseteq PhotosOf[a]
AccountsStayApart == OfOneAccount(cache) /\ \A v \in View : OfOneAccount(contents[v])

\* The account may change, somebody else log in, and the daemon be restarted, while
\* calls are in flight and the cache file is shared: no view and no cache file ever
\* mixes the photos of two accounts.
THEOREM AccountsAreKeptApart == Spec => []AccountsStayApart
<1>1. Init => AccountsStayApart
  BY DEF Init, AccountsStayApart, OfOneAccount
<1>2. TypeOK /\ AccountsStayApart /\ [Next]_vars => AccountsStayApart'
  <2> SUFFICES ASSUME TypeOK, AccountsStayApart, [Next]_vars
               PROVE  AccountsStayApart'
    OBVIOUS
  <2>1. Refilled
    BY StepRefills
  <2>2. \A S, T : S \subseteq T /\ OfOneAccount(T) => OfOneAccount(S)
    BY DEF OfOneAccount
  <2>3. OfOneAccount(Allowed(cache))
    BY <2>2 DEF AccountsStayApart, Allowed
  <2>4. \A v \in View : \A S : Brings(v, S) => OfOneAccount(S)
    BY DEF Brings, Allowed, OfOneAccount
  <2>5. OfOneAccount(cache')
    BY <2>1, <2>2, <2>4 DEF Refilled, AccountsStayApart
  <2>6. ASSUME NEW v \in View PROVE OfOneAccount(contents'[v])
    BY <2>1, <2>2, <2>3, <2>4 DEF Refilled, AccountsStayApart
  <2> QED
    BY <2>5, <2>6 DEF AccountsStayApart, OfOneAccount
<1> QED
  BY <1>1, <1>2, TypeCorrect, PTL DEF Spec
=============================================================================
