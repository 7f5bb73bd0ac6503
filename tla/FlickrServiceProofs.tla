------------------------- MODULE FlickrServiceProofs -------------------------
(***************************************************************************)
(* Proofs about FlickrService for any tokens, views, proxies and bounds.   *)
(* IInv is inductive: SilentDropIsTransient needs ConfiguredIsAnnounced    *)
(* for the network notice of an unconfigured service, which starts no      *)
(* lookup, and the types make every count that is added to positive.       *)
(* UnsignedForAWhile needs TokenForAWhile, for the check that is answered    *)
(* while the manager has no token, and ConfiguredHasProxy, for the copy.     *)
(***************************************************************************)
EXTENDS FlickrService, TLAPS

\* A lookup of the service is on its way, or there has been a view.
Excused ==
  \/ \E a \in Answer : lookups[Service][a] > 0
  \/ \E v \in View : view[v] # "unopened"

\* A configured service has a proxy: the ones of an earlier configuration stay until new
\* ones are there, over every logout between.
ConfiguredHasProxy == configured => service_proxy # NoProxy

\* The manager of a configured service lacks the token for the same reasons as its
\* upload proxy does.
TokenForAWhile == configured /\ token = NoToken => Excused

IInv ==
  /\ TypeOK
  /\ ConfiguredIsAnnounced
  /\ GainIsAnnounced
  /\ SilentDropIsTransient
  /\ ConfiguredHasProxy
  /\ TokenForAWhile
  /\ UnsignedForAWhile

Bag == [Owner -> [Answer -> 0 .. MaxLookups]]

-----------------------------------------------------------------------------
(* The bookkeeping of lookups.                                             *)

\* An answer takes one lookup of its owner away and no other.
LEMMA AnsweredTyped ==
  ASSUME TypeOK, NEW o \in Owner, NEW a \in Answer, lookups[o][a] > 0
  PROVE  /\ Answered(o, a) \in Bag
         /\ \A q \in Owner, b \in Answer : Answered(o, a)[q][b] <= lookups[q][b]
         /\ \A q \in Owner : q # o => Answered(o, a)[q] = lookups[q]
BY BoundAssumption DEF TypeOK, Answered, Bag

\* A load within the bound adds to the lookups of the loading owners only.
LEMMA LoadTyped ==
  ASSUME keyring \in Answer, NEW bag \in Bag, NEW O \in SUBSET Owner,
         \A o \in O : bag[o][keyring] < MaxLookups
  PROVE  /\ Load(bag, O) \in Bag
         /\ \A o \in Owner, a \in Answer : Load(bag, O)[o][a] >= bag[o][a]
         /\ \A o \in O : Load(bag, O)[o][keyring] > 0
BY BoundAssumption DEF Load, Bag

\* Freeing proxies keeps the table of proxy tokens typed.
LEMMA FreedTyped ==
  ASSUME TypeOK, NEW own, NEW theirs
  PROVE  Freed(own, theirs) \in [Proxy -> Answer \cup {Garbage}]
BY DEF TypeOK, Freed, Answer

-----------------------------------------------------------------------------
LEMMA InitIInv == ASSUME Init PROVE IInv
<1>1. lookups \in Bag /\ checks \in [Token -> 0 .. MaxChecks]
  BY BoundAssumption DEF Init, Bag
<1>2. /\ keyring \in Answer /\ token \in Answer
      /\ online \in BOOLEAN /\ notices \in 0 .. MaxNotices
      /\ configured \in BOOLEAN /\ authorised \in BOOLEAN
      /\ caps \in {"unconfigured", "valid", "invalid"}
  <2>1. /\ keyring \in Answer /\ token \in Answer
        /\ caps \in {"unconfigured", "valid", "invalid"}
    BY DEF Init, Answer
  <2>2. notices \in 0 .. MaxNotices
    BY BoundAssumption DEF Init
  <2>3. online \in BOOLEAN /\ configured \in BOOLEAN /\ authorised \in BOOLEAN
    BY Zenon DEF Init
  <2> QED
    BY <2>1, <2>2, <2>3
<1>3. /\ service_proxy \in Proxy \cup {NoProxy}
      /\ upload_token \in Answer \cup {NoProxy}
      /\ proxy_token \in [Proxy -> Answer \cup {Garbage}]
  BY DEF Init, Answer
<1>4. /\ view \in [View -> {"unopened", "open", "closed"}]
      /\ held \in [View -> Proxy \cup {NoProxy}]
      /\ polling \subseteq Open
  BY DEF Init
<1>5. TypeOK
  BY <1>1, <1>2, <1>3, <1>4 DEF TypeOK, Bag
<1> QED
  BY <1>5 DEF Init, IInv, ConfiguredIsAnnounced, GainIsAnnounced,
     SilentDropIsTransient, ConfiguredHasProxy, TokenForAWhile, UnsignedForAWhile

\* The whole of IInv by one handler at a time.
LEMMA ServiceLookupStep ==
  ASSUME IInv, NEW a \in Answer, ServiceLookupDone(a)
  PROVE  IInv'
<1> DEFINE found    == a # NoToken
           c        == CapsOf(found, authorised)
           emits    == AnnounceLookup(found)
           loading  == IF emits THEN Reloading(c) ELSE {}
           now      == TokenAfterLoad(IF found THEN a ELSE token, loading)
           checking == NeedsCheck(found)
           refused  == checking /\ Refused(now)
           last     == IF refused THEN "invalid" ELSE c
<1>0. /\ lookups[Service][a] > 0
      /\ CanLoad(loading)
      /\ checking /\ ~refused => checks[now] < MaxChecks
      /\ lookups' = Load(Answered(Service, a), loading)
      /\ token' = now
      /\ configured' = found
      /\ authorised' = FALSE
      /\ checks' = IF checking /\ ~refused THEN Checking(now) ELSE checks
      /\ IF emits \/ refused
           THEN caps' = last /\ polling' = PollingAfter(last)
           ELSE UNCHANGED <<caps, polling>>
      /\ IF found THEN NewProxies
                  ELSE UNCHANGED <<service_proxy, upload_token, proxy_token>>
      /\ UNCHANGED <<keyring, online, notices, view, held>>
  BY DEF ServiceLookupDone
<1>1. TypeOK /\ loading \in SUBSET Owner /\ now \in Answer
  BY DEF IInv, TypeOK, Reloading, Open, Owner, TokenAfterLoad, Answer
<1>2. lookups' \in Bag
  <2>1. Service \in Owner
    BY DEF Owner
  <2>2. /\ Answered(Service, a) \in Bag
        /\ \A q \in Owner, b \in Answer :
             Answered(Service, a)[q][b] <= lookups[q][b]
    BY <1>0, <1>1, <2>1, AnsweredTyped
  <2> HIDE DEF loading
  <2>3. ASSUME NEW o \in loading
        PROVE  Answered(Service, a)[o][keyring] < MaxLookups
    BY <1>0, <1>1, <2>2, BoundAssumption DEF CanLoad, TypeOK, Bag
  <2> QED
    BY <1>0, <1>1, <2>2, <2>3, LoadTyped DEF TypeOK
<1>3. checks' \in [Token -> 0 .. MaxChecks]
  BY <1>0, <1>1, BoundAssumption DEF TypeOK, Checking, Refused, Answer
<1>4. /\ service_proxy' \in Proxy \cup {NoProxy}
      /\ upload_token' \in Answer \cup {NoProxy}
      /\ proxy_token' \in [Proxy -> Answer \cup {Garbage}]
      /\ found => service_proxy' \in Proxy
  <2>1. CASE found
    <3>1. PICK p \in Proxy : /\ service_proxy' = p /\ upload_token' = NoToken
                             /\ proxy_token' = Freed(p, held)
      BY <1>0, <2>1 DEF NewProxies
    <3> QED
      BY <1>1, <3>1, FreedTyped DEF Answer
  <2>2. CASE ~found
    BY <1>0, <1>1, <2>2 DEF TypeOK
  <2> QED
    BY <2>1, <2>2
<1>5. /\ caps' \in {"unconfigured", "valid", "invalid"}
      /\ polling' \subseteq Open'
  BY <1>0, <1>1 DEF TypeOK, CapsOf, PollingAfter, Open
<1>6. TypeOK'
  BY <1>0, <1>1, <1>2, <1>3, <1>4, <1>5 DEF TypeOK, Bag
<1>7. ConfiguredIsAnnounced'
  BY <1>0 DEF IInv, ConfiguredIsAnnounced, AnnounceLookup, NeedsCheck, CapsOf,
     TypeOK
<1>8. SilentDropIsTransient'
  <2>1. SUFFICES ASSUME caps' = "valid", online'
                 PROVE  \E t \in Token : checks'[t] > 0
    BY DEF SilentDropIsTransient
  <2>2. found /\ checking /\ ~refused
    BY <1>0, <1>7, <2>1 DEF NeedsCheck, ConfiguredIsAnnounced
  <2>3. now \in Token /\ checks'[now] = checks[now] + 1
    BY <1>0, <1>1, <2>2 DEF TypeOK, Checking, Refused, Answer
  <2> QED
    BY <1>1, <2>3 DEF TypeOK
<1>9. GainIsAnnounced' /\ ConfiguredHasProxy'
  BY <1>0, <1>4, ProxyAssumption DEF GainIsAnnounced, ConfiguredHasProxy
<1>10. UnsignedForAWhile'
  BY <1>0 DEF UnsignedForAWhile
<1>11. TokenForAWhile'
  <2>1. SUFFICES ASSUME found, now = NoToken PROVE \E v \in View : view'[v] # "unopened"
    BY <1>0 DEF TokenForAWhile, Excused
  <2>2. loading # {}
    BY <2>1 DEF TokenAfterLoad
  <2> QED
    BY <1>0, <2>2 DEF Reloading, Open
<1> QED
  BY <1>6, <1>7, <1>8, <1>9, <1>10, <1>11 DEF IInv

LEMMA CheckStep ==
  ASSUME IInv, NEW t \in Token, NEW ok \in BOOLEAN, CheckDone(t, ok)
  PROVE  IInv'
<1> DEFINE c       == CapsOf(configured, ok)
           loading == Reloading(c)
<1>0. /\ checks[t] > 0
      /\ CanLoad(loading)
      /\ checks' = [checks EXCEPT ![t] = @ - 1]
      /\ authorised' = ok
      /\ IF ok THEN SetTokens ELSE UNCHANGED <<upload_token, proxy_token>>
      /\ caps' = c /\ polling' = PollingAfter(c)
      /\ lookups' = Load(lookups, loading)
      /\ token' = TokenAfterLoad(token, loading)
      /\ UNCHANGED <<keyring, online, notices, configured, service_proxy, view,
                     held>>
  BY DEF CheckDone, AnnounceCheck
<1>1. TypeOK /\ loading \in SUBSET Owner
  BY DEF IInv, Reloading, Open, Owner
<1>2. lookups' \in Bag
  BY <1>0, <1>1, LoadTyped DEF TypeOK, Bag, CanLoad
<1>3. checks' \in [Token -> 0 .. MaxChecks]
  BY <1>0, <1>1, BoundAssumption DEF TypeOK
<1>4. /\ upload_token' \in Answer \cup {NoProxy}
      /\ proxy_token' \in [Proxy -> Answer \cup {Garbage}]
  BY <1>0, <1>1 DEF TypeOK, SetTokens
<1>5. /\ caps' \in {"unconfigured", "valid", "invalid"}
      /\ token' \in Answer
      /\ polling' \subseteq Open'
  BY <1>0, <1>1 DEF TypeOK, CapsOf, TokenAfterLoad, Answer, PollingAfter, Open
<1>6. TypeOK'
  BY <1>0, <1>1, <1>2, <1>3, <1>4, <1>5 DEF TypeOK, Bag
<1>7. /\ ConfiguredIsAnnounced' /\ GainIsAnnounced' /\ SilentDropIsTransient'
      /\ ConfiguredHasProxy'
  BY <1>0, <1>1 DEF IInv, ConfiguredIsAnnounced, GainIsAnnounced,
     SilentDropIsTransient, ConfiguredHasProxy, CapsOf, TypeOK
<1>8. Excused => Excused'
  <2>1. \A o \in Owner, a \in Answer : lookups'[o][a] >= lookups[o][a]
    BY <1>0, <1>1, LoadTyped DEF TypeOK, Bag, CanLoad
  <2>2. \A a \in Answer : lookups[Service][a] > 0 => lookups'[Service][a] > 0
    BY <1>1, <1>2, <2>1, BoundAssumption DEF TypeOK, Bag, Owner
  <2> QED
    BY <1>0, <2>2 DEF Excused
<1>9. TokenForAWhile'
  <2>1. CASE loading = {}
    BY <1>0, <1>8, <2>1 DEF IInv, TokenForAWhile, TokenAfterLoad
  <2>2. CASE loading # {}
    BY <1>0, <2>2 DEF TokenForAWhile, Excused, Reloading, Open
  <2> QED
    BY <2>1, <2>2
<1>10. UnsignedForAWhile'
  <2>1. SUFFICES ASSUME configured, ok, upload_token' = NoToken PROVE Excused'
    BY <1>0 DEF UnsignedForAWhile, Excused
  <2>2. token = NoToken
    BY <1>0, <2>1 DEF SetTokens, IInv, ConfiguredHasProxy
  <2> QED
    BY <1>8, <2>1, <2>2 DEF IInv, TokenForAWhile
<1> QED
  BY <1>6, <1>7, <1>9, <1>10 DEF IInv

LEMMA CredentialsUpdatedStep == ASSUME IInv, CredentialsUpdated PROVE IInv'
<1>1. TypeOK
  BY DEF IInv
<1>2. lookups' \in Bag
  BY <1>1, LoadTyped DEF CredentialsUpdated, CanLoad, TypeOK, Bag, Owner
<1>3. TypeOK'
  BY <1>1, <1>2 DEF CredentialsUpdated, TypeOK, Bag, Answer, Open
<1> QED
  BY <1>3 DEF IInv, CredentialsUpdated, ConfiguredIsAnnounced, GainIsAnnounced,
     SilentDropIsTransient, ConfiguredHasProxy, TokenForAWhile, UnsignedForAWhile

\* What going offline leaves: nobody authorised, and everybody told.
LEMMA OfflineStep ==
  ASSUME IInv, WentOffline, notices' \in 0 .. MaxNotices, online' \in BOOLEAN,
         UNCHANGED <<keyring, service_proxy, upload_token, proxy_token, view,
                     held>>
  PROVE  IInv'
<1>1. TypeOK
  BY DEF IInv
<1>2. TypeOK'
  BY <1>1 DEF WentOffline, TypeOK, CapsOf, Open
<1> QED
  BY <1>1, <1>2 DEF IInv, WentOffline, CapsOf, TypeOK, ConfiguredIsAnnounced,
     GainIsAnnounced, SilentDropIsTransient, ConfiguredHasProxy,
     TokenForAWhile, UnsignedForAWhile, Excused

LEMMA OnlineNotifyStep == ASSUME IInv, OnlineNotify PROVE IInv'
<1>1. TypeOK
  BY DEF IInv
<1>2. notices' \in 0 .. MaxNotices
  BY <1>1, BoundAssumption DEF OnlineNotify, TypeOK
<1>3. CASE ~online
  BY <1>1, <1>2, <1>3, OfflineStep DEF OnlineNotify, TypeOK
<1>4. CASE online /\ configured
  <2>1. /\ CanLoad({Service}) /\ lookups' = Load(lookups, {Service})
        /\ token' = NoToken
        /\ UNCHANGED <<keyring, online, checks, configured, authorised, caps,
                       polling, service_proxy, upload_token, proxy_token, view,
                       held>>
    BY <1>4 DEF OnlineNotify, CameOnline
  <2>2. lookups' \in Bag /\ lookups'[Service][keyring] > 0
    BY <1>1, <2>1, LoadTyped DEF CanLoad, TypeOK, Bag, Owner
  <2>3. TypeOK'
    BY <1>1, <1>2, <2>1, <2>2 DEF TypeOK, Bag, Answer, Open
  <2> QED
    BY <1>1, <2>1, <2>2, <2>3 DEF IInv, TypeOK, ConfiguredIsAnnounced,
       GainIsAnnounced, SilentDropIsTransient, ConfiguredHasProxy,
       TokenForAWhile, UnsignedForAWhile, Excused
<1>5. CASE online /\ ~configured
  <2>1. /\ UNCHANGED <<keyring, online, token, lookups, configured,
                       service_proxy, upload_token, proxy_token, view, held>>
        /\ IF Refused(token)
             THEN /\ authorised' = FALSE
                  /\ caps' = "unconfigured" /\ polling' = {}
                  /\ UNCHANGED checks
             ELSE /\ checks[token] < MaxChecks
                  /\ checks' = Checking(token)
                  /\ UNCHANGED <<authorised, caps, polling>>
    BY <1>5 DEF OnlineNotify, CameOnline
  <2>2. checks' \in [Token -> 0 .. MaxChecks]
    BY <1>1, <2>1, BoundAssumption DEF TypeOK, Checking, Refused, Answer
  <2>3. TypeOK'
    BY <1>1, <1>2, <2>1, <2>2 DEF TypeOK, Open
  <2>4. caps' = "unconfigured"
    BY <1>5, <2>1 DEF IInv, ConfiguredIsAnnounced
  <2> QED
    BY <1>5, <2>1, <2>3, <2>4 DEF IInv, ConfiguredIsAnnounced, GainIsAnnounced,
       SilentDropIsTransient, ConfiguredHasProxy, TokenForAWhile, UnsignedForAWhile
<1> QED
  BY <1>3, <1>4, <1>5

\* What a client does with a view, or what a view does with an answer, leaves
\* the service's flags, its lookups and its checks alone, and no token goes without a view.
LEMMA ViewStep ==
  ASSUME IInv, TypeOK', UNCHANGED <<online, notices, checks, service_vars>>,
         lookups'[Service] = lookups[Service],
         \A v \in View : view[v] # "unopened" => view'[v] # "unopened",
         token' = NoToken => token = NoToken \/ \E v \in View : view'[v] # "unopened"
  PROVE  IInv'
BY DEF IInv, service_vars, ConfiguredIsAnnounced, GainIsAnnounced,
   SilentDropIsTransient, ConfiguredHasProxy, TokenForAWhile, UnsignedForAWhile, Excused

\* A view that loads (StartView, RefreshView).
LEMMA ViewLoadsTyped ==
  ASSUME TypeOK, NEW v \in View, ViewLoads(v)
  PROVE  /\ lookups' \in Bag /\ lookups'[Service] = lookups[Service]
         /\ token' \in Answer
<1>1. lookups' \in Bag
  BY LoadTyped DEF ViewLoads, CanLoad, TypeOK, Bag, Owner
<1>2. lookups'[Service] = lookups[Service]
  BY ProxyAssumption DEF ViewLoads, Load, Owner
<1> QED
  BY <1>1, <1>2 DEF ViewLoads, Answer

LEMMA ClientStep ==
  ASSUME IInv, NEW v \in View,
         OpenView(v) \/ StartView(v) \/ RefreshView(v) \/ StopView(v) \/ CloseView(v)
  PROVE  IInv'
<1>1. TypeOK
  BY DEF IInv
<1>2. CASE OpenView(v)
  <2>1. TypeOK'
    BY <1>1, <1>2 DEF OpenView, TypeOK, service_vars, Open
  <2> QED
    BY <1>1, <1>2, <2>1, ViewStep DEF OpenView, TypeOK
<1>3. CASE StartView(v) \/ RefreshView(v)
  <2>1. ViewLoads(v)
    BY <1>3 DEF StartView, RefreshView
  <2>2. TypeOK'
    BY <1>1, <1>3, <2>1, ViewLoadsTyped
       DEF StartView, RefreshView, TypeOK, Bag, service_vars, Open
  <2> QED
    BY <1>1, <1>3, <2>1, <2>2, ViewStep, ViewLoadsTyped
       DEF StartView, RefreshView, Open
<1>4. CASE StopView(v)
  <2>1. TypeOK'
    BY <1>1, <1>4 DEF StopView, TypeOK, service_vars, Open
  <2> QED
    BY <1>4, <2>1, ViewStep DEF StopView
<1>5. CASE CloseView(v)
  <2>1. proxy_token' \in [Proxy -> Answer \cup {Garbage}]
    BY <1>1, <1>5, FreedTyped DEF CloseView
  <2>2. TypeOK'
    BY <1>1, <1>5, <2>1 DEF CloseView, TypeOK, service_vars, Open
  <2> QED
    BY <1>1, <1>5, <2>2, ViewStep DEF CloseView, TypeOK
<1> QED
  BY <1>2, <1>3, <1>4, <1>5

LEMMA ViewLookupStep ==
  ASSUME IInv, NEW v \in View, NEW a \in Answer, ViewLookupDone(v, a)
  PROVE  IInv'
<1>1. TypeOK
  BY DEF IInv
<1>2. lookups' \in Bag /\ lookups'[Service] = lookups[Service]
  BY <1>1, AnsweredTyped, ProxyAssumption DEF ViewLookupDone, Owner
<1>3. token' \in Answer /\ proxy_token' \in [Proxy -> Answer \cup {Garbage}]
  BY <1>1 DEF ViewLookupDone, TypeOK, Adapted
<1>4. TypeOK'
  BY <1>1, <1>2, <1>3 DEF ViewLookupDone, TypeOK, Bag, service_vars, Open
<1> QED
  BY <1>2, <1>4, ViewStep DEF ViewLookupDone

LEMMA EnvironmentStep ==
  ASSUME IInv,
         \/ NetworkConnected
         \/ NetworkDisconnected
         \/ \E a \in Answer : KeyringChanges(a)
  PROVE  IInv'
<1>1. TypeOK
  BY DEF IInv
<1>2. CASE NetworkConnected
  <2>1. notices' \in 0 .. MaxNotices /\ notices' > 0
    BY <1>1, <1>2, BoundAssumption DEF NetworkConnected, TypeOK
  <2>2. TypeOK'
    BY <1>1, <1>2, <2>1 DEF NetworkConnected, TypeOK, service_vars, Open
  <2> QED
    BY <1>2, <2>1, <2>2 DEF NetworkConnected, IInv, service_vars,
       ConfiguredIsAnnounced, GainIsAnnounced, SilentDropIsTransient,
       ConfiguredHasProxy, TokenForAWhile, UnsignedForAWhile, Excused
<1>3. CASE NetworkDisconnected
  BY <1>1, <1>3, OfflineStep DEF NetworkDisconnected, TypeOK
<1>4. CASE \E a \in Answer : KeyringChanges(a)
  <2>1. TypeOK'
    BY <1>1, <1>4 DEF KeyringChanges, TypeOK, service_vars, Open
  <2> QED
    BY <1>4, <2>1, ViewStep DEF KeyringChanges
<1> QED
  BY <1>2, <1>3, <1>4

LEMMA StepIInv == ASSUME IInv, [Next]_vars PROVE IInv'
<1>1. CASE UNCHANGED vars
  <2>1. TypeOK'
    BY <1>1 DEF vars, service_vars, IInv, TypeOK, Open
  <2> QED
    BY <1>1, <2>1, ViewStep DEF vars, service_vars
<1>2. CASE Next
  BY <1>2, ServiceLookupStep, ViewLookupStep, CheckStep, OnlineNotifyStep,
     CredentialsUpdatedStep, EnvironmentStep, ClientStep DEF Next
<1> QED
  BY <1>1, <1>2

LEMMA IInvHolds == Spec => []IInv
BY InitIInv, StepIInv, PTL DEF Spec

-----------------------------------------------------------------------------
(* The theorems.                                                           *)

\* Every variable of the service, its manager and its views keeps its type:
\* the bounds are respected and only open views poll.
THEOREM TypeCorrect == Spec => []TypeOK
<1>1. IInv => TypeOK
  BY DEF IInv
<1> QED
  BY <1>1, IInvHolds, PTL

\* A client that follows CapabilitiesChanged knows whether the service is
\* configured, and never believes credentials-invalid of a service whose
\* authorised is set (get_dynamic_caps and the handlers that emit it).
THEOREM AnnouncementsAreSound == Spec => [](ConfiguredIsAnnounced /\ GainIsAnnounced)
<1>1. IInv => ConfiguredIsAnnounced /\ GainIsAnnounced
  BY DEF IInv
<1> QED
  BY <1>1, IInvHolds, PTL

\* The silent "priv->authorised = FALSE" of _on_credentials_available is always
\* followed up while the network is there: a check, a lookup or a notice that
\* ends in an announcement is outstanding.
THEOREM SilentDropIsFollowedUp == Spec => []SilentDropIsTransient
<1>1. IInv => SilentDropIsTransient
  BY DEF IInv
<1> QED
  BY <1>1, IInvHolds, PTL

\* A configured service has its proxies: uploads and checks find them.
THEOREM ConfiguredIsUsable == Spec => []ConfiguredHasProxy
<1>1. IInv => ConfiguredHasProxy
  BY DEF IInv
<1> QED
  BY <1>1, IInvHolds, PTL

\* _on_credentials_checked copies the token that the manager has by then: an authorised
\* service whose uploads are not signed has a lookup on its way that mends it, or there
\* has been a view that loaded into the same token.
THEOREM UploadsAreSigned == Spec => []UnsignedForAWhile
<1>1. IInv => UnsignedForAWhile
  BY DEF IInv
<1> QED
  BY <1>1, IInvHolds, PTL

\* Every handler of the service is, to those who listen to its signals, one
\* step of SwServiceCaps or none.
LEMMA StepImplementsCaps ==
  ASSUME TypeOK, [Next]_vars
  PROVE  [Caps!Next]_<<configured, caps>>
<1> USE DEF Caps!Next, Caps!Configure, Caps!Forget, Caps!Judge, Caps!Verdict
<1>1. ASSUME NEW a \in Answer, ServiceLookupDone(a)
      PROVE  [Caps!Next]_<<configured, caps>>
  BY <1>1 DEF ServiceLookupDone, AnnounceLookup, NeedsCheck, CapsOf, TypeOK
<1>2. ASSUME NEW t \in Token, NEW ok \in BOOLEAN, CheckDone(t, ok)
      PROVE  [Caps!Next]_<<configured, caps>>
  BY <1>2 DEF CheckDone, AnnounceCheck, CapsOf, TypeOK
<1>3. CASE OnlineNotify
  BY <1>3 DEF OnlineNotify, CameOnline, WentOffline, CapsOf, TypeOK
<1>4. CASE CredentialsUpdated
  BY <1>4 DEF CredentialsUpdated, TypeOK
<1>5. CASE NetworkDisconnected
  BY <1>5 DEF NetworkDisconnected, WentOffline, CapsOf, TypeOK
<1>6. ASSUME UNCHANGED <<configured, caps>>
      PROVE  [Caps!Next]_<<configured, caps>>
  BY <1>6
<1>7. ASSUME NEW v \in View,
             \/ \E a \in Answer : ViewLookupDone(v, a)
             \/ OpenView(v) \/ StartView(v) \/ RefreshView(v) \/ StopView(v)
             \/ CloseView(v)
      PROVE  UNCHANGED <<configured, caps>>
  BY <1>7 DEF ViewLookupDone, OpenView, StartView, RefreshView, StopView,
     CloseView, service_vars
<1>8. ASSUME NetworkConnected \/ (\E a \in Answer : KeyringChanges(a)) \/ UNCHANGED vars
      PROVE  UNCHANGED <<configured, caps>>
  BY <1>8 DEF NetworkConnected, KeyringChanges, vars, service_vars
<1> QED
  BY <1>1, <1>2, <1>3, <1>4, <1>5, <1>6, <1>7, <1>8 DEF Next

\* The service keeps the promise its clients and views rely on: what flickr.c
\* emits is a behaviour of SwServiceCaps, whatever the network, the keyring,
\* Flickr and the views do.
THEOREM ServiceImplementsCaps == Spec => ImplementsCaps
<1>1. Init => Caps!Init
  BY DEF Init, Caps!Init
<1>2. TypeOK /\ [Next]_vars => [Caps!Next]_<<configured, caps>>
  BY StepImplementsCaps
<1> QED
  BY <1>1, <1>2, TypeCorrect, PTL DEF Spec, ImplementsCaps, Caps!Spec
=============================================================================
