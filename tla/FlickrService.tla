----------------------------- MODULE FlickrService -----------------------------
(***************************************************************************)
(* The credentials of the Flickr service (services/flickr/flickr.c), the   *)
(* credentials manager it shares with every view it opened                 *)
(* (flickr-credentials-manager.c over sw-keyfob-oauth.c), the credential   *)
(* side of those views (flickr-item-view.c) and the network notifier that  *)
(* drives them (sw-online.c with NetworkManager).                          *)
(*                                                                         *)
(* Everything runs in one main loop, so a handler is one step.  What       *)
(* interleaves is what the handlers wait for: keyring lookups of the       *)
(* service and of its views, which all write the one token of the manager, *)
(* checkToken calls, and the delayed network notices.  The build is given  *)
(* Flickr consumer keys (without them flickr_credentials_load fails at     *)
(* once and nothing below happens).                                        *)
(*                                                                         *)
(* An operator named X_Y next to X is X with a mistake that a run must find:  *)
(* it is used by no action.                                                *)
(***************************************************************************)
EXTENDS Naturals

CONSTANTS
  Token,        \* access tokens that the keyring may hold
  ValidToken,   \* those that Flickr accepts
  NoToken,      \* NULL
  Garbage,      \* what _adapt_proxy writes: the bytes of a pointer
  View,         \* the views that clients open
  Service,      \* the service as the owner of a lookup
  Proxy,        \* RestProxy objects for API calls: at least one more than
                \* the service and its open views can hold
  NoProxy,
  MaxLookups,   \* bound: lookups in flight of one owner with one answer
  MaxChecks,    \* bound: checkToken calls in flight with one token
  MaxNotices    \* bound: 1.5 s network timers that run at once

ASSUME TokenAssumption ==
  ValidToken \subseteq Token /\ NoToken \notin Token /\ Garbage \notin Token \cup {NoToken}
ASSUME ProxyAssumption ==
  Service \notin View /\ NoProxy \notin Proxy
ASSUME BoundAssumption ==
  MaxLookups \in Nat \ {0} /\ MaxChecks \in Nat \ {0} /\ MaxNotices \in Nat \ {0}

Answer == Token \cup {NoToken}
Owner == View \cup {Service}

VARIABLES
  keyring,       \* the token that the keyring holds for Flickr
  online,        \* nm_client_get_state is a connected state
  notices,       \* we_are_online timers that run
  token,         \* token and token_secret of the credentials manager
  lookups,       \* lookups[o][a]: keyring lookups of o with answer a
  checks,        \* checks[t]: checkToken calls made with t
  configured,    \* priv->configured
  authorised,    \* priv->authorised
  caps,          \* the last capabilities that were emitted
  service_proxy, \* priv->proxy
  upload_token,  \* the token of priv->upload_proxy, NoProxy before there is one
  proxy_token,   \* the token set on each RestProxy
  view,          \* "unopened", "open" or "closed"
  held,          \* the proxy of an open view
  polling        \* views with the five minute timer

service_vars == <<configured, authorised, caps, service_proxy, upload_token>>
vars == <<keyring, online, notices, token, lookups, checks, service_vars,
          proxy_token, view, held, polling>>

Open == {v \in View : view[v] = "open"}

\* get_dynamic_caps: none, or is-configured with credentials-(in)valid.
CapsOf(c, a) == IF ~c THEN "unconfigured" ELSE IF a THEN "valid" ELSE "invalid"

-----------------------------------------------------------------------------
(* What the handlers are made of.                                          *)

\* flickr_credentials_load by owners O, of the lookups in bag: the daemon
\* reads the keyring as the request arrives; answers may overtake each other.
\* The manager's token is freed first (TokenAfterLoad).
Load(bag, O) ==
  [o \in Owner |-> IF o \in O THEN [bag[o] EXCEPT ![keyring] = @ + 1]
                             ELSE bag[o]]
CanLoad(O) == \A o \in O : lookups[o][keyring] < MaxLookups
TokenAfterLoad(t, O) == IF O = {} THEN t ELSE NoToken

Answered(o, a) == [lookups EXCEPT ![o][a] = @ - 1]

\* The views' handler of capabilities-changed: on credentials-valid they load
\* the credentials and poll, otherwise they stop polling.
Reloading(c) == IF c = "valid" THEN Open ELSE {}
PollingAfter(c) == IF c = "valid" THEN Open ELSE {}

\* Proxies that nothing refers to are freed; what a fresh one holds is NoToken.
InUse(own, theirs) == {own} \cup {theirs[v] : v \in View}
Freed(own, theirs) ==
  [p \in Proxy |-> IF p \in InUse(own, theirs) THEN proxy_token[p] ELSE NoToken]

-----------------------------------------------------------------------------
Init ==
  /\ keyring \in Answer
  /\ online \in BOOLEAN
  /\ notices = 0
  /\ token = NoToken
  \* sw_service_flickr_initable calls credentials_updated
  /\ lookups = [o \in Owner |-> [a \in Answer |->
                  IF o = Service /\ a = keyring THEN 1 ELSE 0]]
  /\ checks = [t \in Token |-> 0]
  /\ configured = FALSE /\ authorised = FALSE
  /\ caps = "unconfigured"
  /\ service_proxy = NoProxy /\ upload_token = NoProxy
  /\ proxy_token = [p \in Proxy |-> NoToken]
  /\ view = [v \in View |-> "unopened"]
  /\ held = [v \in View |-> NoProxy]
  /\ polling = {}

-----------------------------------------------------------------------------
(* The service.                                                            *)

\* flickr_credentials_check with the manager's token t: without one the
\* callback runs at once and says no, with one a call goes out.
Refused(t) == t = NoToken
Checking(t) == [checks EXCEPT ![t] = @ + 1]

NewProxies ==
  \E p \in Proxy \ InUse(service_proxy, held) :
    /\ service_proxy' = p
    /\ upload_token' = NoToken
    /\ proxy_token' = Freed(p, held)

AnnounceLookup_WhenLost(found) == configured /\ ~found
\* Capabilities are emitted by _on_credentials_available only on a change.
AnnounceLookup(found) == configured # found

NeedsCheck_WhenNew(found) == found /\ online /\ ~configured
NeedsCheck(found) == found /\ online

\* _on_credentials_available, the answer a to a lookup of the service.  It
\* emits capabilities computed from the authorised of before, then clears
\* that silently, then has the token checked if the network is up.
ServiceLookupDone(a) ==
  LET found    == a # NoToken
      c        == CapsOf(found, authorised)
      emits    == AnnounceLookup(found)
      loading  == IF emits THEN Reloading(c) ELSE {}
      now      == TokenAfterLoad(IF found THEN a ELSE token, loading)
      checking == NeedsCheck(found)
      refused  == checking /\ Refused(now)
      last     == IF refused THEN "invalid" ELSE c
  IN /\ lookups[Service][a] > 0
     /\ CanLoad(loading)
     /\ checking /\ ~refused => checks[now] < MaxChecks
     /\ lookups' = Load(Answered(Service, a), loading)
     /\ token' = now
     /\ configured' = found
     /\ authorised' = FALSE
     /\ checks' = IF checking /\ ~refused THEN Checking(now) ELSE checks
     /\ IF emits \/ refused
          THEN caps' = last /\ polling' = PollingAfter(last)
          ELSE UNCHANGED <<caps, polling>>
     /\ IF found THEN NewProxies
                 ELSE UNCHANGED <<service_proxy, upload_token, proxy_token>>
     /\ UNCHANGED <<keyring, online, notices, view, held>>

SetTokens_ApiOnly ==
  /\ proxy_token' = [p \in Proxy |-> IF p = service_proxy THEN token
                                                          ELSE proxy_token[p]]
  /\ UNCHANGED upload_token
\* The two proxies get the token that the manager holds by now.
SetTokens ==
  /\ upload_token' = IF service_proxy = NoProxy THEN NoProxy ELSE token
  /\ proxy_token' = [p \in Proxy |-> IF p = service_proxy THEN token
                                                          ELSE proxy_token[p]]

AnnounceCheck_OnlyYes(ok) == ok
AnnounceCheck(ok) == TRUE

\* _on_credentials_checked, the answer to a check of t.  It may be no for any
\* reason (a failed call, an error document).
CheckDone(t, ok) ==
  LET c       == CapsOf(configured, ok)
      loading == Reloading(c)
  IN /\ checks[t] > 0
     /\ ok => t \in ValidToken
     /\ CanLoad(loading)
     /\ checks' = [checks EXCEPT ![t] = @ - 1]
     /\ authorised' = ok
     /\ IF ok THEN SetTokens ELSE UNCHANGED <<upload_token, proxy_token>>
     /\ IF AnnounceCheck(ok) THEN caps' = c /\ polling' = PollingAfter(c)
                             ELSE UNCHANGED <<caps, polling>>
     /\ lookups' = Load(lookups, loading)
     /\ token' = TokenAfterLoad(token, loading)
     /\ UNCHANGED <<keyring, online, notices, configured, service_proxy, view,
                    held>>

\* credentials_updated, the bus method: forget, say so, look again.
CredentialsUpdated ==
  /\ CanLoad({Service})
  /\ configured' = FALSE
  /\ authorised' = FALSE
  /\ IF configured \/ authorised
       THEN caps' = "unconfigured" /\ polling' = {}
       ELSE UNCHANGED <<caps, polling>>
  /\ lookups' = Load(lookups, {Service})
  /\ token' = NoToken
  /\ UNCHANGED <<keyring, online, notices, checks, service_proxy, upload_token,
                 proxy_token, view, held>>

\* online_notify(FALSE)
WentOffline ==
  /\ authorised' = FALSE
  /\ caps' = CapsOf(configured, FALSE)
  /\ polling' = {}
  /\ UNCHANGED <<token, lookups, checks, configured>>

\* online_notify(TRUE)
CameOnline ==
  IF configured
    THEN /\ CanLoad({Service})
         /\ lookups' = Load(lookups, {Service})
         /\ token' = NoToken
         /\ UNCHANGED <<checks, configured, authorised, caps, polling>>
    ELSE /\ UNCHANGED <<token, lookups, configured>>
         /\ IF Refused(token)
              THEN /\ authorised' = FALSE
                   /\ caps' = "unconfigured" /\ polling' = {}
                   /\ UNCHANGED checks
              ELSE /\ checks[token] < MaxChecks
                   /\ checks' = Checking(token)
                   /\ UNCHANGED <<authorised, caps, polling>>

\* we_are_online, 1.5 s after NetworkManager said it was connected
OnlineNotify ==
  /\ notices > 0
  /\ notices' = notices - 1
  /\ IF online THEN CameOnline ELSE WentOffline
  /\ UNCHANGED <<keyring, online, service_proxy, upload_token, proxy_token,
                 view, held>>

-----------------------------------------------------------------------------
(* NetworkManager, the keyring and whoever writes it.                      *)

\* state_changed to (or between) connected states: only a timer is set.
NetworkConnected ==
  /\ notices < MaxNotices
  /\ online' = TRUE
  /\ notices' = notices + 1
  /\ UNCHANGED <<keyring, token, lookups, checks, service_vars, proxy_token,
                 view, held, polling>>

\* state_changed to any other state: listeners hear it at once.
NetworkDisconnected ==
  /\ online' = FALSE
  /\ WentOffline
  /\ UNCHANGED <<keyring, notices, service_proxy, upload_token, proxy_token,
                 view, held>>

\* The user logs in, out, or in as somebody else; CredentialsUpdated follows.
KeyringChanges(a) ==
  /\ a # keyring
  /\ keyring' = a
  /\ UNCHANGED <<online, notices, token, lookups, checks, service_vars,
                 proxy_token, view, held, polling>>

-----------------------------------------------------------------------------
(* The views.                                                              *)

\* _flickr_query_open_view: the view refers to the proxy of this moment.
OpenView(v) ==
  /\ view[v] = "unopened"
  /\ view' = [view EXCEPT ![v] = "open"]
  /\ held' = [held EXCEPT ![v] = service_proxy]
  /\ UNCHANGED <<keyring, online, notices, token, lookups, checks,
                 service_vars, proxy_token, polling>>

ViewLoads(v) ==
  /\ CanLoad({v})
  /\ lookups' = Load(lookups, {v})
  /\ token' = NoToken

\* flickr_item_view_start (a second Start is only a warning)
StartView(v) ==
  /\ v \in Open \ polling
  /\ polling' = polling \cup {v}
  /\ ViewLoads(v)
  /\ UNCHANGED <<keyring, online, notices, checks, service_vars, proxy_token,
                 view, held>>

\* flickr_item_view_refresh by the client, or _update_timeout_cb
RefreshView(v) ==
  /\ v \in Open
  /\ ViewLoads(v)
  /\ UNCHANGED <<keyring, online, notices, checks, service_vars, proxy_token,
                 view, held, polling>>

\* flickr_item_view_stop
StopView(v) ==
  /\ v \in Open \cap polling
  /\ polling' = polling \ {v}
  /\ UNCHANGED <<keyring, online, notices, token, lookups, checks,
                 service_vars, proxy_token, view, held>>

\* sw_flickr_item_view_dispose.  Lookups in flight keep a bare pointer.
CloseView_KeepsTimer(v) ==
  /\ v \in Open
  /\ view' = [view EXCEPT ![v] = "closed"]
  /\ held' = [held EXCEPT ![v] = NoProxy]
  /\ polling' = polling
  /\ proxy_token' = Freed(service_proxy, held')
  /\ UNCHANGED <<keyring, online, notices, token, lookups, checks,
                 service_vars>>
CloseView(v) ==
  /\ v \in Open
  /\ view' = [view EXCEPT ![v] = "closed"]
  /\ held' = [held EXCEPT ![v] = NoProxy]
  /\ polling' = polling \ {v}
  /\ proxy_token' = Freed(service_proxy, held')
  /\ UNCHANGED <<keyring, online, notices, token, lookups, checks,
                 service_vars>>

\* _adapt_proxy: a token that differs is replaced by the address of the new one.
Adapted(old, new) == IF old = new THEN old ELSE Garbage

\* The answer a to a lookup of a view: the manager's part, then
\* _on_credentials_loaded, which adapts the proxy and asks for photos with it.
\* For a view that is gone, or has no proxy, the callback works on a dangling
\* or NULL pointer; the outcome that is modelled is that nothing else happens.
ViewLookupDone(v, a) ==
  LET now == IF a # NoToken THEN a ELSE token
  IN /\ lookups[v][a] > 0
     /\ lookups' = Answered(v, a)
     /\ token' = now
     /\ proxy_token' =
          [p \in Proxy |-> IF a # NoToken /\ v \in Open /\ p = held[v]
                             THEN Adapted(proxy_token[p], now)
                             ELSE proxy_token[p]]
     /\ UNCHANGED <<keyring, online, notices, checks, service_vars, view, held,
                    polling>>

-----------------------------------------------------------------------------
Next ==
  \/ \E a \in Answer : ServiceLookupDone(a)
  \/ \E v \in View, a \in Answer : ViewLookupDone(v, a)
  \/ \E t \in Token, ok \in BOOLEAN : CheckDone(t, ok)
  \/ OnlineNotify
  \/ CredentialsUpdated
  \/ NetworkConnected
  \/ NetworkDisconnected
  \/ \E a \in Answer : KeyringChanges(a)
  \/ \E v \in View : OpenView(v)
  \/ \E v \in View : StartView(v)
  \/ \E v \in View : RefreshView(v)
  \/ \E v \in View : StopView(v)
  \/ \E v \in View : CloseView(v)

\* The keyring daemon answers, an HTTP call ends one way or the other, and
\* the main loop fires timers; nobody has to do anything else.
Fairness ==
  /\ \A a \in Answer :
       /\ WF_vars(ServiceLookupDone(a))
       /\ \A v \in View : WF_vars(ViewLookupDone(v, a))
  /\ \A t \in Token : WF_vars(\E ok \in BOOLEAN : CheckDone(t, ok))
  /\ WF_vars(OnlineNotify)

Spec == Init /\ [][Next]_vars /\ Fairness

-----------------------------------------------------------------------------
(* Properties                                                              *)

\* Every variable has its type.
TypeOK ==
  /\ keyring \in Answer /\ token \in Answer
  /\ online \in BOOLEAN /\ notices \in 0 .. MaxNotices
  /\ lookups \in [Owner -> [Answer -> 0 .. MaxLookups]]
  /\ checks \in [Token -> 0 .. MaxChecks]
  /\ configured \in BOOLEAN /\ authorised \in BOOLEAN
  /\ caps \in {"unconfigured", "valid", "invalid"}
  /\ service_proxy \in Proxy \cup {NoProxy}
  /\ upload_token \in Answer \cup {NoProxy}
  /\ proxy_token \in [Proxy -> Answer \cup {Garbage}]
  /\ view \in [View -> {"unopened", "open", "closed"}]
  /\ held \in [View -> Proxy \cup {NoProxy}]
  /\ polling \subseteq Open

\* A client that only listens to CapabilitiesChanged always knows whether the
\* service is configured.
ConfiguredIsAnnounced == (caps # "unconfigured") <=> configured

\* Whoever was told credentials-invalid was told the truth about authorised:
\* no handler ever sets authorised behind the back of the clients.
GainIsAnnounced == caps = "invalid" => ~authorised

\* _on_credentials_available drops authorised in silence.  While the network
\* is up the clients' "valid" is then not left standing: an answer that will
\* lead to an announcement is still to come.
SilentDropIsTransient ==
  caps = "valid" /\ ~authorised /\ online =>
    \/ notices > 0
    \/ \E t \in Token : checks[t] > 0
    \/ \E a \in Answer : lookups[Service][a] > 0

\* The token is checked as it was, and copied into the proxies as it is by then: a
\* configured service may be authorised while its uploads go unsigned.  That is for a
\* while, until a lookup of its own is answered, whatever logins, notices and checks
\* overlap; unless there has been a view, whose loads empty the token just the same and
\* lead to no new copy.
UnsignedForAWhile ==
  configured /\ authorised /\ upload_token = NoToken =>
    \/ \E a \in Answer : lookups[Service][a] > 0
    \/ \E v \in View : view[v] # "unopened"

\* To whoever listens to its signals the service behaves as SwServiceCaps: one
\* verdict at a time, and only of a service that is configured.
Caps == INSTANCE SwServiceCaps WITH configured <- configured, caps <- caps
ImplementsCaps == Caps!Spec

\* The silent drop is made up for, unless the network goes first.
DropIsAnnounced ==
  (caps = "valid" /\ ~authorised /\ online) ~> (caps # "valid" \/ authorised \/ ~online)
=============================================================================
