------------------------------ MODULE ServiceViews ------------------------------
(***************************************************************************)
(* The views of the services other than Flickr: how they ask, when they    *)
(* report and what of the service they hear, over changes of the account,  *)
(* hidden items and calls that overlap, fail or are cancelled              *)
(* (services/*/*-item-view.c, *-contact-view.c, sw-call-list.c).            *)
(*                                                                         *)
(* Every view was copied from another and changed a little.  A view class  *)
(* is a record of the points where they differ; two classes that do not    *)
(* differ are one behaviour.  The service does what SwServiceSignals says:  *)
(* anything but keep it to itself when its credentials become valid, and    *)
(* Facebook, whose views keep their timers, that too.                       *)
(***************************************************************************)
EXTENDS Naturals, FiniteSets

CONSTANTS
  Account, NoAccount,
  Uid,         \* items or contacts,
  OwnerOf,     \* whose each of them is,
  Hideable,    \* and those that somebody hides (bound)
  MaxChained   \* second calls of a chain that are in flight at a time (bound)

ASSUME ViewsAssumption ==
  /\ NoAccount \notin Account
  /\ OwnerOf \in [Uid -> Account] /\ Hideable \subseteq Uid
  /\ MaxChained \in Nat

VARIABLES
  view,       \* the class
  user,       \* the account whose tokens the service holds,
  valid,      \* whether it has the capability credentials-valid,
  heard,      \* what it said of that last,
  banned,     \* and its banned uids
  open, polling,   \* the view exists; its timeout_id is set
  wanted,     \* the client started it and did not stop it (history)
  calls,      \* calls that are not answered
  failed,     \* one of them failed since the last request (history)
  crossed,    \* what was asked of one account went on with another (history)
  collected,  \* priv->set between two replies
  contents,   \* what the view contains
  cache       \* uids in the cache file of the query

service_vars == <<user, valid, heard>>
vars == <<view, service_vars, banned, open, polling, wanted, calls, failed,
          crossed, collected, contents, cache>>

-----------------------------------------------------------------------------
(* The classes.                                                            *)
(*   asks     what _get_status_updates requires: the capability, an         *)
(*            account, or an account and the timer                          *)
(*   steps    one call; the friends' timeline and then the own one; or an   *)
(*            index and a call for each of its entries                      *)
(*   lists    calls are in priv->calls, which the next request cancels      *)
(*   filters  banned uids are left out of a reply                           *)
(*   empties  a reply without entries empties the view                      *)
(*   hides    the view handles item-hidden                                  *)
(*   hears    what capabilities-changed does: "timer" refreshes and sets    *)
(*            the timer or removes it, "refresh" only refreshes             *)

Plurk ==
  [asks |-> "valid", steps |-> "one", lists |-> FALSE, filters |-> TRUE,
   empties |-> TRUE, hides |-> TRUE, hears |-> "timer"]
MySpace == Plurk
SinaOwn == Plurk
TwitterTimeline == Plurk
SinaFeed ==
  [asks |-> "valid", steps |-> "chain", lists |-> FALSE, filters |-> TRUE,
   empties |-> TRUE, hides |-> TRUE, hears |-> "timer"]
TwitterTrends ==
  [asks |-> "valid", steps |-> "one", lists |-> FALSE, filters |-> FALSE,
   empties |-> TRUE, hides |-> TRUE, hears |-> "timer"]
TwitterContacts ==
  [asks |-> "valid", steps |-> "ids", lists |-> TRUE, filters |-> TRUE,
   empties |-> TRUE, hides |-> FALSE, hears |-> "timer"]
Youtube ==
  [asks |-> "account", steps |-> "one", lists |-> FALSE, filters |-> TRUE,
   empties |-> TRUE, hides |-> TRUE, hears |-> "timer"]
Vimeo ==
  [asks |-> "valid", steps |-> "one", lists |-> TRUE, filters |-> TRUE,
   empties |-> TRUE, hides |-> TRUE, hears |-> "nothing"]
FacebookItems ==
  [asks |-> "timer", steps |-> "one", lists |-> FALSE, filters |-> FALSE,
   empties |-> TRUE, hides |-> TRUE, hears |-> "refresh"]
FacebookContacts ==
  [asks |-> "timer", steps |-> "one", lists |-> FALSE, filters |-> FALSE,
   empties |-> TRUE, hides |-> FALSE, hears |-> "refresh"]
LastfmItems ==
  [asks |-> "account", steps |-> "friends", lists |-> TRUE, filters |-> TRUE,
   empties |-> TRUE, hides |-> TRUE, hears |-> "timer"]
LastfmContacts ==
  [asks |-> "account", steps |-> "one", lists |-> TRUE, filters |-> TRUE,
   empties |-> FALSE, hides |-> FALSE, hears |-> "timer"]

Class == {Plurk, MySpace, SinaOwn, SinaFeed, TwitterTimeline, TwitterTrends,
          TwitterContacts, Youtube, Vimeo, FacebookItems, FacebookContacts,
          LastfmItems, LastfmContacts}

-----------------------------------------------------------------------------
Kind == {"result", "timeline", "index", "part", "image", "unsent"}
Call == [kind : Kind, user : Account \cup {NoAccount}, about : SUBSET Uid]

EntriesOf(a) == {i \in Uid : OwnerOf[i] = a}

\* Calls in priv->calls.  The ids call of Twitter is not added to it.
Listed(c) == view.lists /\ ~(c.kind = "index" /\ view.steps = "ids")

Passed(S) == IF view.filters THEN S \ banned ELSE S

Init ==
  /\ view \in Class
  /\ user = NoAccount /\ valid = FALSE /\ heard = FALSE /\ banned = {}
  /\ open = FALSE /\ polling = FALSE /\ wanted = FALSE
  /\ calls = {} /\ failed = FALSE /\ crossed = FALSE
  /\ collected = {} /\ contents = {} /\ cache = {}

-----------------------------------------------------------------------------
(* Asking.                                                                 *)

\* _get_status_updates goes on to send a call.
Asks ==
  \/ view.asks = "valid" /\ valid'
  \/ view.asks = "account" /\ user' # NoAccount
  \/ view.asks = "timer" /\ user' # NoAccount /\ polling'

FirstCall ==
  [kind  |-> IF view.steps = "one" THEN "result"
             ELSE IF view.steps = "chain" THEN "timeline" ELSE "index",
   user  |-> user', about |-> {}]

\* Last.fm lists its call before it finds out that there is no account.
Unsent == [kind |-> "unsent", user |-> NoAccount, about |-> {}]

Cancelled_KeepsCollected(cancels) == UNCHANGED <<failed, collected>>
\* sw_call_list_cancel_all and sw_set_empty
Cancelled(cancels) ==
  /\ failed' = (failed /\ ~cancels)
  /\ collected' = IF cancels THEN {} ELSE collected

\* _get_status_updates, _get_updates, _get_ids
Request ==
  LET unsent == view.lists /\ view.asks = "account" /\ ~Asks
      cancels == view.lists /\ (Asks \/ unsent)
      kept == {c \in calls : ~(cancels /\ Listed(c))}
  IN /\ Cancelled(cancels)
     /\ calls' = kept \cup (IF Asks THEN {FirstCall} ELSE {})
                     \cup (IF unsent THEN {Unsent} ELSE {})
     /\ crossed' = (crossed \/ (Asks /\ view.steps = "ids" /\ \E c \in kept : c.user # user'))

NoRequest == UNCHANGED <<calls, failed, crossed, collected>>

-----------------------------------------------------------------------------
(* What the service says.                                                  *)

\* _service_user_changed_cb
OnUserChanged == contents' = {} /\ cache' = {}

OnCapabilitiesChanged_OnlyRefreshes ==
  /\ polling' = (polling /\ (view.hears # "timer" \/ valid'))
  /\ IF view.hears # "nothing" /\ valid' THEN Request ELSE NoRequest
\* _service_capabilities_changed_cb
OnCapabilitiesChanged ==
  /\ polling' = IF view.hears = "timer" THEN valid' ELSE polling
  /\ IF view.hears # "nothing" /\ valid' THEN Request ELSE NoRequest

Signals == INSTANCE SwServiceSignals WITH quiet <- view.hears # "timer"

\* The service is given the data of a, has credentials-valid or not, and emits
\* user-changed, capabilities-changed, both or neither.
ServiceChanges(a, v, user_changed, caps_changed) ==
  /\ UNCHANGED <<view, banned, open, wanted>>
  /\ Signals!Changes(a, v, caps_changed)
  /\ IF open /\ user_changed THEN OnUserChanged ELSE UNCHANGED <<contents, cache>>
  /\ IF open /\ caps_changed THEN OnCapabilitiesChanged
                             ELSE UNCHANGED polling /\ NoRequest

OnItemHidden_WhenPolling(uid) ==
  contents' = IF view.hides /\ polling THEN contents \ {uid} ELSE contents
\* _service_item_hidden_cb, of the views that connect it
OnItemHidden(uid) ==
  contents' = IF view.hides THEN contents \ {uid} ELSE contents

\* banishable_hide_item
HideItem(uid) ==
  /\ banned' = banned \cup {uid}
  /\ OnItemHidden(uid)
  /\ UNCHANGED <<view, service_vars, open, polling, wanted, calls, failed,
                 crossed, collected, cache>>

-----------------------------------------------------------------------------
(* What the client and the timer ask for.                                  *)

OpenView ==
  /\ ~open
  /\ open' = TRUE
  /\ UNCHANGED <<view, service_vars, banned, polling, wanted, calls, failed,
                 crossed, collected, contents, cache>>

FromCache_Unfiltered == IF cache = {} THEN contents ELSE cache
\* _load_from_cache: a cache file replaces the contents, unless it has no item;
\* items that are banned by now are left out.
FromCache == IF cache = {} THEN contents ELSE cache \ banned

\* *_view_start; on a view that polls already it only warns.
StartView ==
  /\ open
  /\ wanted' = TRUE
  /\ polling' = TRUE
  /\ UNCHANGED <<view, service_vars, banned, open, cache>>
  /\ IF polling
       THEN UNCHANGED contents /\ NoRequest
       ELSE contents' = FromCache /\ Request

\* *_view_refresh, and _update_timeout_cb, which does the same
RefreshView ==
  /\ open
  /\ UNCHANGED <<view, service_vars, banned, open, polling, wanted, contents,
                 cache>>
  /\ Request

\* *_view_stop; calls in flight go on.
StopView ==
  /\ open
  /\ wanted' = FALSE /\ polling' = FALSE
  /\ UNCHANGED <<view, service_vars, banned, open, calls, failed, crossed,
                 collected, contents, cache>>

CloseView_KeepsCalls ==
  /\ open
  /\ open' = FALSE /\ polling' = FALSE /\ wanted' = FALSE
  /\ collected' = {} /\ contents' = {} /\ failed' = FALSE
  /\ UNCHANGED <<view, service_vars, banned, calls, crossed, cache>>
\* dispose: listed calls are cancelled, the others die with their weak object.
CloseView ==
  /\ open
  /\ open' = FALSE /\ polling' = FALSE /\ wanted' = FALSE
  /\ calls' = {} /\ collected' = {} /\ contents' = {} /\ failed' = FALSE
  /\ UNCHANGED <<view, service_vars, banned, crossed, cache>>

-----------------------------------------------------------------------------
(* Replies.                                                                *)

\* set_from_set and sw_cache_save.  All entries have their images already, and the file
\* is written: what the cache leaves out, and a write that fails, are FlickrItemView's.
Report(S) == contents' = S /\ cache' = S

UpdateIfDone_BeforeRemoval(S) ==
  IF \A c \in calls : ~Listed(c)
    THEN Report(S) /\ collected' = {}
    ELSE UNCHANGED <<contents, cache>> /\ collected' = S
\* _update_if_done, with S in priv->set
UpdateIfDone(S) ==
  IF \A c \in calls' : ~Listed(c)
    THEN Report(S) /\ collected' = {}
    ELSE UNCHANGED <<contents, cache>> /\ collected' = S

\* Calls that are not listed may overlap with equal ones, which stay in flight.
Answered(c) == IF Listed(c) THEN {calls \ {c}} ELSE {calls \ {c}, calls}

\* The only or the last call: the entries S, and those of the call before it.
ResultReceived(c, S) ==
  LET entries == c.about \cup Passed(S)
  IN /\ c \in calls /\ c.kind = "result"
     /\ calls' \in Answered(c)
     /\ IF entries # {} \/ view.empties THEN Report(entries)
                                        ELSE UNCHANGED <<contents, cache>>
     /\ UNCHANGED <<view, service_vars, banned, open, polling, wanted, failed,
                    crossed, collected>>

\* Sina's _got_friends_status_cb: the call for the own timeline takes the set
\* along, and is signed with the tokens that the proxy holds by now.
TimelineReceived(c, S) ==
  /\ c \in calls /\ c.kind = "timeline"
  /\ Cardinality({d \in calls : d.kind = "result"}) < MaxChained
  /\ \E rest \in Answered(c) :
       calls' = rest \cup
                  {[kind |-> "result", about |-> Passed(S),
                    user |-> IF user = NoAccount THEN c.user ELSE user]}
  /\ crossed' = (crossed \/ (user \notin {NoAccount, c.user} /\ Passed(S) # {}))
  /\ UNCHANGED <<view, service_vars, banned, open, polling, wanted, failed,
                 collected, contents, cache>>

\* _get_friends_cb, _got_ids_cb: one call for each entry of the index.
IndexReceived(c, S) ==
  /\ c \in calls /\ c.kind = "index"
  /\ \E rest \in Answered(c) :
       calls' = rest \cup
                  {[kind |-> "part", user |-> c.user, about |-> {i}] : i \in S}
  /\ UNCHANGED <<view, service_vars, banned, open, polling, wanted, failed,
                 crossed, collected, contents, cache>>

\* _get_tracks_cb, which may have to ask for the artist's image, and
\* _got_contacts_updates_cb
PartReceived(c, S, asks_image) ==
  /\ c \in calls /\ c.kind = "part"
  /\ asks_image => view.steps = "friends" /\ S # {}
  /\ calls' = (calls \ {c}) \cup
              (IF asks_image THEN {[kind |-> "image", user |-> c.user, about |-> c.about]} ELSE {})
  /\ UpdateIfDone(collected \cup Passed(S))
  /\ UNCHANGED <<view, service_vars, banned, open, polling, wanted, failed, crossed>>

\* get_artist_info_cb
ImageReceived(c) ==
  /\ c \in calls /\ c.kind = "image"
  /\ calls' = calls \ {c}
  /\ UpdateIfDone(collected)
  /\ UNCHANGED <<view, service_vars, banned, open, polling, wanted, failed, crossed>>

\* Every callback returns early on an error; none goes on to _update_if_done.
CallFails(c) ==
  /\ c \in calls /\ c.kind # "unsent"
  /\ calls' = calls \ {c}
  /\ failed' = (failed \/ Listed(c))
  /\ UNCHANGED <<view, service_vars, banned, open, polling, wanted, crossed,
                 collected, contents, cache>>

Next ==
  \/ \E a \in Account \cup {NoAccount}, v, u, p \in BOOLEAN :
       ServiceChanges(a, v, u, p)
  \/ \E uid \in Hideable : HideItem(uid)
  \/ OpenView
  \/ StartView
  \/ RefreshView
  \/ StopView
  \/ CloseView
  \/ \E c \in calls : \E S \in SUBSET EntriesOf(c.user) : ResultReceived(c, S)
  \/ \E c \in calls : \E S \in SUBSET EntriesOf(c.user) : TimelineReceived(c, S)
  \/ \E c \in calls : \E S \in SUBSET EntriesOf(c.user) : IndexReceived(c, S)
  \/ \E c \in calls : \E S \in SUBSET c.about, i \in BOOLEAN : PartReceived(c, S, i)
  \/ \E c \in calls : ImageReceived(c)
  \/ \E c \in calls : CallFails(c)

Spec == Init /\ [][Next]_vars

-----------------------------------------------------------------------------
(* Properties                                                              *)

\* Every variable has its type, and a closed view has nothing under way.
TypeOK ==
  /\ view \in Class /\ user \in Account \cup {NoAccount} /\ valid \in BOOLEAN
  /\ heard \in BOOLEAN /\ banned \subseteq Uid
  /\ open \in BOOLEAN /\ polling \in BOOLEAN /\ wanted \in BOOLEAN
  /\ failed \in BOOLEAN /\ crossed \in BOOLEAN
  /\ calls \subseteq Call
  /\ collected \subseteq Uid /\ contents \subseteq Uid /\ cache \subseteq Uid
  /\ ~open => ~polling /\ calls = {} /\ collected = {} /\ contents = {}

\* Views that hand a reply on in the step that has filtered it show no hidden
\* item, whether it was hidden before its reply came or after it was cached.
HiddenNotShown ==
  view.hides /\ view.filters /\ view.steps = "one" => contents \cap banned = {}

OneAccount(S) == \A i, j \in S : OwnerOf[i] = OwnerOf[j]

\* A result gathered from several replies holds the entries of one account,
\* however the account changed meanwhile: what the old one was asked for is
\* cancelled and what it gave is thrown away.  There are two exceptions, and no
\* others: Twitter's call for the ids is not in the list that a request cancels,
\* and Sina's second call is signed with the tokens that there are by then.
AccountsStayApart == ~crossed => OneAccount(contents) /\ OneAccount(cache)

\* What was gathered reaches the view with the last reply, whichever comes
\* last; only a failed call can leave it behind.
StrandedOnlyByFailure ==
  collected # {} => failed \/ \E c \in calls : Listed(c)

\* A view that the client wants is polled whenever the credentials are valid,
\* although the timer goes with each announcement that they are not.
WantedIsPolled == open /\ wanted /\ valid => polling

\* What the service says only ever takes entries out of the view and the cache.
SignalsOnlyRemove ==
  service_vars' # service_vars \/ banned' # banned =>
    contents' \subseteq contents /\ cache' \subseteq cache

\* What earlier replies gave and no reply has reported yet: priv->set, and the set
\* that the second call of a chain takes along.
Gathered == collected \cup UNION {c.about : c \in {d \in calls : d.kind = "result"}}

\* The ban list is asked when a reply is read, and the reply may be reported much
\* later.  In all classes that ask it a banned entry comes back in one way only: it
\* was gathered before it was hidden.  One that was not enters neither the view nor
\* the cache nor what is gathered.
HiddenReturnsOnlyGathered ==
  [][/\ SignalsOnlyRemove
     /\ view.filters =>
          \A uid \in banned :
            \/ uid \in Gathered
            \/ /\ uid \in contents' => uid \in contents
               /\ uid \in cache' => uid \in cache
               /\ uid \notin Gathered']_vars
=============================================================================
