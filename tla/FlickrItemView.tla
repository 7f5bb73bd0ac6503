----------------------------- MODULE FlickrItemView -----------------------------
(***************************************************************************)
(* What the views of the Flickr service contain, cache and hide            *)
(* (services/flickr/flickr-item-view.c, libsocialweb/sw-cache.c,           *)
(* sw-banned.c and the banishable part of sw-service.c), over changes of   *)
(* the account and restarts of the daemon.                                 *)
(*                                                                         *)
(* The views ask one query, so they share one cache file.  The service is  *)
(* its contract, SwServiceCaps; how SwItemView tells the client what a view     *)
(* contains is that module's concern.                                      *)
(*                                                                         *)
(* An operator named X_Y next to X is X with a mistake that a run must find:  *)
(* it is used by no action.                                                *)
(***************************************************************************)
EXTENDS FiniteSets

CONSTANTS
  Account,      \* Flickr accounts
  NoAccount,    \* nobody is logged in
  Photo,        \* uids
  PhotosOf,     \* what Flickr answers an account from: no photo in two
  View          \* views that are open at a time

ASSUME AccountAssumption ==
  /\ NoAccount \notin Account
  /\ PhotosOf \in [Account -> SUBSET Photo]
  /\ \A a, b \in Account : a # b => PhotosOf[a] \cap PhotosOf[b] = {}

VARIABLES
  configured,  \* the service's flag,
  caps,        \* and the capabilities it announced last
  user,        \* the account it is configured with
  keyring,     \* the account that the keyring holds a token for
  open,        \* the views that exist
  polling,     \* those with a timeout_id
  lookups,     \* views whose flickr_credentials_load is not answered
  requests,    \* calls in flight: a view and the account that signed
  contents,    \* what each view contains
  cache,       \* uids in the cache file; no file is the same as none
  banned,      \* banned_uids of the service
  ban_file,    \* and what is on disk
  hidden,      \* every uid that was ever hidden
  whole        \* where all of them are, to go by the reads and writes that failed:
               \* the list in memory, the file

service_vars == <<configured, caps, user>>
ban_vars == <<banned, ban_file, hidden, whole>>
vars == <<service_vars, keyring, open, polling, lookups, requests, contents,
          cache, ban_vars>>

Service == INSTANCE SwServiceCaps

\* sw_service_is_uid_banned, on every photo that is received or loaded.
Allowed(S) == S \ banned

Init ==
  /\ Service!Init
  /\ user = NoAccount
  /\ keyring \in Account \cup {NoAccount}
  /\ open = {} /\ polling = {} /\ lookups = {} /\ requests = {}
  /\ contents = [v \in View |-> {}]
  /\ cache = {}
  /\ banned = {} /\ ban_file = {} /\ hidden = {} /\ whole = {"list", "file"}

-----------------------------------------------------------------------------
(* The service's signals, as every open view handles them.                 *)

\* _service_user_changed_cb empties the view and drops the service's cache.
\* Only views do that: with none open the cache stays.
OnUserChanged ==
  /\ contents' = [v \in View |-> {}]
  /\ cache' = IF open = {} THEN cache ELSE {}

\* _service_capabilities_changed_cb
OnCapabilitiesChanged ==
  IF caps' = "valid"
    THEN polling' = open /\ lookups' = lookups \cup open
    ELSE polling' = {} /\ UNCHANGED lookups

\* The service found the credentials of the account in the keyring.
ServiceConfigured ==
  /\ keyring # NoAccount
  /\ Service!Configure
  /\ user' = keyring
  /\ OnUserChanged /\ OnCapabilitiesChanged
  /\ UNCHANGED <<keyring, open, requests, ban_vars>>

\* credentials_updated, or no credentials were found.
ServiceForgets ==
  /\ Service!Forget
  /\ user' = NoAccount
  /\ OnUserChanged /\ OnCapabilitiesChanged
  /\ UNCHANGED <<keyring, open, requests, ban_vars>>

\* The credentials were checked, or the network went away.
ServiceJudged ==
  /\ Service!Judge
  /\ OnCapabilitiesChanged
  /\ UNCHANGED <<user, keyring, open, requests, contents, cache,
                 ban_vars>>

\* Somebody logs in or out; the service hears of it later.
KeyringChanges(a) ==
  /\ a # keyring
  /\ keyring' = a
  /\ UNCHANGED <<configured, caps, user, open, polling, lookups, requests,
                 contents, cache, ban_vars>>

-----------------------------------------------------------------------------
(* A view.                                                                 *)

OpenView(v) ==
  /\ v \notin open
  /\ open' = open \cup {v}
  /\ UNCHANGED <<service_vars, keyring, polling, lookups, requests, contents,
                 cache, ban_vars>>

SetFromSet_Adds(v, S) == contents' = [contents EXCEPT ![v] = @ \cup S]
\* sw_item_view_set_from_set replaces what the view contains.
SetFromSet(v, S) == contents' = [contents EXCEPT ![v] = S]

\* _load_from_cache: a cache file replaces the contents, unless it has no item.
LoadFromCache(v) == IF cache = {} THEN UNCHANGED contents ELSE SetFromSet(v, Allowed(cache))

\* flickr_item_view_start
StartView(v) ==
  /\ v \in open \ polling
  /\ polling' = polling \cup {v}
  /\ LoadFromCache(v)
  /\ lookups' = lookups \cup {v}
  /\ UNCHANGED <<service_vars, keyring, open, requests, cache, ban_vars>>

\* flickr_item_view_refresh and _update_timeout_cb
RefreshView(v) ==
  /\ v \in open
  /\ lookups' = lookups \cup {v}
  /\ UNCHANGED <<service_vars, keyring, open, polling, requests, contents,
                 cache, ban_vars>>

\* flickr_item_view_stop: what is in flight goes on.
StopView(v) ==
  /\ v \in polling
  /\ polling' = polling \ {v}
  /\ UNCHANGED <<service_vars, keyring, open, lookups, requests, contents,
                 cache, ban_vars>>

\* _on_credentials_loaded
LookupDone(v) ==
  /\ v \in lookups
  /\ lookups' = lookups \ {v}
  /\ requests' = IF keyring = NoAccount THEN requests
                                        ELSE requests \cup {<<v, keyring>>}
  /\ UNCHANGED <<service_vars, keyring, open, polling, contents, cache,
                 ban_vars>>

\* sw_cache_save: if the file cannot be written the old one stays.
CacheSave(S) == cache' \in {S, cache}

\* _photos_received_cb with photos S of the account that signed (none if Flickr
\* answered with an error document).  Items in ready have their thumbnail
\* already, the cache skips the others.
PhotosReceived(v, a, S, ready) ==
  /\ <<v, a>> \in requests
  /\ requests' = requests \ {<<v, a>>}
  /\ SetFromSet(v, Allowed(S))
  /\ CacheSave(Allowed(S) \cap ready)
  /\ UNCHANGED <<service_vars, keyring, open, polling, lookups, ban_vars>>

\* _photos_received_cb with an error
RequestFails(v, a) ==
  /\ <<v, a>> \in requests
  /\ requests' = requests \ {<<v, a>>}
  /\ UNCHANGED <<service_vars, keyring, open, polling, lookups, contents,
                 cache, ban_vars>>

CloseView_KeepsTimer(v) ==
  /\ v \in open
  /\ open' = open \ {v}
  /\ lookups' = lookups \ {v}
  /\ requests' = {r \in requests : r[1] # v}
  /\ contents' = [contents EXCEPT ![v] = {}]
  /\ UNCHANGED <<service_vars, keyring, polling, cache, ban_vars>>
\* sw_flickr_item_view_dispose: calls die with the view.  Its lookups do not,
\* but their callback has nothing left to work on.
CloseView(v) ==
  /\ v \in open
  /\ open' = open \ {v}
  /\ polling' = polling \ {v}
  /\ lookups' = lookups \ {v}
  /\ requests' = {r \in requests : r[1] # v}
  /\ contents' = [contents EXCEPT ![v] = {}]
  /\ UNCHANGED <<service_vars, keyring, cache, ban_vars>>

-----------------------------------------------------------------------------
(* Hiding items, and the daemon.                                           *)

\* _service_item_hidden_cb in every view
OnItemHidden_WhenPolling(uid) ==
  contents' = [v \in View |-> IF v \in polling THEN contents[v] \ {uid}
                                               ELSE contents[v]]
OnItemHidden(uid) == contents' = [v \in View |-> contents[v] \ {uid}]

Everywhere == {"list", "file"}

SaveBans_BeforeInsert ==
  /\ ban_file' = banned
  /\ whole' = IF "list" \in whole THEN Everywhere ELSE {}
\* sw_ban_save writes the whole list, which mends a file that lacked some of it; or
\* cannot open the file, which stays; or replaces it with what it had written when a
\* write failed.
SaveBans ==
  \/ /\ ban_file' = banned'
     /\ whole' = IF "list" \in whole THEN Everywhere ELSE {}
  \/ /\ ban_file' \in (SUBSET banned') \cup {ban_file}
     /\ whole' = whole \cap {"list"}

\* sw_ban_load reads the whole file, or what comes before an error.
LoadBans ==
  \/ /\ banned' = ban_file
     /\ whole' = IF "file" \in whole THEN Everywhere ELSE {}
  \/ /\ banned' \in SUBSET ban_file
     /\ whole' = whole \cap {"file"}

\* banishable_hide_item; the caller is not told whether the list was saved.
HideItem(uid) ==
  /\ banned' = banned \cup {uid} /\ hidden' = hidden \cup {uid}
  /\ SaveBans
  /\ OnItemHidden(uid)
  /\ UNCHANGED <<service_vars, keyring, open, polling, lookups, requests,
                 cache>>

\* The daemon stops or crashes and is activated again: only files are left.
Restart ==
  /\ configured' = FALSE /\ caps' = "unconfigured"
  /\ user' = NoAccount
  /\ open' = {} /\ polling' = {} /\ lookups' = {} /\ requests' = {}
  /\ contents' = [v \in View |-> {}]
  /\ LoadBans
  /\ UNCHANGED <<keyring, cache, ban_file, hidden>>

Next ==
  \/ ServiceConfigured
  \/ ServiceForgets
  \/ ServiceJudged
  \/ \E a \in Account \cup {NoAccount} : KeyringChanges(a)
  \/ \E v \in View : OpenView(v)
  \/ \E v \in View : StartView(v)
  \/ \E v \in View : RefreshView(v)
  \/ \E v \in View : StopView(v)
  \/ \E v \in View : LookupDone(v)
  \/ \E v \in View, a \in Account, S, ready \in SUBSET Photo :
       S \subseteq PhotosOf[a] /\ ready \subseteq S /\ PhotosReceived(v, a, S, ready)
  \/ \E v \in View, a \in Account : RequestFails(v, a)
  \/ \E v \in View : CloseView(v)
  \/ \E uid \in Photo : HideItem(uid)
  \/ Restart

Spec == Init /\ [][Next]_vars

-----------------------------------------------------------------------------
(* Properties                                                              *)

\* Every variable has its type.
TypeOK ==
  /\ configured \in BOOLEAN /\ caps \in {"unconfigured", "valid", "invalid"}
  /\ user \in Account \cup {NoAccount}
  /\ keyring \in Account \cup {NoAccount}
  /\ open \subseteq View /\ polling \subseteq open /\ lookups \subseteq open
  /\ requests \subseteq open \X Account
  /\ contents \in [View -> SUBSET Photo]
  /\ cache \subseteq Photo
  /\ {banned, ban_file, hidden} \subseteq SUBSET Photo
  /\ whole \subseteq Everywhere

\* An item that was hidden while the daemon runs is in no view, though it was
\* in the view, on its way in a reply, or in the cache when it was hidden.
HiddenNotShown == \A v \in View : contents[v] \cap banned = {}

\* An item that was hidden at any time comes back only by a fault of the disk: it is in
\* no view, whatever replies, cache files and restarts follow, unless the list was read
\* in part, or read from a file that the last save had not written whole.  The next
\* restart mends the one if nothing is hidden before, the next save the other.
HiddenReturnsByFaultOnly ==
  "list" \in whole => \A v \in View : contents[v] \cap hidden = {}

\* The service's signals only ever take photos away: neither a user change nor
\* a verdict puts anything into a view or the cache.
SignalsOnlyRemove ==
  service_vars' # service_vars =>
    /\ \A v \in View : contents'[v] \subseteq contents[v]
    /\ cache' \subseteq cache

\* An answer to a call that v made brings S: photos of the account that signed it,
\* without those that are hidden by now.
Brings(v, S) == \E a \in Account : <<v, a>> \in requests /\ S \subseteq Allowed(PhotosOf[a])

\* A call may be answered after the account has changed, and the files outlive the
\* daemon; but a view or the cache only ever gets more by being replaced as a
\* whole: by one answer to a call of one account, which the view itself still
\* waits for, or by what the cache file holds.  Nothing of an old account stays
\* among the photos of a new one.
RefilledByOneAnswer ==
  [][/\ SignalsOnlyRemove
     /\ \A v \in View : \/ contents'[v] \subseteq contents[v]
                        \/ contents'[v] \subseteq Allowed(cache)
                        \/ Brings(v, contents'[v])
     /\ cache' \subseteq cache \/ \E v \in View : Brings(v, cache')]_vars
=============================================================================
