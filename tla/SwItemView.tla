------------------------------ MODULE SwItemView ------------------------------
(***************************************************************************)
(* A view of a service's items and the client that watches it              *)
(* (libsocialweb/sw-item-view.c, sw-item.c; the client's copy is           *)
(* libsocialweb-client/sw-client-item-view.c).                             *)
(*                                                                         *)
(* A service hands the view one result set after another.  The view keeps  *)
(* the set it contains, the items that are waiting for an image before     *)
(* they may be announced, and the list of announced items that changed; a  *)
(* one second timer flushes the first, a ten second timer the second.      *)
(* Signals travel over one ordered bus connection, so the client applies   *)
(* them in the order the view emits them: shown is what it has applied.    *)
(*                                                                         *)
(* An operator named X_Y next to X is X with a mistake that a run must find:  *)
(* it is used by no action.                                                *)
(***************************************************************************)
EXTENDS Naturals, Sequences, FiniteSets

CONSTANTS
  Item,         \* the SwItem objects that are ever built: bounds the runs
  Uid,          \* the values of the "id" key
  Value,        \* the rest of the payload
  UidOf,        \* the id of each object, fixed when it is built
  ValueOf,      \* its payload, fixed when it is built
  DelayingKey,  \* keys whose image delays readiness ("thumbnail")
  LazyKey       \* keys whose image does not ("authoricon")

ASSUME IdentityAssumption ==
  /\ UidOf \in [Item -> Uid]
  /\ ValueOf \in [Item -> Value]
ASSUME KeyAssumption == DelayingKey \cap LazyKey = {}

Key == DelayingKey \cup LazyKey

\* "fetching": a download is outstanding.  "absent": it failed.
ImageState == {"fetching", "present", "absent"}

VARIABLES
  created,          \* objects built so far
  image,            \* image[i][k]: the image key k of object i
  current,          \* current_items_set (a set with at most one item per uid)
  uid_to_items,     \* the values of the uid_to_items table
  pending,          \* pending_items_set (at most one item per uid)
  ready_handlers,   \* objects with _item_ready_notify_cb connected
  changed_handlers, \* objects with _item_changed_cb connected
  changed_items,    \* the list of that name
  pending_timer,    \* pending_timeout_id # 0
  refresh_timer,    \* refresh_timeout_id # 0
  pending_first,    \* both run and the 1 s one was set no later than the 10 s
  closed,           \* the view was closed and disposed
  sent,             \* the signals the last step put on the bus
  shown             \* the client's uuid_to_items: copies of items

view_vars == <<current, uid_to_items, pending, ready_handlers,
               changed_handlers, changed_items, pending_timer, refresh_timer,
               pending_first>>
vars == <<created, image, view_vars, closed, sent, shown>>

Uids(S) == {UidOf[i] : i \in S}
OnePerUid(S) == \A i, j \in S : UidOf[i] = UidOf[j] => i = j
Elements(list) == {list[n] : n \in DOMAIN list}

\* sw_item_get_ready: no fetch that delays the item is outstanding.  pics is
\* the image function of the state that is asked about.
Ready(pics, i) == \A k \in DelayingKey : pics[i][k] # "fetching"
RemainingFetches(pics, i) ==
  Cardinality({k \in DelayingKey : pics[i][k] = "fetching"})

\* sw_item_equal: same number of outstanding fetches and same table.
Equal(pics, i, j) ==
  /\ RemainingFetches(pics, i) = RemainingFetches(pics, j)
  /\ ValueOf[i] = ValueOf[j]
  /\ \A k \in Key : pics[i][k] = "present" <=> pics[j][k] = "present"

SetAdd_Insert(S, T) == S \cup T

\* sw_set_add replaces the item with the same uid; sw_set_remove takes out
\* whatever item has that uid.
SetAdd(S, T) == {i \in S : UidOf[i] \notin Uids(T)} \cup T
SetRemove(S, T) == {i \in S : UidOf[i] \notin Uids(T)}

-----------------------------------------------------------------------------
(* Signals and the client.                                                 *)

NoSignal == [removed |-> {}, changed |-> {}, added |-> {}]

Copy(pics, i) == [item |-> i, image |-> pics[i]]
ShownUids == {UidOf[s.item] : s \in shown}

\* ItemsRemoved drops the uid, ItemsChanged updates a uid that is known (and
\* is a critical warning for one that is not), ItemsAdded inserts.
ClientApplies(signal, pics) ==
  LET kept    == {s \in shown : UidOf[s.item] \notin Uids(signal.removed)}
      known   == {i \in signal.changed :
                    \E s \in kept : UidOf[s.item] = UidOf[i]}
      written == known \cup signal.added
  IN {s \in kept : UidOf[s.item] \notin Uids(written)}
       \cup {Copy(pics, i) : i \in written}

Emit(signal) ==
  /\ sent' = signal
  /\ shown' = ClientApplies(signal, image')

\* The list passed to update_items, as the client ends up applying it: the
\* ready items, and of two entries with one uid the later one.
Updates(list) ==
  {list[n] : n \in {n \in DOMAIN list :
                      /\ Ready(image, list[n])
                      /\ \A m \in DOMAIN list :
                           Ready(image, list[m]) /\ UidOf[list[m]] = UidOf[list[n]]
                             => m <= n}}

-----------------------------------------------------------------------------
Init ==
  /\ created = {}
  /\ image = [i \in Item |-> [k \in Key |-> "absent"]]
  /\ current = {}
  /\ uid_to_items = {}
  /\ pending = {}
  /\ ready_handlers = {}
  /\ changed_handlers = {}
  /\ changed_items = <<>>
  /\ pending_timer = FALSE
  /\ refresh_timer = FALSE
  /\ pending_first = FALSE
  /\ closed = FALSE
  /\ sent = NoSignal
  /\ shown = {}

\* update_existing: the objects of the result that replace an unequal one.
Replacing(S) ==
  {i \in S : \E j \in uid_to_items :
               UidOf[j] = UidOf[i] /\ ~Equal(image', i, j)}

\* What set_from_set does with a result S of newly built objects whose images
\* are in the states pictures (a cached image is there at once), where the
\* objects in unequal differ from what the table has under their uid.
TakeSet(S, pictures, unequal) ==
  LET removed  == SetRemove(current, S)
      added    == SetRemove(S, current)
      replaced == IF current = {} THEN {} ELSE unequal
      waiting  == {i \in added : ~Ready(image', i)}
  IN /\ ~closed
     /\ created' = created \cup S
     /\ image' = [i \in Item |-> IF i \in S THEN pictures[i] ELSE image[i]]
     /\ current' = SetAdd(SetRemove(current, removed), replaced \cup added)
     /\ uid_to_items' =
          SetAdd(SetRemove(uid_to_items, removed), replaced \cup added)
     /\ pending' = SetAdd(pending, waiting)
     /\ ready_handlers' = ready_handlers \cup waiting
     /\ changed_handlers' = changed_handlers \cup added
     /\ Emit([removed |-> removed,
              changed |-> {i \in replaced : Ready(image', i)},
              added   |-> added \ waiting])
     /\ UNCHANGED <<changed_items, pending_timer, refresh_timer, pending_first,
                    closed>>

\* sw_item_view_set_from_set.
SetFromSet(S, pictures) == TakeSet(S, pictures, Replacing(S))

RemoveByUid_KeepsTable(i) ==
  /\ ~closed
  /\ i \in uid_to_items
  /\ current' = SetRemove(current, {i})
  /\ Emit([NoSignal EXCEPT !.removed = {i}])
  /\ UNCHANGED <<created, image, uid_to_items, pending, ready_handlers,
                 changed_handlers, changed_items, pending_timer, refresh_timer,
                 pending_first, closed>>

\* sw_item_view_remove_by_uid, on the service's item-hidden.  An unknown uid
\* is only a critical warning.
RemoveByUid(i) ==
  /\ ~closed
  /\ i \in uid_to_items
  /\ current' = SetRemove(current, {i})
  /\ uid_to_items' = SetRemove(uid_to_items, {i})
  /\ Emit([NoSignal EXCEPT !.removed = {i}])
  /\ UNCHANGED <<created, image, pending, ready_handlers, changed_handlers,
                 changed_items, pending_timer, refresh_timer, pending_first,
                 closed>>

\* _item_ready_notify_cb acts: the last delaying fetch of a watched item ended.
BecomesReady_InView(i, k) ==
  i \in ready_handlers /\ k \in DelayingKey /\ Ready(image', i) /\ i \in current
BecomesReady(i, k) ==
  i \in ready_handlers /\ k \in DelayingKey /\ Ready(image', i)

\* _item_changed_cb acts: a connected item changed and is ready.
Changes_WhenIdle(i) == i \in changed_handlers /\ Ready(image', i) /\ ~refresh_timer
Changes(i) == i \in changed_handlers /\ Ready(image', i)

\* _image_download_cb: the image is stored (or, on failure, taken away), the
\* item may become ready, and "changed" is emitted.  _item_ready_notify_cb and
\* _item_changed_cb run at once for the view if they are connected.
FetchDone(i, k, result) ==
  /\ i \in created
  /\ image[i][k] = "fetching"
  /\ image' = [image EXCEPT ![i][k] = result]
  /\ ready_handlers' = IF BecomesReady(i, k) THEN ready_handlers \ {i}
                                             ELSE ready_handlers
  /\ pending_timer' = (pending_timer \/ BecomesReady(i, k))
  /\ changed_items' = IF Changes(i) /\ i \notin Elements(changed_items)
                        THEN Append(changed_items, i) ELSE changed_items
  /\ refresh_timer' = (refresh_timer \/ Changes(i))
  /\ pending_first' = IF refresh_timer THEN pending_first
                                       ELSE pending_timer' /\ refresh_timer'
  /\ sent' = NoSignal
  /\ UNCHANGED <<created, current, uid_to_items, pending, changed_handlers,
                 closed, shown>>

\* What _handle_ready_pending_cb takes out of the pending set.
PendingReady_First ==
  IF \E i \in pending : Ready(image, i) THEN {CHOOSE i \in pending : Ready(image, i)} ELSE {}
PendingReady == {i \in pending : Ready(image, i)}

HandleReadyPending_ClearsAll ==
  /\ pending_timer
  /\ pending' = {}
  /\ changed_handlers' = changed_handlers \cup PendingReady
  /\ pending_timer' = FALSE /\ pending_first' = FALSE
  /\ UNCHANGED image
  /\ Emit([NoSignal EXCEPT !.added = PendingReady])
  /\ UNCHANGED <<created, current, uid_to_items, ready_handlers,
                 changed_items, refresh_timer, closed>>

\* _handle_ready_pending_cb, one second after the first item became ready.
HandleReadyPending ==
  /\ pending_timer
  /\ pending' = pending \ PendingReady
  /\ changed_handlers' = changed_handlers \cup PendingReady
  /\ pending_timer' = FALSE /\ pending_first' = FALSE
  /\ UNCHANGED image
  /\ Emit([NoSignal EXCEPT !.added = PendingReady])
  /\ UNCHANGED <<created, current, uid_to_items, ready_handlers,
                 changed_items, refresh_timer, closed>>

\* _item_changed_timeout_cb, ten seconds after the first change.  A one
\* second timer that was set by then is due before it.
ItemChangedTimeout ==
  /\ refresh_timer
  /\ ~pending_first
  /\ changed_items' = <<>>
  /\ refresh_timer' = FALSE
  /\ UNCHANGED image
  /\ Emit([NoSignal EXCEPT !.changed = Updates(changed_items)])
  /\ UNCHANGED <<created, current, uid_to_items, pending, ready_handlers,
                 changed_handlers, pending_timer, pending_first, closed>>

Close_KeepsTimers ==
  /\ ~closed
  /\ closed' = TRUE
  /\ current' = {} /\ uid_to_items' = {} /\ pending' = {}
  /\ ready_handlers' = {} /\ changed_handlers' = {}
  /\ sent' = NoSignal
  /\ UNCHANGED <<created, image, changed_items, pending_timer, refresh_timer,
                 pending_first, shown>>

\* sw_item_view_default_close, then dispose: sets dropped, both timers
\* removed, every handler disconnected by the weak notifies.
Close ==
  /\ ~closed
  /\ closed' = TRUE
  /\ current' = {} /\ uid_to_items' = {} /\ pending' = {}
  /\ ready_handlers' = {} /\ changed_handlers' = {} /\ changed_items' = <<>>
  /\ pending_timer' = FALSE /\ refresh_timer' = FALSE
  /\ pending_first' = FALSE
  /\ sent' = NoSignal
  /\ UNCHANGED <<created, image, shown>>

NewResult ==
  \E S \in SUBSET (Item \ created) :
    /\ OnePerUid(S)
    /\ \E pictures \in [S -> [Key -> {"fetching", "present"}]] :
         SetFromSet(S, pictures)

Next ==
  \/ NewResult
  \/ \E i \in Item : RemoveByUid(i)
  \/ \E i \in Item, k \in Key, result \in {"present", "absent"} :
       FetchDone(i, k, result)
  \/ HandleReadyPending
  \/ ItemChangedTimeout
  \/ Close

\* The main loop dispatches a timeout source that stays armed.  Nothing makes
\* a download end or a service answer.
Fairness == WF_vars(HandleReadyPending) /\ WF_vars(ItemChangedTimeout)

Spec == Init /\ [][Next]_vars /\ Fairness

-----------------------------------------------------------------------------
(* Properties                                                              *)

CopyType == [item : Item, image : [Key -> ImageState]]

\* Every variable has its type, and the sets that the code keys by uid hold
\* one item per uid.
TypeOK ==
  /\ created \subseteq Item
  /\ image \in [Item -> [Key -> ImageState]]
  /\ current \subseteq created /\ OnePerUid(current)
  /\ uid_to_items \subseteq created
  /\ pending \subseteq created /\ OnePerUid(pending)
  /\ ready_handlers \subseteq created
  /\ changed_handlers \subseteq created
  /\ changed_items \in Seq(created)
  /\ pending_timer \in BOOLEAN /\ refresh_timer \in BOOLEAN
  /\ pending_first \in BOOLEAN
  /\ closed \in BOOLEAN
  /\ sent \in [removed : SUBSET Item, changed : SUBSET Item,
               added : SUBSET Item]
  /\ shown \subseteq CopyType

\* set_from_set decides by current_items_set, update_existing and
\* remove_by_uid by uid_to_items: the two never disagree, whatever mix of
\* results, replacements and hidden items came before.
TablesAgree == uid_to_items = current

\* No lost wake-up: an item kept back for an image is either still watched
\* for "ready" or the one second timer that will announce it is running,
\* even when the notification came while the timer was being spent.
PendingIsWatched ==
  \A i \in pending : IF Ready(image, i) THEN pending_timer ELSE i \in ready_handlers

\* No lost update: where an object the view watches has changed since the
\* client got its copy, the object is in the list that the running ten
\* second timer will send.
StaleCopyIsScheduled ==
  \A s \in shown :
    s.item \in changed_handlers =>
      \/ s.image = image[s.item]
      \/ s.item \in Elements(changed_items) /\ refresh_timer

\* Everything the view contains is known to the client under its uid or is
\* held back in the pending set under that uid.
ContentsReported ==
  \A i \in current : UidOf[i] \in ShownUids \cup Uids(pending)

\* The client never gets an item whose delaying image is still being fetched.
OnlyReadyShown ==
  \A s \in shown : \A k \in DelayingKey : s.image[k] # "fetching"

\* Once the client has closed its view nothing more is sent on it, though
\* downloads for its items still end.
ClosedIsSilent == [][closed => sent' = NoSignal /\ shown' = shown]_vars
=============================================================================
