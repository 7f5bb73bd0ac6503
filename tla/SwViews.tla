-------------------------------- MODULE SwViews --------------------------------
(***************************************************************************)
(* The three classes that announce things with images to a client:         *)
(* SwItemView, SwContactView (libsocialweb/sw-contact-view.c, sw-contact.c, *)
(* libsocialweb-client/sw-client-contact-view.c) and SwItemStream          *)
(* (libsocialweb/sw-item-stream.c, fed by                                  *)
(* services/twitter/twitter-item-stream.c).                                *)
(*                                                                         *)
(* The contact view is the item view's code over again: the same tables,   *)
(* timers and handlers, an equality of its own and no remove_by_uid.  The  *)
(* stream keeps no set and no table, only what waits for an image; every   *)
(* object that it is given is announced.  The state is that of SwItemView. *)
(***************************************************************************)
EXTENDS SwItemView

VARIABLE kind   \* the class of the view, fixed when it is built

Kind == {"item", "contact", "stream"}
views_vars == <<vars, kind>>

-----------------------------------------------------------------------------
(* The contact view.                                                       *)

\* The keys of a contact's table: a download that failed leaves an empty list
\* of values under its key.
Keys(pics, i) == {k \in Key : pics[i][k] # "fetching"}

\* sw_contact_equal(a, b): the lists of a are compared with those of b, where
\* no list counts as an empty one.
ContactEqual(pics, a, b) ==
  /\ RemainingFetches(pics, a) = RemainingFetches(pics, b)
  /\ ValueOf[a] = ValueOf[b]
  /\ Cardinality(Keys(pics, a)) = Cardinality(Keys(pics, b))
  /\ \A k \in Keys(pics, a) : pics[a][k] = "present" <=> pics[b][k] = "present"

\* sw_contact_view_update_existing.
ReplacingContacts(S) ==
  {i \in S : \E j \in uid_to_items :
               UidOf[j] = UidOf[i] /\ ~ContactEqual(image', i, j)}

\* sw_contact_view_set_from_set.  The signals with nothing to say, which the
\* item view sends all the same, are not sent.
ContactsFromSet ==
  \E S \in SUBSET (Item \ created) :
    /\ OnePerUid(S)
    /\ \E pictures \in [S -> [Key -> {"fetching", "present"}]] :
         TakeSet(S, pictures, ReplacingContacts(S))

\* sw_contact.c's _image_download_cb; the view's handlers are the item view's.
ContactFetchDone ==
  \E i \in Item, k \in Key, result \in {"present", "absent"} :
    FetchDone(i, k, result)

HandleReadyContacts == HandleReadyPending
ContactChangedTimeout == ItemChangedTimeout
CloseContacts == Close

ContactNext ==
  \/ ContactsFromSet
  \/ ContactFetchDone
  \/ HandleReadyContacts
  \/ ContactChangedTimeout
  \/ CloseContacts

-----------------------------------------------------------------------------
(* The item stream.                                                        *)

StreamItem_SkipsWatch(i, picture) ==
  LET waiting == {j \in {i} : ~Ready(image', j)}
  IN /\ ~closed
     /\ created' = created \cup {i}
     /\ image' = [image EXCEPT ![i] = picture]
     /\ pending' = SetAdd(pending, waiting)
     /\ ready_handlers' = ready_handlers \cup waiting
     /\ changed_handlers' = changed_handlers
     /\ Emit([NoSignal EXCEPT !.added = {i} \ waiting])
     /\ UNCHANGED <<current, uid_to_items, changed_items, pending_timer,
                    refresh_timer, pending_first, closed>>

\* sw_item_stream_add_item with an object just built from a message.
StreamItem(i, picture) ==
  LET waiting == {j \in {i} : ~Ready(image', j)}
  IN /\ ~closed
     /\ created' = created \cup {i}
     /\ image' = [image EXCEPT ![i] = picture]
     /\ pending' = SetAdd(pending, waiting)
     /\ ready_handlers' = ready_handlers \cup waiting
     /\ changed_handlers' = changed_handlers \cup {i}
     /\ Emit([NoSignal EXCEPT !.added = {i} \ waiting])
     /\ UNCHANGED <<current, uid_to_items, changed_items, pending_timer,
                    refresh_timer, pending_first, closed>>

AddItem ==
  \E i \in Item \ created, picture \in [Key -> {"fetching", "present"}] :
    StreamItem(i, picture)

StreamFetchDone ==
  \E i \in Item, k \in Key, result \in {"present", "absent"} :
    FetchDone(i, k, result)

HandleReadyStream == HandleReadyPending
StreamChangedTimeout == ItemChangedTimeout
CloseStream == Close

StreamNext ==
  \/ AddItem
  \/ StreamFetchDone
  \/ HandleReadyStream
  \/ StreamChangedTimeout
  \/ CloseStream

-----------------------------------------------------------------------------
ViewsInit == Init /\ kind \in Kind

\* The class whose handlers run.
Is(class) == kind = class /\ UNCHANGED kind

ViewsNext ==
  \/ Is("item") /\ Next
  \/ Is("contact") /\ ContactNext
  \/ Is("stream") /\ StreamNext

ViewsFairness ==
  /\ WF_views_vars(HandleReadyPending /\ UNCHANGED kind)
  /\ WF_views_vars(ItemChangedTimeout /\ UNCHANGED kind)

ViewsSpec == ViewsInit /\ [][ViewsNext]_views_vars /\ ViewsFairness

-----------------------------------------------------------------------------
(* Properties: those of SwItemView, and what a stream promises.            *)

\* A client is surprised in two ways only: ItemsAdded names something that has
\* left the view, which must then have waited in the pending set; or ItemsChanged
\* names something that the client was not told of, which then waits there still
\* or has left the view.  A stream has nothing that could leave it.
StrayIsPending ==
  [][/\ \A i \in sent'.added :
          kind # "stream" => UidOf[i] \in Uids(current') \cup Uids(pending)
     /\ \A i \in sent'.changed :
          \/ UidOf[i] \in ShownUids \cup Uids(pending)
          \/ kind # "stream" /\ UidOf[i] \notin Uids(current)]_views_vars

\* A stream never replaces an object behind the handlers' back, so every copy
\* of its client, without exception, is up to date or about to be updated.
StreamCopyIsCurrent ==
  kind = "stream" /\ ~closed =>
    \A s \in shown :
      \/ s.image = image[s.item]
      \/ s.item \in Elements(changed_items) /\ refresh_timer

\* Whatever the class, something whose last delaying fetch has ended reaches
\* the client, unless the view is closed, the thing leaves the set of the view
\* or another with its uid takes its place in the pending set.
ReadyReachesClient ==
  \A i \in Item :
    (i \in pending /\ Ready(image, i)) ~>
      \/ closed
      \/ kind # "stream" /\ i \notin current
      \/ \E j \in pending \ {i} : UidOf[j] = UidOf[i]
      \/ \E s \in shown : s.item = i
=============================================================================
