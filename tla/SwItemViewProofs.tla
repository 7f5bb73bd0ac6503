--------------------------- MODULE SwItemViewProofs ---------------------------
(***************************************************************************)
(* Safety of SwItemView, and of the classes of SwViews, for every pool of  *)
(* objects, set of ids and of keys.                                        *)
(***************************************************************************)
EXTENDS SwViews, TLAPS, WellFoundedInduction, SequenceTheorems

(***************************************************************************)
(* What sw_set_add and sw_set_remove keep.                                 *)
(***************************************************************************)
LEMMA SetAddOnePerUid ==
  ASSUME NEW S, NEW T, OnePerUid(S), OnePerUid(T)
  PROVE  OnePerUid(SetAdd(S, T))
BY DEF OnePerUid, SetAdd, Uids

LEMMA SetRemoveOnePerUid ==
  ASSUME NEW S, NEW T, OnePerUid(S)
  PROVE  OnePerUid(SetRemove(S, T))
BY DEF OnePerUid, SetRemove

\* A nonempty set of natural numbers has a least element.
LEMMA LeastNatural ==
  ASSUME NEW T \in SUBSET Nat, T # {}
  PROVE  \E x \in T : \A y \in T : x <= y
<1> DEFINE R == {p \in Nat \X Nat : p[1] < p[2]}
<1>1. IsWellFoundedOn(R, Nat)
  BY NatLessThanWellFounded DEF OpToRel
<1> HIDE DEF R
<1>2. PICK x \in T : \A y \in T : ~ (<<y, x>> \in R)
  BY <1>1, WFMin
<1>3. ASSUME NEW y \in T PROVE x <= y
  <2>1. ~ (<<y, x>> \in R)
    BY <1>2
  <2> QED
    BY <2>1 DEF R
<1> QED
  BY <1>3

\* Of the entries of a list that have one uid, update_items' list has a last.
LEMMA LatestUpdate ==
  ASSUME NEW S, NEW list \in Seq(S), NEW n \in DOMAIN list, Ready(image, list[n])
  PROVE  \E i \in Updates(list) : UidOf[i] = UidOf[list[n]]
<1> DEFINE P(m) == Ready(image, list[m]) /\ UidOf[list[m]] = UidOf[list[n]]
           T == {d \in Nat : \E m \in DOMAIN list : P(m) /\ d = Len(list) - m}
<1>1. DOMAIN list = 1 .. Len(list) /\ Len(list) \in Nat
  BY LenProperties
<1>2. Len(list) - n \in T
  BY <1>1
<1>3. PICK d \in T : \A e \in T : d <= e
  BY <1>2, LeastNatural
<1>4. PICK m \in DOMAIN list : P(m) /\ d = Len(list) - m
  BY <1>3
<1>5. ASSUME NEW q \in DOMAIN list, P(q)
      PROVE  q <= m
  <2>1. Len(list) - q \in T
    BY <1>1, <1>5
  <2> QED
    BY <2>1, <1>1, <1>3, <1>4
<1>6. list[m] \in Updates(list)
  BY <1>4, <1>5 DEF Updates
<1> QED
  BY <1>4, <1>6

-----------------------------------------------------------------------------
(***************************************************************************)
(* The inductive invariant.  The client only holds objects that were built *)
(* and whose delaying fetches have ended; with that, a copy can go stale   *)
(* only by a change of a ready object, which the view then schedules.      *)
(***************************************************************************)
HeldIsReady == \A s \in shown : s.item \in created /\ Ready(image, s.item)

IInv ==
  /\ TypeOK
  /\ TablesAgree
  /\ PendingIsWatched
  /\ ContentsReported
  /\ OnlyReadyShown
  /\ HeldIsReady
  /\ StaleCopyIsScheduled

LEMMA InitIInv == Init => IInv
<1> SUFFICES ASSUME Init PROVE IInv
  OBVIOUS
<1> USE DEF Init
<1>1. TypeOK
  <2>1. sent \in [removed : SUBSET Item, changed : SUBSET Item,
                 added : SUBSET Item]
    BY DEF NoSignal
  <2>2. changed_items \in Seq(created)
    BY EmptySeq
  <2> QED
    BY <2>1, <2>2 DEF TypeOK, OnePerUid, ImageState, CopyType
<1>2. ContentsReported
  BY DEF ContentsReported, Uids
<1> QED
  BY <1>1, <1>2 DEF IInv, TablesAgree, PendingIsWatched, OnlyReadyShown,
                    HeldIsReady, StaleCopyIsScheduled

\* What the client holds after a signal: what it held under a uid that the
\* signal neither removes nor writes, and fresh copies of what it writes.
LEMMA ClientAfter ==
  ASSUME NEW signal, shown' = ClientApplies(signal, image')
  PROVE  /\ \A s \in shown' :
              \/ s \in shown /\ UidOf[s.item] \notin Uids(signal.added)
              \/ \E i \in signal.changed \cup signal.added : s = Copy(image', i)
         /\ \A s \in shown :
              \/ UidOf[s.item] \in Uids(signal.removed)
              \/ UidOf[s.item] \in ShownUids'
         /\ Uids(signal.added) \subseteq ShownUids'
         /\ \A s \in shown' :
              \/ \E i \in signal.changed \cup signal.added : s = Copy(image', i)
              \/ s \in shown /\ UidOf[s.item] \notin Uids(signal.changed)
<1> DEFINE kept    == {s \in shown : UidOf[s.item] \notin Uids(signal.removed)}
           known   == {i \in signal.changed :
                         \E s \in kept : UidOf[s.item] = UidOf[i]}
           written == known \cup signal.added
           copies  == {Copy(image', i) : i \in written}
<1>1. shown' = {s \in kept : UidOf[s.item] \notin Uids(written)} \cup copies
  BY DEF ClientApplies
<1>2. \A i \in written : Copy(image', i) \in shown' /\ Copy(image', i).item = i
  BY <1>1 DEF Copy
<1>3. \A i \in written : UidOf[i] \in ShownUids'
  BY <1>2 DEF ShownUids
<1>4. \A s \in kept : UidOf[s.item] \in Uids(written)
                      => UidOf[s.item] \in ShownUids'
  BY <1>3 DEF Uids
<1>5. \A s \in kept : UidOf[s.item] \in ShownUids'
  BY <1>1, <1>4 DEF ShownUids
<1>6. \A s \in kept : UidOf[s.item] \in Uids(signal.changed)
                      => UidOf[s.item] \in Uids(written)
  BY DEF Uids
<1>7. \A s \in shown' :
        \/ \E i \in written : s = Copy(image', i)
        \/ s \in kept /\ UidOf[s.item] \notin Uids(written)
  BY <1>1
<1>8. Uids(signal.added) \subseteq Uids(written)
  BY DEF Uids
<1>9. Uids(signal.added) \subseteq ShownUids'
  BY <1>3 DEF Uids
<1> QED
  BY <1>5, <1>6, <1>7, <1>8, <1>9

\* The objects of a result that may replace one: they have the uid of an object
\* of the table.  Which of them do, the equality of the class decides.
Candidates(S) == {i \in S : \E j \in uid_to_items : UidOf[j] = UidOf[i]}

\* A result for a view of items or of contacts.
Taken ==
  \E S \in SUBSET (Item \ created), unequal \in SUBSET Item :
    /\ unequal \subseteq Candidates(S)
    /\ OnePerUid(S)
    /\ \E pictures \in [S -> [Key -> {"fetching", "present"}]] :
         TakeSet(S, pictures, unequal)

\* What a view of items or of contacts may do.
TableStep ==
  \/ Taken
  \/ \E i \in Item : RemoveByUid(i)
  \/ \E i \in Item, k \in Key, result \in {"present", "absent"} :
       FetchDone(i, k, result)
  \/ HandleReadyPending
  \/ ItemChangedTimeout
  \/ Close

\* What a view of any class may do.
AnyStep == TableStep \/ AddItem \/ UNCHANGED vars

LEMMA NextIsTableStep == Next => TableStep
<1>1. ASSUME NewResult PROVE Taken
  <2>1. PICK S \in SUBSET (Item \ created) :
          /\ OnePerUid(S)
          /\ \E pictures \in [S -> [Key -> {"fetching", "present"}]] :
               SetFromSet(S, pictures)
    BY <1>1 DEF NewResult
  <2>2. Replacing(S) \in SUBSET Item /\ Replacing(S) \subseteq Candidates(S)
    BY DEF Replacing, Candidates
  <2> QED
    BY <2>1, <2>2 DEF SetFromSet, Taken
<1> QED
  BY <1>1 DEF Next, TableStep

LEMMA NextIsAnyStep == [Next]_vars => AnyStep
BY NextIsTableStep DEF AnyStep

\* One step per action; the state an action leaves alone keeps its conjuncts.
LEMMA TypeStep == IInv /\ AnyStep => TypeOK'
<1> SUFFICES ASSUME IInv, AnyStep PROVE TypeOK'
  OBVIOUS
<1> USE DEF IInv, TypeOK, TablesAgree
<1>0. \A signal : Emit(signal) /\ image' \in [Item -> [Key -> ImageState]]
        /\ signal \in [removed : SUBSET Item, changed : SUBSET Item,
                       added : SUBSET Item]
        => shown' \subseteq CopyType
  BY DEF Emit, ClientApplies, Copy, CopyType
<1>1. ASSUME Taken PROVE TypeOK'
  <2>1. PICK S \in SUBSET (Item \ created), unequal \in SUBSET Item :
          /\ unequal \subseteq Candidates(S)
          /\ OnePerUid(S)
          /\ \E pictures \in [S -> [Key -> {"fetching", "present"}]] :
               TakeSet(S, pictures, unequal)
    BY <1>1 DEF Taken
  <2>2. PICK pictures \in [S -> [Key -> {"fetching", "present"}]] :
          TakeSet(S, pictures, unequal)
    BY <2>1
  <2> DEFINE removed  == SetRemove(current, S)
             added    == SetRemove(S, current)
             replaced == IF current = {} THEN {} ELSE unequal
             waiting  == {i \in added : ~Ready(image', i)}
  <2>3. image' \in [Item -> [Key -> ImageState]]
    BY <2>2 DEF TakeSet, ImageState
  <2>4. replaced \subseteq S /\ added \subseteq S /\ waiting \subseteq S
    BY <2>1 DEF Candidates, SetRemove
  <2>5. OnePerUid(replaced \cup added) /\ OnePerUid(waiting)
    BY <2>1, <2>4 DEF OnePerUid
  <2>6. created' \subseteq Item /\ created \subseteq created' /\ S \subseteq created'
    BY <2>1, <2>2 DEF TakeSet
  <2>7. current' \subseteq created' /\ uid_to_items' \subseteq created'
    BY <2>2, <2>4, <2>6 DEF TakeSet, SetAdd, SetRemove
  <2>8. OnePerUid(current')
    BY <2>2, <2>5, SetAddOnePerUid, SetRemoveOnePerUid DEF TakeSet
  <2>9. pending' \subseteq created' /\ OnePerUid(pending')
    <3>1. pending' = SetAdd(pending, waiting)
      BY <2>2 DEF TakeSet
    <3> QED
      BY <3>1, <2>4, <2>5, <2>6, SetAddOnePerUid DEF SetAdd
  <2>10. ready_handlers' \subseteq created' /\ changed_handlers' \subseteq created'
    BY <2>2, <2>4, <2>6 DEF TakeSet
  <2>11. changed_items' \in Seq(created')
    BY <2>2, <2>6, SeqMonotonic DEF TakeSet
  <2>12. sent' \in [removed : SUBSET Item, changed : SUBSET Item,
                    added : SUBSET Item] /\ Emit(sent')
    BY <2>1, <2>2, <2>4 DEF TakeSet, Emit, SetRemove
  <2>13. shown' \subseteq CopyType
    BY <2>3, <2>12, <1>0
  <2> QED
    BY <2>2, <2>3, <2>6, <2>7, <2>8, <2>9, <2>10, <2>11, <2>12, <2>13
       DEF TakeSet
<1>2. ASSUME NEW i \in Item, RemoveByUid(i) PROVE TypeOK'
  <2>1. current' \subseteq current /\ uid_to_items' \subseteq uid_to_items
    BY <1>2 DEF RemoveByUid, SetRemove
  <2>2. sent' \in [removed : SUBSET Item, changed : SUBSET Item,
                   added : SUBSET Item] /\ Emit(sent')
    BY <1>2 DEF RemoveByUid, Emit, NoSignal
  <2>3. shown' \subseteq CopyType
    BY <1>0, <1>2, <2>2 DEF RemoveByUid
  <2> QED
    BY <1>2, <2>1, <2>2, <2>3 DEF RemoveByUid, OnePerUid
<1>3. ASSUME NEW i \in Item, NEW k \in Key,
             NEW result \in {"present", "absent"}, FetchDone(i, k, result)
      PROVE  TypeOK'
  <2>1. changed_items' \in Seq(created')
    BY <1>3 DEF FetchDone
  <2>2. sent' \in [removed : SUBSET Item, changed : SUBSET Item,
                   added : SUBSET Item]
    BY <1>3 DEF FetchDone, NoSignal
  <2>3. image' \in [Item -> [Key -> ImageState]]
    BY <1>3 DEF FetchDone, ImageState
  <2>4. pending_timer' \in BOOLEAN /\ refresh_timer' \in BOOLEAN
    BY <1>3 DEF FetchDone
  <2>5. pending_first' \in BOOLEAN
    BY <1>3, <2>4 DEF FetchDone
  <2> QED
    BY <1>3, <2>1, <2>2, <2>3, <2>4, <2>5 DEF FetchDone
<1>4. ASSUME HandleReadyPending PROVE TypeOK'
  <2>1. PendingReady \subseteq pending
    BY DEF PendingReady
  <2>2. sent' \in [removed : SUBSET Item, changed : SUBSET Item,
                   added : SUBSET Item] /\ Emit(sent')
    BY <1>4, <2>1 DEF HandleReadyPending, Emit, NoSignal
  <2>3. shown' \subseteq CopyType
    BY <1>0, <1>4, <2>2 DEF HandleReadyPending
  <2> QED
    BY <1>4, <2>1, <2>2, <2>3 DEF HandleReadyPending, OnePerUid
<1>5. ASSUME ItemChangedTimeout PROVE TypeOK'
  <2>1. Updates(changed_items) \subseteq Item
    BY ElementOfSeq, LenProperties DEF Updates
  <2>2. sent' \in [removed : SUBSET Item, changed : SUBSET Item,
                   added : SUBSET Item] /\ Emit(sent')
    BY <1>5, <2>1 DEF ItemChangedTimeout, Emit, NoSignal
  <2>3. shown' \subseteq CopyType
    BY <1>0, <1>5, <2>2 DEF ItemChangedTimeout
  <2> QED
    BY <1>5, <2>2, <2>3, EmptySeq DEF ItemChangedTimeout
<1>6. ASSUME Close PROVE TypeOK'
  <2>1. sent' \in [removed : SUBSET Item, changed : SUBSET Item,
                   added : SUBSET Item]
    BY <1>6 DEF Close, NoSignal
  <2> QED
    BY <1>6, <2>1, EmptySeq DEF Close, OnePerUid
<1>7. ASSUME UNCHANGED vars PROVE TypeOK'
  BY <1>7 DEF vars, view_vars, OnePerUid
<1>8. ASSUME AddItem PROVE TypeOK'
  <2>1. PICK i \in Item \ created : \E picture \in [Key -> {"fetching", "present"}] :
          StreamItem(i, picture)
    BY <1>8 DEF AddItem
  <2> DEFINE waiting == {j \in {i} : ~Ready(image', j)}
  <2>2. image' \in [Item -> [Key -> ImageState]]
    BY <2>1 DEF StreamItem, ImageState
  <2>3. created' = created \cup {i} /\ waiting \subseteq {i} /\ OnePerUid(waiting)
    BY <2>1 DEF StreamItem, OnePerUid
  <2>4. pending' \subseteq created' /\ OnePerUid(pending')
    <3>1. pending' = SetAdd(pending, waiting)
      BY <2>1 DEF StreamItem
    <3> QED
      BY <3>1, <2>3, SetAddOnePerUid DEF SetAdd
  <2>5. ready_handlers' \subseteq created' /\ changed_handlers' \subseteq created'
    BY <2>1 DEF StreamItem
  <2>6. changed_items' \in Seq(created')
    BY <2>1, <2>3, SeqMonotonic DEF StreamItem
  <2>7. sent' \in [removed : SUBSET Item, changed : SUBSET Item,
                   added : SUBSET Item] /\ Emit(sent')
    BY <2>1 DEF StreamItem, Emit, NoSignal
  <2>8. shown' \subseteq CopyType
    BY <2>2, <2>7, <1>0
  <2> QED
    BY <2>1, <2>2, <2>3, <2>4, <2>5, <2>6, <2>7, <2>8 DEF StreamItem, OnePerUid
<1> QED
  BY <1>1, <1>2, <1>3, <1>4, <1>5, <1>6, <1>7, <1>8 DEF AnyStep, TableStep

\* A result leaves the objects that were built before as they were.
LEMMA TakenFacts ==
  ASSUME IInv, Taken
  PROVE  \E S \in SUBSET (Item \ created), unequal \in SUBSET Item :
           /\ unequal \subseteq Candidates(S)
           /\ \E pictures \in [S -> [Key -> {"fetching", "present"}]] :
                /\ OnePerUid(S)
                /\ TakeSet(S, pictures, unequal)
                /\ \A i \in created : image'[i] = image[i]
<1>1. PICK S \in SUBSET (Item \ created), unequal \in SUBSET Item :
        /\ unequal \subseteq Candidates(S)
        /\ OnePerUid(S)
        /\ \E pictures \in [S -> [Key -> {"fetching", "present"}]] :
             TakeSet(S, pictures, unequal)
  BY DEF Taken
<1>2. PICK pictures \in [S -> [Key -> {"fetching", "present"}]] :
        TakeSet(S, pictures, unequal)
  BY <1>1
<1>3. \A i \in created : image'[i] = image[i]
  BY <1>1, <1>2 DEF IInv, TypeOK, TakeSet
<1> QED
  BY <1>1, <1>2, <1>3

\* So does an object that a stream is given.
LEMMA AddItemFacts ==
  ASSUME IInv, AddItem
  PROVE  \E i \in Item \ created : \E picture \in [Key -> {"fetching", "present"}] :
           StreamItem(i, picture) /\ \A j \in created : image'[j] = image[j]
<1>1. PICK i \in Item \ created, picture \in [Key -> {"fetching", "present"}] :
        StreamItem(i, picture)
  BY DEF AddItem
<1>2. \A j \in created : image'[j] = image[j]
  BY <1>1 DEF IInv, TypeOK, StreamItem
<1> QED
  BY <1>1, <1>2

\* The two tables go through the same additions and removals.
LEMMA TablesStep == IInv /\ AnyStep => TablesAgree'
<1> SUFFICES ASSUME IInv, AnyStep PROVE TablesAgree'
  OBVIOUS
<1> USE DEF IInv, TablesAgree
<1>1. ASSUME Taken PROVE TablesAgree'
  BY <1>1 DEF Taken, TakeSet
<1>2. ASSUME NEW i \in Item, RemoveByUid(i) PROVE TablesAgree'
  BY <1>2 DEF RemoveByUid
<1>3. ASSUME NEW i \in Item, NEW k \in Key,
             NEW result \in {"present", "absent"}, FetchDone(i, k, result)
      PROVE  TablesAgree'
  BY <1>3 DEF FetchDone
<1>4. ASSUME HandleReadyPending \/ ItemChangedTimeout \/ Close \/ UNCHANGED vars
      PROVE  TablesAgree'
  BY <1>4 DEF HandleReadyPending, ItemChangedTimeout, Close, vars, view_vars
<1>5. ASSUME AddItem PROVE TablesAgree'
  BY <1>5 DEF AddItem, StreamItem
<1> QED
  BY <1>1, <1>2, <1>3, <1>4, <1>5 DEF AnyStep, TableStep

\* Readiness is never lost, and gaining it is what wakes the view.
LEMMA PendingStep == IInv /\ AnyStep => PendingIsWatched'
<1> SUFFICES ASSUME IInv, AnyStep PROVE PendingIsWatched'
  OBVIOUS
<1> USE DEF IInv, TypeOK, PendingIsWatched, Ready
<1>1. ASSUME Taken PROVE PendingIsWatched'
  <2>1. PICK S \in SUBSET (Item \ created), unequal \in SUBSET Item :
          /\ unequal \subseteq Candidates(S)
          /\ \E pictures \in [S -> [Key -> {"fetching", "present"}]] :
               /\ TakeSet(S, pictures, unequal)
               /\ \A i \in created : image'[i] = image[i]
    BY <1>1, TakenFacts
  <2> DEFINE waiting == {i \in SetRemove(S, current) : ~Ready(image', i)}
  <2>2. /\ pending' = SetAdd(pending, waiting)
        /\ ready_handlers' = ready_handlers \cup waiting
        /\ pending_timer' = pending_timer
    BY <2>1 DEF TakeSet
  <2>3. \A i \in created : image'[i] = image[i]
    BY <2>1
  <2>4. ASSUME NEW i \in pending'
        PROVE  IF Ready(image', i) THEN pending_timer' ELSE i \in ready_handlers'
    <3>1. CASE i \in waiting
      BY <3>1, <2>2
    <3>2. CASE i \in pending
      BY <3>2, <2>2, <2>3
    <3> QED
      BY <2>2, <2>4, <3>1, <3>2 DEF SetAdd
  <2> QED
    BY <2>4
<1>2. ASSUME NEW i \in Item, RemoveByUid(i) PROVE PendingIsWatched'
  BY <1>2 DEF RemoveByUid
<1>3. ASSUME NEW i \in Item, NEW k \in Key,
             NEW result \in {"present", "absent"}, FetchDone(i, k, result)
      PROVE  PendingIsWatched'
  <2>1. \A j \in Item : j # i => image'[j] = image[j]
    BY <1>3 DEF FetchDone
  <2>2. \A d \in Key : image'[i][d] = IF d = k THEN result ELSE image[i][d]
    BY <1>3 DEF FetchDone
  <2>3. ASSUME NEW j \in pending, j # i
        PROVE  IF Ready(image', j) THEN pending_timer' ELSE j \in ready_handlers'
    BY <1>3, <2>1, <2>3 DEF FetchDone
  <2>4. ASSUME i \in pending
        PROVE  IF Ready(image', i) THEN pending_timer' ELSE i \in ready_handlers'
    <3>1. CASE Ready(image, i)
      <4>1. Ready(image', i)
        BY <3>1, <2>2 DEF Key
      <4>2. pending_timer'
        BY <1>3, <2>4, <3>1 DEF FetchDone
      <4> QED
        BY <4>1, <4>2
    <3>2. CASE ~Ready(image, i)
      <4>1. i \in ready_handlers
        BY <2>4, <3>2
      <4>2. CASE Ready(image', i)
        <5>1. k \in DelayingKey
          BY <2>2, <3>2, <4>2 DEF Key
        <5>2. BecomesReady(i, k)
          BY <4>1, <4>2, <5>1 DEF BecomesReady
        <5> QED
          BY <1>3, <4>2, <5>2 DEF FetchDone
      <4>3. CASE ~Ready(image', i)
        <5>1. ~BecomesReady(i, k)
          BY <4>3 DEF BecomesReady
        <5> QED
          BY <1>3, <4>1, <4>3, <5>1 DEF FetchDone
      <4> QED
        BY <4>2, <4>3
    <3> QED
      BY <3>1, <3>2
  <2>5. pending' = pending
    BY <1>3 DEF FetchDone
  <2> QED
    BY <2>3, <2>4, <2>5
<1>4. ASSUME HandleReadyPending PROVE PendingIsWatched'
  BY <1>4 DEF HandleReadyPending, PendingReady
<1>5. ASSUME ItemChangedTimeout PROVE PendingIsWatched'
  BY <1>5 DEF ItemChangedTimeout
<1>6. ASSUME Close PROVE PendingIsWatched'
  BY <1>6 DEF Close
<1>7. ASSUME UNCHANGED vars PROVE PendingIsWatched'
  BY <1>7 DEF vars, view_vars
<1>8. ASSUME AddItem PROVE PendingIsWatched'
  <2>1. PICK i \in Item \ created : \E picture \in [Key -> {"fetching", "present"}] :
          StreamItem(i, picture) /\ \A j \in created : image'[j] = image[j]
    BY <1>8, AddItemFacts
  <2> DEFINE waiting == {j \in {i} : ~Ready(image', j)}
  <2>2. /\ pending' = SetAdd(pending, waiting)
        /\ ready_handlers' = ready_handlers \cup waiting
        /\ pending_timer' = pending_timer
    BY <2>1 DEF StreamItem
  <2>3. \A j \in pending' : j \in pending \/ j \in waiting
    BY <2>2 DEF SetAdd
  <2> QED
    BY <2>1, <2>2, <2>3
<1> QED
  BY <1>1, <1>2, <1>3, <1>4, <1>5, <1>6, <1>7, <1>8 DEF AnyStep, TableStep

\* A uid enters the view's contents together with a copy or a pending item,
\* and loses its copy only when it leaves.
LEMMA ContentsStep == IInv /\ AnyStep => ContentsReported'
<1> SUFFICES ASSUME IInv, AnyStep PROVE ContentsReported'
  OBVIOUS
<1> USE DEF IInv, TypeOK, TablesAgree, ContentsReported
<1>1. ASSUME Taken PROVE ContentsReported'
  <2>1. PICK S \in SUBSET (Item \ created), unequal \in SUBSET Item :
          /\ unequal \subseteq Candidates(S)
          /\ \E pictures \in [S -> [Key -> {"fetching", "present"}]] :
               TakeSet(S, pictures, unequal)
    BY <1>1, TakenFacts
  <2> DEFINE removed  == SetRemove(current, S)
             added    == SetRemove(S, current)
             replaced == IF current = {} THEN {} ELSE unequal
             waiting  == {i \in added : ~Ready(image', i)}
             signal   == [removed |-> removed,
                          changed |-> {i \in replaced : Ready(image', i)},
                          added   |-> added \ waiting]
  <2>2. /\ current' = SetAdd(SetRemove(current, removed), replaced \cup added)
        /\ pending' = SetAdd(pending, waiting)
        /\ shown' = ClientApplies(signal, image')
    BY <2>1 DEF TakeSet, Emit
  <2>3. /\ \A s \in shown : \/ UidOf[s.item] \in Uids(removed)
                           \/ UidOf[s.item] \in ShownUids'
        /\ Uids(added \ waiting) \subseteq ShownUids'
    <3>1. signal.removed = removed /\ signal.added = added \ waiting
      OBVIOUS
    <3> HIDE DEF signal
    <3> QED
      BY <2>2, <3>1, ClientAfter
  <2>4. Uids(pending) \subseteq Uids(pending') /\ Uids(waiting) \subseteq Uids(pending')
    BY <2>2 DEF SetAdd, Uids
  <2>5. \A j \in current : UidOf[j] \notin Uids(removed)
           => UidOf[j] \in ShownUids' \cup Uids(pending')
    BY <2>3, <2>4 DEF ShownUids
  <2>6. ASSUME NEW i \in current'
        PROVE  UidOf[i] \in ShownUids' \cup Uids(pending')
    <3>1. CASE i \in added
      BY <3>1, <2>3, <2>4 DEF Uids
    <3>2. CASE i \in replaced
      <4>1. i \in S /\ \E j \in current : UidOf[j] = UidOf[i]
        BY <2>1, <3>2 DEF Candidates
      <4>2. UidOf[i] \notin Uids(removed)
        BY <4>1 DEF SetRemove, Uids
      <4> QED
        BY <4>1, <4>2, <2>5
    <3>3. CASE i \in SetRemove(current, removed)
      BY <3>3, <2>5 DEF SetRemove, Uids
    <3> QED
      BY <2>2, <2>6, <3>1, <3>2, <3>3 DEF SetAdd
  <2> QED
    BY <2>6
<1>2. ASSUME NEW i \in Item, RemoveByUid(i) PROVE ContentsReported'
  <2> DEFINE signal == [NoSignal EXCEPT !.removed = {i}]
  <2>1. signal.removed = {i}
    BY DEF NoSignal
  <2>2. /\ shown' = ClientApplies(signal, image')
        /\ pending' = pending /\ current' = SetRemove(current, {i})
    BY <1>2 DEF RemoveByUid, Emit
  <2> HIDE DEF signal
  <2>3. \A s \in shown : UidOf[s.item] = UidOf[i] \/ UidOf[s.item] \in ShownUids'
    BY <2>1, <2>2, ClientAfter DEF Uids
  <2>4. \A j \in current' : j \in current /\ UidOf[j] # UidOf[i]
    BY <2>2 DEF SetRemove, Uids
  <2> QED
    BY <2>2, <2>3, <2>4 DEF ShownUids
<1>3. ASSUME NEW i \in Item, NEW k \in Key,
             NEW result \in {"present", "absent"}, FetchDone(i, k, result)
      PROVE  ContentsReported'
  BY <1>3 DEF FetchDone, ShownUids, Uids
<1>4. ASSUME HandleReadyPending PROVE ContentsReported'
  <2> DEFINE signal == [NoSignal EXCEPT !.added = PendingReady]
  <2>1. signal.removed = {} /\ signal.added = PendingReady
    BY DEF NoSignal
  <2>2. /\ shown' = ClientApplies(signal, image')
        /\ pending' = pending \ PendingReady /\ current' = current
    BY <1>4 DEF HandleReadyPending, Emit
  <2> HIDE DEF signal
  <2>3. /\ \A s \in shown : UidOf[s.item] \in ShownUids'
        /\ \A j \in PendingReady : UidOf[j] \in ShownUids'
    BY <2>1, <2>2, ClientAfter DEF Uids
  <2> QED
    BY <2>2, <2>3 DEF Uids, ShownUids
<1>5. ASSUME ItemChangedTimeout PROVE ContentsReported'
  <2> DEFINE signal == [NoSignal EXCEPT !.changed = Updates(changed_items)]
  <2>1. signal.removed = {}
    BY DEF NoSignal
  <2>2. /\ shown' = ClientApplies(signal, image')
        /\ pending' = pending /\ current' = current
    BY <1>5 DEF ItemChangedTimeout, Emit
  <2> HIDE DEF signal
  <2>3. \A s \in shown : UidOf[s.item] \in ShownUids'
    BY <2>1, <2>2, ClientAfter DEF Uids
  <2> QED
    BY <2>2, <2>3 DEF ShownUids
<1>6. ASSUME Close PROVE ContentsReported'
  BY <1>6 DEF Close, Uids
<1>7. ASSUME UNCHANGED vars PROVE ContentsReported'
  BY <1>7 DEF vars, view_vars, Uids, ShownUids
<1>8. ASSUME AddItem PROVE ContentsReported'
  <2>1. PICK i \in Item \ created : \E picture \in [Key -> {"fetching", "present"}] :
          StreamItem(i, picture)
    BY <1>8, AddItemFacts
  <2> DEFINE waiting == {j \in {i} : ~Ready(image', j)}
             signal == [NoSignal EXCEPT !.added = {i} \ waiting]
  <2>2. signal.removed = {}
    BY DEF NoSignal
  <2>3. /\ shown' = ClientApplies(signal, image')
        /\ pending' = SetAdd(pending, waiting) /\ current' = current
    BY <2>1 DEF StreamItem, Emit
  <2> HIDE DEF signal
  <2>4. \A s \in shown : UidOf[s.item] \in ShownUids'
    BY <2>2, <2>3, ClientAfter DEF Uids
  <2>5. Uids(pending) \subseteq Uids(pending')
    BY <2>3 DEF SetAdd, Uids
  <2> QED
    BY <2>3, <2>4, <2>5 DEF ShownUids
<1> QED
  BY <1>1, <1>2, <1>3, <1>4, <1>5, <1>6, <1>7, <1>8 DEF AnyStep, TableStep

\* Whatever a step writes to the client is a copy of a ready object as it is
\* now, and no step takes readiness back.
LEMMA WrittenIsReady ==
  ASSUME IInv, AnyStep
  PROVE  /\ created \subseteq created'
         /\ \A i \in created : Ready(image, i) => Ready(image', i)
         /\ \A s \in shown' :
              \/ s \in shown
              \/ \E i \in created' : Ready(image', i) /\ s = Copy(image', i)
<1> USE DEF IInv, TypeOK
<1> DEFINE Goal ==
      /\ created \subseteq created'
      /\ \A i \in created : Ready(image, i) => Ready(image', i)
      /\ \A s \in shown' :
           \/ s \in shown
           \/ \E i \in created' : Ready(image', i) /\ s = Copy(image', i)
<1>1. ASSUME Taken PROVE Goal
  <2>1. PICK S \in SUBSET (Item \ created), unequal \in SUBSET Item :
          /\ unequal \subseteq Candidates(S)
          /\ \E pictures \in [S -> [Key -> {"fetching", "present"}]] :
               /\ TakeSet(S, pictures, unequal)
               /\ \A i \in created : image'[i] = image[i]
    BY <1>1, TakenFacts
  <2> DEFINE added    == SetRemove(S, current)
             replaced == IF current = {} THEN {} ELSE unequal
             waiting  == {i \in added : ~Ready(image', i)}
             signal   == [removed |-> SetRemove(current, S),
                          changed |-> {i \in replaced : Ready(image', i)},
                          added   |-> added \ waiting]
  <2>2. created' = created \cup S /\ shown' = ClientApplies(signal, image')
    BY <2>1 DEF TakeSet, Emit
  <2>3. \A i \in signal.changed \cup signal.added :
          i \in created' /\ Ready(image', i)
    BY <2>1, <2>2 DEF Candidates, SetRemove
  <2>4. \A s \in shown' : s \in shown \/
          \E i \in signal.changed \cup signal.added : s = Copy(image', i)
    <3> HIDE DEF signal
    <3> QED BY <2>2, ClientAfter
  <2>5. \A i \in created : Ready(image, i) => Ready(image', i)
    BY <2>1 DEF Ready
  <2> QED
    BY <2>2, <2>3, <2>4, <2>5
<1>2. ASSUME NEW i \in Item, RemoveByUid(i) PROVE Goal
  <2> DEFINE signal == [NoSignal EXCEPT !.removed = {i}]
  <2>1. signal.changed = {} /\ signal.added = {}
    BY DEF NoSignal
  <2>2. \A s \in shown' : s \in shown
    <3>1. shown' = ClientApplies(signal, image')
      BY <1>2 DEF RemoveByUid, Emit
    <3> HIDE DEF signal
    <3> QED BY <2>1, <3>1, ClientAfter
  <2> QED
    BY <1>2, <2>2 DEF RemoveByUid, Ready
<1>3. ASSUME NEW i \in Item, NEW k \in Key,
             NEW result \in {"present", "absent"}, FetchDone(i, k, result)
      PROVE  Goal
  <2>1. \A j \in Item, d \in DelayingKey :
          image[j][d] # "fetching" => image'[j][d] # "fetching"
    BY <1>3 DEF FetchDone, Key
  <2> QED
    BY <1>3, <2>1 DEF FetchDone, Ready
<1>4. ASSUME HandleReadyPending PROVE Goal
  <2>1. shown' = ClientApplies([NoSignal EXCEPT !.added = PendingReady], image')
    BY <1>4 DEF HandleReadyPending, Emit
  <2>2. \A s \in shown' : s \in shown \/
          \E i \in PendingReady : s = Copy(image', i)
    BY <2>1, ClientAfter DEF NoSignal
  <2> QED
    BY <1>4, <2>2 DEF HandleReadyPending, PendingReady, Ready
<1>5. ASSUME ItemChangedTimeout PROVE Goal
  <2>1. shown' = ClientApplies([NoSignal EXCEPT !.changed = Updates(changed_items)],
                               image')
    BY <1>5 DEF ItemChangedTimeout, Emit
  <2>2. \A s \in shown' : s \in shown \/
          \E i \in Updates(changed_items) : s = Copy(image', i)
    BY <2>1, ClientAfter DEF NoSignal
  <2>3. \A i \in Updates(changed_items) : i \in created /\ Ready(image, i)
    BY ElementOfSeq, LenProperties DEF Updates
  <2> QED
    BY <1>5, <2>2, <2>3 DEF ItemChangedTimeout, Ready
<1>6. ASSUME Close PROVE Goal
  BY <1>6 DEF Close, Ready
<1>7. ASSUME UNCHANGED vars PROVE Goal
  BY <1>7 DEF vars, Ready
<1>8. ASSUME AddItem PROVE Goal
  <2>1. PICK i \in Item \ created : \E picture \in [Key -> {"fetching", "present"}] :
          StreamItem(i, picture) /\ \A j \in created : image'[j] = image[j]
    BY <1>8, AddItemFacts
  <2> DEFINE waiting == {j \in {i} : ~Ready(image', j)}
             signal == [NoSignal EXCEPT !.added = {i} \ waiting]
  <2>2. signal.changed = {} /\ signal.added = {i} \ waiting
    BY DEF NoSignal
  <2>3. created' = created \cup {i} /\ shown' = ClientApplies(signal, image')
    BY <2>1 DEF StreamItem, Emit
  <2>4. \A s \in shown' : s \in shown \/ \E j \in {i} \ waiting : s = Copy(image', j)
    <3> HIDE DEF signal
    <3> QED BY <2>2, <2>3, ClientAfter
  <2> QED
    BY <2>1, <2>3, <2>4 DEF Ready
<1> QED
  BY <1>1, <1>2, <1>3, <1>4, <1>5, <1>6, <1>7, <1>8 DEF AnyStep, TableStep

LEMMA ReadyStep == IInv /\ AnyStep => HeldIsReady' /\ OnlyReadyShown'
<1> SUFFICES ASSUME IInv, AnyStep PROVE HeldIsReady' /\ OnlyReadyShown'
  OBVIOUS
<1>1. \A s \in shown' :
        \/ s \in shown
        \/ \E i \in created' : Ready(image', i) /\ s = Copy(image', i)
  BY WrittenIsReady
<1>2. \A s \in shown : s.item \in created' /\ Ready(image', s.item)
  BY WrittenIsReady DEF IInv, HeldIsReady
<1>3. HeldIsReady'
  BY <1>1, <1>2 DEF HeldIsReady, Copy
<1>4. OnlyReadyShown'
  BY <1>1 DEF IInv, OnlyReadyShown, Ready, Copy
<1> QED
  BY <1>3, <1>4

\* A fresh copy is up to date; an old one goes stale only when its object
\* changes, which lists the object; and the timer that empties the list
\* sends the object, or a later one with its uid.
LEMMA StaleStep == IInv /\ AnyStep => StaleCopyIsScheduled'
<1> SUFFICES ASSUME IInv, AnyStep, NEW s \in shown',
                    s.item \in changed_handlers'
             PROVE  \/ s.image = image'[s.item]
                    \/ s.item \in Elements(changed_items') /\ refresh_timer'
  BY DEF StaleCopyIsScheduled
<1> DEFINE Goal == \/ s.image = image'[s.item]
                   \/ s.item \in Elements(changed_items') /\ refresh_timer'
<1>0. CASE s \notin shown
  BY <1>0, WrittenIsReady DEF Copy
<1>a. CASE s \in shown
  <2> USE <1>a
  <2>0. s.item \in created /\ Ready(image, s.item)
    BY DEF IInv, HeldIsReady
  <2>s. s.item \in changed_handlers =>
          \/ s.image = image[s.item]
          \/ s.item \in Elements(changed_items) /\ refresh_timer
    BY DEF IInv, StaleCopyIsScheduled
  <2>1. ASSUME Taken PROVE Goal
    <3>1. PICK S \in SUBSET (Item \ created), unequal \in SUBSET Item :
            /\ unequal \subseteq Candidates(S)
            /\ \E pictures \in [S -> [Key -> {"fetching", "present"}]] :
                 /\ TakeSet(S, pictures, unequal)
                 /\ \A i \in created : image'[i] = image[i]
      BY <2>1, TakenFacts
    <3>2. s.item \in changed_handlers
      BY <2>0, <3>1 DEF TakeSet, SetRemove
    <3> QED
      BY <2>0, <2>s, <3>1, <3>2 DEF TakeSet
  <2>2. ASSUME NEW i \in Item, RemoveByUid(i) PROVE Goal
    BY <2>2, <2>s DEF RemoveByUid
  <2>3. ASSUME NEW i \in Item, NEW k \in Key,
               NEW result \in {"present", "absent"}, FetchDone(i, k, result)
        PROVE  Goal
    <3>1. changed_items \in Seq(created)
      BY DEF IInv, TypeOK
    <3>2. Elements(changed_items) \subseteq Elements(changed_items')
      BY <2>3, <3>1 DEF FetchDone, Elements
    <3>3. CASE s.item = i
      <4>1. Ready(image', i)
        BY <2>0, <3>3, WrittenIsReady DEF IInv
      <4>2. Changes(i)
        BY <2>3, <3>3, <4>1 DEF Changes, FetchDone
      <4>3. refresh_timer'
        BY <2>3, <4>2 DEF FetchDone
      <4>4. CASE i \in Elements(changed_items)
        BY <3>2, <3>3, <4>3, <4>4
      <4>5. CASE i \notin Elements(changed_items)
        <5>1. changed_items' = Append(changed_items, i)
          BY <2>3, <4>2, <4>5 DEF FetchDone
        <5>2. /\ Len(changed_items) + 1 \in DOMAIN changed_items'
              /\ changed_items'[Len(changed_items) + 1] = i
          BY <3>1, <5>1
        <5>3. i \in Elements(changed_items')
          BY <5>2 DEF Elements
        <5> QED
          BY <3>3, <4>3, <5>3
      <4> QED
        BY <4>4, <4>5
    <3>4. CASE s.item # i
      <4>1. image'[s.item] = image[s.item]
        BY <2>0, <2>3, <3>4 DEF FetchDone, IInv, TypeOK
      <4> QED
        BY <2>3, <2>s, <3>2, <4>1 DEF FetchDone
    <3> QED
      BY <3>3, <3>4
  <2>4. ASSUME HandleReadyPending PROVE Goal
    <3> DEFINE signal == [NoSignal EXCEPT !.added = PendingReady]
    <3>1. signal.changed = {} /\ signal.added = PendingReady
      BY DEF NoSignal
    <3>2. shown' = ClientApplies(signal, image')
      BY <2>4 DEF HandleReadyPending, Emit
    <3> HIDE DEF signal
    <3>3. \/ \E i \in PendingReady : s = Copy(image', i)
          \/ UidOf[s.item] \notin Uids(PendingReady)
      BY <3>1, <3>2, ClientAfter
    <3>4. CASE \E i \in PendingReady : s = Copy(image', i)
      BY <3>4 DEF Copy
    <3>5. CASE s.item \notin PendingReady
      BY <2>4, <2>s, <3>5 DEF HandleReadyPending
    <3> QED
      BY <3>3, <3>4, <3>5 DEF Uids
  <2>5. ASSUME ItemChangedTimeout PROVE Goal
    <3> DEFINE signal == [NoSignal EXCEPT !.changed = Updates(changed_items)]
    <3>1. signal.changed = Updates(changed_items) /\ signal.added = {}
      BY DEF NoSignal
    <3>2. shown' = ClientApplies(signal, image')
      BY <2>5 DEF ItemChangedTimeout, Emit
    <3> HIDE DEF signal
    <3>3. \/ \E i \in Updates(changed_items) : s = Copy(image', i)
          \/ UidOf[s.item] \notin Uids(Updates(changed_items))
      BY <3>1, <3>2, ClientAfter
    <3>4. CASE \E i \in Updates(changed_items) : s = Copy(image', i)
      BY <3>4 DEF Copy
    <3>5. CASE UidOf[s.item] \notin Uids(Updates(changed_items))
      <4>1. s.item \notin Elements(changed_items)
        <5>1. SUFFICES ASSUME NEW n \in DOMAIN changed_items,
                              s.item = changed_items[n]
                       PROVE  FALSE
          BY DEF Elements
        <5>2. \E i \in Updates(changed_items) : UidOf[i] = UidOf[s.item]
          BY <2>0, <5>1, LatestUpdate DEF IInv, TypeOK
        <5> QED
          BY <3>5, <5>2 DEF Uids
      <4>2. image'[s.item] = image[s.item] /\ changed_handlers' = changed_handlers
        BY <2>5 DEF ItemChangedTimeout
      <4> QED
        BY <2>s, <4>1, <4>2
    <3> QED
      BY <3>3, <3>4, <3>5
  <2>6. ASSUME Close PROVE Goal
    BY <2>6 DEF Close
  <2>7. ASSUME UNCHANGED vars PROVE Goal
    BY <2>7, <2>s DEF vars, view_vars
  <2>8. ASSUME AddItem PROVE Goal
    <3>1. PICK i \in Item \ created : \E picture \in [Key -> {"fetching", "present"}] :
            StreamItem(i, picture) /\ \A j \in created : image'[j] = image[j]
      BY <2>8, AddItemFacts
    <3>2. s.item \in changed_handlers
      BY <2>0, <3>1 DEF StreamItem
    <3> QED
      BY <2>0, <2>s, <3>1, <3>2 DEF StreamItem
  <2> QED
    BY <2>1, <2>2, <2>3, <2>4, <2>5, <2>6, <2>7, <2>8 DEF AnyStep, TableStep
<1> QED
  BY <1>0, <1>a

LEMMA StepIInv == IInv /\ AnyStep => IInv'
BY TypeStep, TablesStep, PendingStep, ContentsStep, ReadyStep, StaleStep DEF IInv

LEMMA IInvHolds == Spec => []IInv
BY InitIInv, NextIsAnyStep, StepIInv, PTL DEF Spec

\* Every variable keeps its type, and the sets keyed by uid hold one item per
\* uid (current_items_set and pending_items_set of sw-item-view.c).
THEOREM TypeCorrect == Spec => []TypeOK
<1>1. IInv => TypeOK
  BY DEF IInv
<1> QED
  BY IInvHolds, <1>1, PTL

\* No lost wake-up, whatever the pool of objects: what waits for an image in
\* pending_items_set is watched or about to be announced.
THEOREM NoLostWakeUp == Spec => []PendingIsWatched
<1>1. IInv => PendingIsWatched
  BY DEF IInv
<1> QED
  BY IInvHolds, <1>1, PTL

\* No lost update: a copy at the client that differs from the object it was
\* made of, while the view watches the object, is about to be replaced.
THEOREM NoLostUpdate == Spec => []StaleCopyIsScheduled
<1>1. IInv => StaleCopyIsScheduled
  BY DEF IInv
<1> QED
  BY IInvHolds, <1>1, PTL

\* set_from_set, update_existing and remove_by_uid may each ask their own
\* table: current_items_set and uid_to_items never differ.
THEOREM TablesStayOne == Spec => []TablesAgree
<1>1. IInv => TablesAgree
  BY DEF IInv
<1> QED
  BY IInvHolds, <1>1, PTL

\* Nothing the view contains is unknown to the client unless it is pending,
\* and only ready items are sent.
THEOREM ContentsAreReported == Spec => [](ContentsReported /\ OnlyReadyShown)
<1>1. IInv => ContentsReported /\ OnlyReadyShown
  BY DEF IInv
<1> QED
  BY IInvHolds, <1>1, PTL

-----------------------------------------------------------------------------
(***************************************************************************)
(* After Close: no timer and no handler is left to send anything.          *)
(***************************************************************************)
Disposed ==
  closed => /\ ~pending_timer /\ ~refresh_timer
            /\ uid_to_items = {} /\ ready_handlers = {} /\ changed_handlers = {}
            /\ sent = NoSignal

LEMMA StepDisposed == Disposed /\ AnyStep => Disposed'
<1> SUFFICES ASSUME Disposed, AnyStep PROVE Disposed'
  OBVIOUS
<1> USE DEF Disposed
<1>1. ASSUME Taken PROVE Disposed'
  BY <1>1 DEF Taken, TakeSet
<1>2. ASSUME NEW i \in Item, RemoveByUid(i) PROVE Disposed'
  BY <1>2 DEF RemoveByUid
<1>3. ASSUME NEW i \in Item, NEW k \in Key,
             NEW result \in {"present", "absent"}, FetchDone(i, k, result)
      PROVE  Disposed'
  <2>1. closed => ~BecomesReady(i, k) /\ ~Changes(i)
    BY DEF BecomesReady, Changes
  <2> QED
    BY <1>3, <2>1 DEF FetchDone
<1>4. ASSUME HandleReadyPending \/ ItemChangedTimeout PROVE Disposed'
  BY <1>4 DEF HandleReadyPending, ItemChangedTimeout
<1>5. ASSUME Close \/ UNCHANGED vars PROVE Disposed'
  BY <1>5 DEF Close, vars, view_vars
<1>6. ASSUME AddItem PROVE Disposed'
  BY <1>6 DEF AddItem, StreamItem
<1> QED
  BY <1>1, <1>2, <1>3, <1>4, <1>5, <1>6 DEF AnyStep, TableStep

LEMMA DisposedIsSilent ==
  ASSUME Disposed, AnyStep PROVE [closed => sent' = NoSignal /\ shown' = shown]_vars
BY DEF Disposed, AnyStep, TableStep, Taken, TakeSet, RemoveByUid, FetchDone, HandleReadyPending,
       ItemChangedTimeout, Close, AddItem, StreamItem

\* A closed view (sw_item_view_dispose) sends nothing more, though downloads
\* for its items still end.
THEOREM ClosedViewIsSilent == Spec => ClosedIsSilent
<1>1. Init => Disposed
  BY DEF Init, Disposed
<1>2. Disposed /\ [Next]_vars => [closed => sent' = NoSignal /\ shown' = shown]_vars
  BY NextIsAnyStep, DisposedIsSilent
<1> QED
  BY <1>1, <1>2, NextIsAnyStep, StepDisposed, PTL DEF Spec, ClosedIsSilent

-----------------------------------------------------------------------------
(***************************************************************************)
(* The contact view and the item stream.  Their steps are among AnyStep, so  *)
(* what it keeps holds of them too; the rest is about the stream.           *)
(***************************************************************************)
LEMMA ViewsNextIsAnyStep ==
  ASSUME [ViewsNext]_views_vars
  PROVE  /\ AnyStep /\ kind' = kind
         /\ IF kind = "stream" THEN [StreamNext]_vars ELSE [TableStep]_vars
<1>1. ASSUME ContactsFromSet PROVE Taken
  <2>1. PICK S \in SUBSET (Item \ created) :
          /\ OnePerUid(S)
          /\ \E pictures \in [S -> [Key -> {"fetching", "present"}]] :
               TakeSet(S, pictures, ReplacingContacts(S))
    BY <1>1 DEF ContactsFromSet
  <2>2. ReplacingContacts(S) \in SUBSET Item /\ ReplacingContacts(S) \subseteq Candidates(S)
    BY DEF ReplacingContacts, Candidates
  <2> QED
    BY <2>1, <2>2 DEF Taken
<1>2. ContactNext => TableStep
  BY <1>1 DEF ContactNext, TableStep, ContactFetchDone, HandleReadyContacts,
              ContactChangedTimeout, CloseContacts
<1>3. StreamNext => AnyStep
  BY DEF StreamNext, AnyStep, TableStep, StreamFetchDone, HandleReadyStream,
         StreamChangedTimeout, CloseStream
<1> QED
  BY <1>2, <1>3, NextIsTableStep DEF ViewsNext, Is, views_vars, AnyStep

\* What the ten second timer will send is connected to _item_changed_cb.
ListedIsWatched == Elements(changed_items) \subseteq changed_handlers

\* A stream watches whatever its client holds, and what it watches its client
\* holds under its uid, or it waits for an image.
StreamWatches == kind = "stream" /\ ~closed => \A s \in shown : s.item \in changed_handlers
StreamReports ==
  kind = "stream" => \A i \in changed_handlers : UidOf[i] \in ShownUids \cup Uids(pending)

VInv == IInv /\ Disposed /\ ListedIsWatched /\ StreamWatches /\ StreamReports

LEMMA ListedStep == ASSUME IInv, ListedIsWatched, AnyStep PROVE ListedIsWatched'
<1> USE DEF ListedIsWatched
<1>1. CASE Taken \/ AddItem
  BY <1>1 DEF Taken, TakeSet, AddItem, StreamItem, Elements
<1>2. ASSUME NEW i \in Item, NEW k \in Key,
             NEW result \in {"present", "absent"}, FetchDone(i, k, result)
      PROVE  ListedIsWatched'
  <2>1. changed_items \in Seq(created)
    BY DEF IInv, TypeOK
  <2>2. Elements(changed_items') \subseteq Elements(changed_items) \cup
          (IF Changes(i) THEN {i} ELSE {})
    BY <1>2, <2>1 DEF FetchDone, Elements
  <2> QED
    BY <1>2, <2>2 DEF FetchDone, Changes
<1>3. CASE \E i \in Item : RemoveByUid(i)
  BY <1>3 DEF RemoveByUid, Elements
<1>4. CASE HandleReadyPending
  BY <1>4 DEF HandleReadyPending, Elements
<1>5. CASE ItemChangedTimeout \/ Close
  BY <1>5 DEF ItemChangedTimeout, Close, Elements
<1>6. CASE UNCHANGED vars
  BY <1>6 DEF vars, view_vars, Elements
<1> QED
  BY <1>1, <1>2, <1>3, <1>4, <1>5, <1>6 DEF AnyStep, TableStep

\* update_items' list is made of entries of changed_items.
LEMMA UpdatesAreListed == Updates(changed_items) \subseteq Elements(changed_items)
BY DEF Updates, Elements

\* What a step adds to the client's copies of a stream, the stream then watches.
LEMMA StreamStep ==
  ASSUME VInv, kind = "stream", kind' = kind, [StreamNext]_vars
  PROVE  StreamWatches' /\ StreamReports'
<1> USE DEF VInv, StreamWatches, StreamReports
<1> DEFINE Goal == StreamWatches' /\ StreamReports'
<1>1. ASSUME AddItem PROVE Goal
  <2>1. PICK i \in Item \ created : \E picture \in [Key -> {"fetching", "present"}] :
          StreamItem(i, picture)
    BY <1>1, AddItemFacts
  <2> DEFINE waiting == {j \in {i} : ~Ready(image', j)}
             signal == [NoSignal EXCEPT !.added = {i} \ waiting]
  <2>2. signal.removed = {} /\ signal.changed = {} /\ signal.added = {i} \ waiting
    BY DEF NoSignal
  <2>3. /\ shown' = ClientApplies(signal, image')
        /\ pending' = SetAdd(pending, waiting)
        /\ changed_handlers' = changed_handlers \cup {i} /\ ~closed
    BY <2>1 DEF StreamItem, Emit
  <2>4. waiting \subseteq {i}
    OBVIOUS
  <2> HIDE DEF signal, waiting
  <2>5. \A s \in shown' : s \in shown \/ s.item = i
    BY <2>2, <2>3, ClientAfter DEF Copy
  <2>6. /\ \A s \in shown : UidOf[s.item] \in ShownUids'
        /\ Uids({i} \ waiting) \subseteq ShownUids'
    BY <2>2, <2>3, ClientAfter DEF Uids
  <2>7. Uids(pending) \subseteq Uids(pending') /\ Uids(waiting) \subseteq Uids(pending')
    BY <2>3 DEF SetAdd, Uids
  <2> QED
    BY <2>3, <2>5, <2>6, <2>7 DEF Uids, ShownUids
<1>2. ASSUME NEW i \in Item, NEW k \in Key,
             NEW result \in {"present", "absent"}, FetchDone(i, k, result)
      PROVE  Goal
  BY <1>2 DEF FetchDone, ShownUids, Uids
<1>3. ASSUME HandleReadyPending PROVE Goal
  <2> DEFINE signal == [NoSignal EXCEPT !.added = PendingReady]
  <2>1. signal.removed = {} /\ signal.changed = {} /\ signal.added = PendingReady
    BY DEF NoSignal
  <2>2. /\ shown' = ClientApplies(signal, image')
        /\ pending' = pending \ PendingReady
        /\ changed_handlers' = changed_handlers \cup PendingReady /\ closed' = closed
    BY <1>3 DEF HandleReadyPending, Emit
  <2> HIDE DEF signal
  <2>3. \A s \in shown' : s \in shown \/ s.item \in PendingReady
    BY <2>1, <2>2, ClientAfter DEF Copy
  <2>4. /\ \A s \in shown : UidOf[s.item] \in ShownUids'
        /\ Uids(PendingReady) \subseteq ShownUids'
    BY <2>1, <2>2, ClientAfter DEF Uids
  <2> QED
    BY <2>2, <2>3, <2>4 DEF Uids, ShownUids
<1>4. ASSUME ItemChangedTimeout PROVE Goal
  <2> DEFINE signal == [NoSignal EXCEPT !.changed = Updates(changed_items)]
  <2>1. signal.removed = {} /\ signal.changed = Updates(changed_items) /\ signal.added = {}
    BY DEF NoSignal
  <2>2. /\ shown' = ClientApplies(signal, image') /\ pending' = pending
        /\ changed_handlers' = changed_handlers /\ closed' = closed
    BY <1>4 DEF ItemChangedTimeout, Emit
  <2> HIDE DEF signal
  <2>3. \A s \in shown' : s \in shown \/ s.item \in Updates(changed_items)
    BY <2>1, <2>2, ClientAfter DEF Copy
  <2>4. \A s \in shown : UidOf[s.item] \in ShownUids'
    BY <2>1, <2>2, ClientAfter DEF Uids
  <2> QED
    BY <2>2, <2>3, <2>4, UpdatesAreListed DEF ListedIsWatched, ShownUids
<1>5. ASSUME Close PROVE Goal
  BY <1>5 DEF Close
<1>6. ASSUME UNCHANGED vars PROVE Goal
  BY <1>6 DEF vars, view_vars, Uids, ShownUids
<1> QED
  BY <1>1, <1>2, <1>3, <1>4, <1>5, <1>6
  DEF StreamNext, StreamFetchDone, HandleReadyStream, StreamChangedTimeout, CloseStream

LEMMA VInvHolds == ViewsSpec => []VInv
<1>1. ViewsInit => VInv
  <2> SUFFICES ASSUME ViewsInit PROVE VInv
    OBVIOUS
  <2>1. IInv
    BY InitIInv DEF ViewsInit
  <2> QED
    BY <2>1 DEF ViewsInit, Init, VInv, Disposed, ListedIsWatched, StreamWatches,
                StreamReports, Elements
<1>2. VInv /\ [ViewsNext]_views_vars => VInv'
  <2> SUFFICES ASSUME VInv, [ViewsNext]_views_vars PROVE VInv'
    OBVIOUS
  <2>1. AnyStep /\ kind' = kind /\ (kind = "stream" => [StreamNext]_vars)
    BY ViewsNextIsAnyStep
  <2>2. IInv' /\ Disposed' /\ ListedIsWatched'
    BY <2>1, StepIInv, StepDisposed, ListedStep DEF VInv
  <2>3. StreamWatches' /\ StreamReports'
    BY <2>1, StreamStep DEF StreamWatches, StreamReports
  <2> QED
    BY <2>2, <2>3 DEF VInv
<1> QED
  BY <1>1, <1>2, PTL DEF ViewsSpec

\* The contact view and the stream keep what the item view keeps: no lost wake-up
\* and no lost update, tables that agree, contents that the client knows
\* (sw-contact-view.c, sw-item-stream.c).
THEOREM EveryClassKeepsThem ==
  ViewsSpec => [](TypeOK /\ TablesAgree /\ PendingIsWatched /\ StaleCopyIsScheduled
                  /\ ContentsReported)
<1>1. VInv => /\ TypeOK /\ TablesAgree /\ PendingIsWatched /\ StaleCopyIsScheduled
              /\ ContentsReported
  BY DEF VInv, IInv
<1> QED
  BY VInvHolds, <1>1, PTL

\* Each copy that the client of a stream holds is up to date or about to be
\* updated, without exception: sw_item_stream_add_item and the pending timer
\* connect _item_changed_cb to whatever they announce.
THEOREM StreamKeepsItsClientCurrent == ViewsSpec => []StreamCopyIsCurrent
<1>1. VInv => StreamCopyIsCurrent
  BY DEF VInv, IInv, StreamWatches, StaleCopyIsScheduled, StreamCopyIsCurrent
<1> QED
  BY VInvHolds, <1>1, PTL

\* A view or stream that is closed sends nothing more.
THEOREM EveryClassIsSilentOnceClosed == ViewsSpec => ClosedIsSilent
<1>1. VInv /\ [ViewsNext]_views_vars
        => [closed => sent' = NoSignal /\ shown' = shown]_vars
  BY ViewsNextIsAnyStep, DisposedIsSilent DEF VInv
<1> QED
  BY <1>1, VInvHolds, PTL DEF ViewsSpec, ClosedIsSilent

\* A surprising signal is always about something that waited in the pending set,
\* or about something that has left the view.
THEOREM SurprisesComeFromPending == ViewsSpec => StrayIsPending
<1> DEFINE Added ==
             \A i \in sent'.added :
               kind # "stream" => UidOf[i] \in Uids(current') \cup Uids(pending)
           Changed ==
             \A i \in sent'.changed :
               \/ UidOf[i] \in ShownUids \cup Uids(pending)
               \/ kind # "stream" /\ UidOf[i] \notin Uids(current)
<1>1. ASSUME VInv, [ViewsNext]_views_vars PROVE [Added /\ Changed]_views_vars
  <2>1. ASSUME Taken, kind # "stream" PROVE Added /\ Changed
    <3>1. PICK S \in SUBSET (Item \ created), unequal \in SUBSET Item :
            /\ unequal \subseteq Candidates(S)
            /\ \E pictures \in [S -> [Key -> {"fetching", "present"}]] :
                 TakeSet(S, pictures, unequal)
      BY <2>1, TakenFacts, <1>1 DEF VInv
    <3> DEFINE added    == SetRemove(S, current)
               replaced == IF current = {} THEN {} ELSE unequal
               waiting  == {i \in added : ~Ready(image', i)}
    <3>2. /\ sent'.added = added \ waiting
          /\ sent'.changed = {i \in replaced : Ready(image', i)}
          /\ added \subseteq current'
      BY <3>1 DEF TakeSet, Emit, SetAdd
    <3>3. \A i \in replaced : UidOf[i] \in Uids(current)
      BY <3>1, <1>1 DEF Candidates, VInv, IInv, TablesAgree, Uids
    <3>4. \A i \in replaced : UidOf[i] \in ShownUids \cup Uids(pending)
      BY <3>3, <1>1 DEF VInv, IInv, ContentsReported, Uids
    <3> QED
      BY <3>2, <3>4 DEF Uids
  <2>2. ASSUME NEW i \in Item, RemoveByUid(i) PROVE Added /\ Changed
    BY <2>2 DEF RemoveByUid, Emit, NoSignal
  <2>3. ASSUME NEW i \in Item, NEW k \in Key,
               NEW result \in {"present", "absent"}, FetchDone(i, k, result)
        PROVE  Added /\ Changed
    BY <2>3 DEF FetchDone, NoSignal
  <2>4. ASSUME HandleReadyPending PROVE Added /\ Changed
    BY <2>4 DEF HandleReadyPending, Emit, NoSignal, PendingReady, Uids
  <2>5. ASSUME ItemChangedTimeout PROVE Added /\ Changed
    <3>1. sent'.added = {} /\ sent'.changed \subseteq changed_handlers
      BY <2>5, <1>1, UpdatesAreListed
      DEF ItemChangedTimeout, Emit, NoSignal, VInv, ListedIsWatched
    <3>2. \A i \in Item : UidOf[i] \in Uids(current) => UidOf[i] \in ShownUids \cup Uids(pending)
      BY <1>1 DEF VInv, IInv, ContentsReported, Uids
    <3>3. changed_handlers \subseteq Item
      BY <1>1 DEF VInv, IInv, TypeOK
    <3> QED
      BY <3>1, <3>2, <3>3, <1>1 DEF VInv, StreamReports
  <2>6. ASSUME Close PROVE Added /\ Changed
    BY <2>6 DEF Close, NoSignal
  <2>7. ASSUME AddItem, kind = "stream" PROVE Added /\ Changed
    BY <2>7 DEF AddItem, StreamItem, Emit, NoSignal
  <2>8. TableStep /\ kind # "stream" => Added /\ Changed
    BY <2>1, <2>2, <2>3, <2>4, <2>5, <2>6 DEF TableStep
  <2>9. StreamNext /\ kind = "stream" => Added /\ Changed
    BY <2>3, <2>4, <2>5, <2>6, <2>7
    DEF StreamNext, StreamFetchDone, HandleReadyStream, StreamChangedTimeout, CloseStream
  <2>10. /\ UNCHANGED vars => UNCHANGED views_vars
         /\ IF kind = "stream" THEN [StreamNext]_vars ELSE [TableStep]_vars
    BY <1>1, ViewsNextIsAnyStep DEF views_vars
  <2> HIDE DEF Added, Changed
  <2> QED
    BY <2>8, <2>9, <2>10
<1>2. VInv /\ [ViewsNext]_views_vars => [Added /\ Changed]_views_vars
  BY <1>1
<1> QED
  BY <1>2, VInvHolds, PTL DEF ViewsSpec, StrayIsPending
=============================================================================
