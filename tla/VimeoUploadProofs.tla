--------------------------- MODULE VimeoUploadProofs ---------------------------
(***************************************************************************)
(* Theorems about VimeoUpload, for any uploads, requests, albums, wishes and *)
(* placeholders.                                                           *)
(***************************************************************************)
EXTENDS VimeoUpload, TLAPS

-----------------------------------------------------------------------------
(* The inductive invariant.                                                *)

\* The call s has been carried out for v, or v has come beyond it.
Behind(v, s, later) == stage[v] \in later \/ (stage[v] = s /\ v \in acted)

\* An upload leaves a call behind only when the server has done what it is for.
Tagged(v) ==
  /\ Behind(v, "complete", {"title", "description", "add", "create", "done"})
       => "complete" \in has[v]
  /\ "title" \in wants[v].sets /\ Behind(v, "title", {"description", "add", "create", "done"})
       => "title" \in has[v]
  /\ "description" \in wants[v].sets /\ Behind(v, "description", {"add", "create", "done"})
       => "description" \in has[v]

\* The album that an upload names or lies in is the one it wants, or was made for
\* the placeholder that it wants.
Fits(v, a) == wants[v].into \in {a, of[a]}

Placed(v) ==
  /\ stage[v] = "add" => /\ wants[v].into # None
                         /\ names[v] \in Album => Fits(v, names[v])
  /\ stage[v] = "create" => wants[v].into \in Placeholder /\ real[wants[v].into] # "unknown"
  /\ stage[v] = "create" /\ v \in acted => lies[v] \in Album /\ of[lies[v]] = wants[v].into
  /\ wants[v].into # None /\ Behind(v, "add", {"done"}) => lies[v] \in Album /\ Fits(v, lies[v])

Chain(v) == Tagged(v) /\ Placed(v)

\* The table of placeholders and the albums of the server: what is known of an album
\* is so, and an album that is not known yet has an upload to explain it.
MadeFor(p) == {a \in Album : of[a] = p}
Known(p) ==
  /\ real[p] = "unknown" => MadeFor(p) = {}
  /\ real[p] \in Album => of[real[p]] = p
  /\ real[p] \notin {"unknown", None} => MadeFor(p) # {}
  /\ MadeFor(p) # {} /\ real[p] = None =>
       \E v \in Video : wants[v].into = p /\ stage[v] \in {"create", "failed"}

\* What a request is about, until it is taken up.
AskedAbout(q) == stage[q] \in {"idle", "asked"} => names[q] \in Asks

IInv ==
  /\ TypeOK
  /\ \A v \in Video : Chain(v)
  /\ \A p \in Placeholder : Known(p)
  /\ \A q \in Query : AskedAbout(q)

LEMMA InitIInv == Init => IInv
<1> SUFFICES ASSUME Init PROVE IInv
  OBVIOUS
<1> USE DEF Init
<1>1. PICK ask \in [Query -> Asks] : names = [o \in Op |-> IF o \in Query THEN ask[o] ELSE None]
  OBVIOUS
<1>2. \A o \in Op : names[o] \in {None} \cup Asks
  BY <1>1 DEF Op
<1>3. names \in [Op -> {None, NullId, "list"} \cup Album \cup Placeholder]
  BY <1>1, <1>2, VimeoAssumption
<1>4. of \in [Album -> {None, "other"} \cup Placeholder]
  OBVIOUS
<1>5. TypeOK
  BY <1>3, <1>4 DEF TypeOK, Op
<1>6. \A v \in Video : Chain(v)
  BY DEF Chain, Tagged, Placed, Behind, Op
<1>7. \A p \in Placeholder : Known(p)
  BY IdAssumption DEF Known, MadeFor
<1>8. \A q \in Query : AskedAbout(q)
  BY <1>1 DEF AskedAbout, Op
<1> QED
  BY <1>5, <1>6, <1>7, <1>8 DEF IInv

-----------------------------------------------------------------------------
(* A request that goes on.                                                 *)

Stage == Under \cup {"idle", "asked", "refused", "dropped", "failed", "done"}
Name == {None, NullId, "list"} \cup Album \cup Placeholder

LEMMA CallsOnly ==
  ASSUME TypeOK, NEW o \in Op, NEW s \in Stage, NEW i \in Name, Calls(o, s, i)
  PROVE  /\ stage' \in [Op -> Stage] /\ names' \in [Op -> Name]
         /\ acted' \subseteq {q \in Op : stage'[q] \in Under}
         /\ stage'[o] = s /\ names'[o] = i /\ o \notin acted'
         /\ \A q \in Op \ {o} : /\ stage'[q] = stage[q] /\ names'[q] = names[q]
                                /\ q \in acted' <=> q \in acted
BY DEF TypeOK, Calls, Stage, Name

\* A request that goes on changes nothing but itself: it remains to be shown that
\* its own chain is right, and that no album loses the upload that explains it.
LEMMA GoesOn ==
  ASSUME IInv, NEW o \in Op, NEW s \in Stage, NEW i \in Name, Calls(o, s, i),
         UNCHANGED <<wants, real, bound, server>>,
         answer' \in [Query -> SUBSET (Album \cup Placeholder)],
         o \in Video => Chain(o)' /\ (s = "add" => i # None),
         s = "asked" => i = names[o] /\ stage[o] = "idle",
         s # "idle", stage[o] \in {"create", "failed"} => s = "failed"
  PROVE  IInv'
<1> USE DEF server
<1>0. TypeOK
  BY DEF IInv
<1>1. /\ stage' \in [Op -> Stage] /\ names' \in [Op -> Name]
      /\ acted' \subseteq {q \in Op : stage'[q] \in Under}
      /\ stage'[o] = s /\ names'[o] = i /\ o \notin acted'
      /\ \A q \in Op \ {o} : /\ stage'[q] = stage[q] /\ names'[q] = names[q]
                             /\ q \in acted' <=> q \in acted
  BY <1>0, CallsOnly
<1>2. TypeOK'
  BY <1>0, <1>1 DEF TypeOK, Stage, Name, Op
<1>3. ASSUME NEW v \in Video PROVE Chain(v)'
  <2>1. CASE v = o
    BY <2>1
  <2>2. CASE v # o
    BY <1>1, <2>2 DEF IInv, Chain, Tagged, Placed, Behind, Fits, Op
  <2> QED
    BY <2>1, <2>2
<1>4. ASSUME NEW p \in Placeholder PROVE Known(p)'
  <2>1. \A v \in Video : stage[v] \in {"create", "failed"} => stage'[v] \in {"create", "failed"}
    BY <1>1 DEF Op
  <2> QED
    BY <2>1 DEF IInv, Known, MadeFor
<1>5. ASSUME NEW q \in Query PROVE AskedAbout(q)'
  BY <1>1 DEF IInv, AskedAbout, Op
<1> QED
  BY <1>2, <1>3, <1>4, <1>5 DEF IInv

-----------------------------------------------------------------------------
(* The server's steps.                                                     *)

LEMMA TagsKeeps == ASSUME IInv, NEW v \in Video, Tags(v) PROVE IInv'
<1> USE DEF Tags, Carries
<1>0. v \in Op /\ TypeOK
  BY DEF Op, IInv
<1>1. TypeOK'
  BY <1>0 DEF TypeOK
<1>2. ASSUME NEW u \in Video PROVE Tagged(u)' /\ Placed(u)'
  <2>1. has[u] \subseteq has'[u] /\ (u = v => stage[v] \in has'[u] /\ stage[v] \in Tagging)
    BY <1>0 DEF TypeOK
  <2>2. Tagged(u)'
    BY <2>1 DEF IInv, Chain, Tagged, Behind
  <2>3. Placed(u)'
    BY <2>1 DEF IInv, Chain, Placed, Behind, Fits, Tagging
  <2> QED
    BY <2>2, <2>3
<1>3. \A p \in Placeholder : Known(p)'
  BY DEF IInv, Known, MadeFor
<1> QED
  BY <1>1, <1>2, <1>3 DEF IInv, Chain, AskedAbout

LEMMA PutsKeeps == ASSUME IInv, NEW v \in Video, Puts(v) PROVE IInv'
<1> USE DEF Puts, Carries
<1>0. v \in Op /\ TypeOK
  BY DEF Op, IInv
<1>1. TypeOK'
  BY <1>0 DEF TypeOK
<1>2. ASSUME NEW u \in Video PROVE Tagged(u)' /\ Placed(u)'
  <2>1. lies'[u] = IF u = v THEN names[v] ELSE lies[u]
    BY <1>0 DEF TypeOK
  <2>2. Tagged(u)'
    BY DEF IInv, Chain, Tagged, Behind
  <2>3. Placed(u)'
    BY <2>1 DEF IInv, Chain, Placed, Behind, Fits
  <2> QED
    BY <2>2, <2>3
<1>3. \A p \in Placeholder : Known(p)'
  BY DEF IInv, Known, MadeFor
<1> QED
  BY <1>1, <1>2, <1>3 DEF IInv, Chain, AskedAbout

LEMMA CreatesKeeps == ASSUME IInv, NEW v \in Video, Creates(v) PROVE IInv'
<1> USE DEF Creates, Carries
<1>0. v \in Op /\ TypeOK
  BY DEF Op, IInv
<1>1. PICK a \in Album : /\ of[a] = None /\ of' = [of EXCEPT ![a] = wants[v].into]
                        /\ lies' = [lies EXCEPT ![v] = a]
  OBVIOUS
<1>2. wants[v].into \in Placeholder /\ real[wants[v].into] # "unknown"
  BY DEF IInv, Chain, Placed
<1>3. \A b \in Album : of'[b] = IF b = a THEN wants[v].into ELSE of[b]
  BY <1>0, <1>1 DEF TypeOK
<1>4. \A u \in Video : lies'[u] = IF u = v THEN a ELSE lies[u]
  BY <1>0, <1>1 DEF TypeOK
<1>5. TypeOK'
  <2>1. /\ of' \in [Album -> {None, "other"} \cup Placeholder]
        /\ lies' \in [Video -> {None} \cup Album]
    BY <1>0, <1>1, <1>2 DEF TypeOK
  <2> QED
    BY <1>0, <2>1 DEF TypeOK
<1>6. ASSUME NEW u \in Video PROVE Tagged(u)' /\ Placed(u)'
  <2>1. Tagged(u)'
    BY DEF IInv, Chain, Tagged, Behind
  <2>2. \A b \in Album : wants[u].into # None /\ Fits(u, b) => Fits(u, b)'
    BY <1>1, <1>3 DEF Fits
  <2>3. CASE u = v
    <3>1. stage'[u] = "create" /\ lies'[u] \in Album /\ of'[lies'[u]] = wants'[u].into
      BY <1>1, <1>3, <1>4, <2>3
    <3>2. wants'[u].into \in Placeholder /\ real'[wants'[u].into] # "unknown"
      BY <1>2, <2>3
    <3> QED
      BY <2>1, <3>1, <3>2 DEF Placed, Behind
  <2>4. CASE u # v
    <3>0. Placed(u)
      BY DEF IInv, Chain
    <3>1. /\ stage'[u] = stage[u] /\ names'[u] = names[u] /\ lies'[u] = lies[u]
          /\ u \in acted' <=> u \in acted
          /\ wants' = wants /\ real' = real
      BY <1>4, <2>4
    <3>2. stage'[u] = "add" => /\ wants'[u].into # None
                               /\ names'[u] \in Album => Fits(u, names[u])'
      BY <2>2, <3>0, <3>1 DEF Placed
    <3>3. lies[u] \in Album /\ of[lies[u]] # None => of'[lies[u]] = of[lies[u]]
      BY <1>1, <1>3
    <3>4. stage'[u] = "create" /\ u \in acted' =>
            lies'[u] \in Album /\ of'[lies'[u]] = wants'[u].into
      <4>1. None \notin Placeholder
        BY IdAssumption
      <4> QED
        BY <3>0, <3>1, <3>3, <4>1 DEF Placed
    <3>5. wants'[u].into # None /\ (Behind(u, "add", {"done"}))' =>
            lies'[u] \in Album /\ Fits(u, lies[u])'
      BY <2>2, <3>0, <3>1 DEF Placed, Behind
    <3> QED
      BY <2>1, <3>0, <3>1, <3>2, <3>4, <3>5 DEF Placed
  <2> QED
    BY <2>1, <2>3, <2>4
<1>7. ASSUME NEW p \in Placeholder PROVE Known(p)'
  <2>1. p # wants[v].into => MadeFor(p)' = MadeFor(p)
    BY <1>1, <1>3, IdAssumption DEF MadeFor
  <2>2. MadeFor(p) \subseteq MadeFor(p)'
    BY <1>1, <1>3, IdAssumption DEF MadeFor
  <2>3. real[p] \in Album => of'[real[p]] = p
    BY <1>1, <1>3, IdAssumption DEF IInv, Known
  <2> QED
    BY <1>2, <2>1, <2>2, <2>3 DEF IInv, Known
<1> QED
  BY <1>5, <1>6, <1>7 DEF IInv, Chain, AskedAbout

LEMMA ListsKeeps == ASSUME IInv, NEW q \in Query, Lists(q) PROVE IInv'
<1> USE DEF Lists, Carries
<1>0. q \in Op /\ q \notin Video /\ TypeOK
  BY IdAssumption DEF Op, IInv
<1>1. TypeOK'
  BY <1>0 DEF TypeOK
<1>2. \A v \in Video : Chain(v)'
  BY <1>0 DEF IInv, Chain, Tagged, Placed, Behind, Fits
<1>3. \A p \in Placeholder : Known(p)'
  BY DEF IInv, Known, MadeFor
<1> QED
  BY <1>1, <1>2, <1>3 DEF IInv, AskedAbout

-----------------------------------------------------------------------------
(* The chain of an upload.                                                 *)

LEMMA IdOf ==
  ASSUME IInv, NEW i \in Name, i # "list" PROVE RealId(i) \in Name
BY DEF IInv, TypeOK, RealId, Name

\* Whatever a request ends as, its chain has nothing more to show but for "done".
LEMMA EndsBadly ==
  ASSUME IInv, NEW v \in Video,
         NEW s \in {"asked", "refused", "dropped", "failed", "quota", "ticket", "file", "verify",
                   "complete"},
         Ends(v, s), UNCHANGED <<wants, real, server>>
  PROVE  Chain(v)'
<1>1. stage'[v] = s /\ v \notin acted'
  BY DEF IInv, TypeOK, Ends, Calls, Op
<1> QED
  BY <1>1 DEF Chain, Tagged, Placed, Behind, Fits

\* AddVideoToAlbum: what is behind an upload then is enough for it to be done, unless
\* it wants a collection; and it names the album that it wants.
LEMMA AddsKeeps ==
  ASSUME IInv, NEW v \in Video, AddVideoToAlbum(v),
         UNCHANGED <<wants, real, bound, server, answer>>,
         stage[v] \in Tagging, "complete" \in has[v],
         "title" \in wants[v].sets => "title" \in has[v],
         "description" \in wants[v].sets => "description" \in has[v]
  PROVE  IInv'
<1> USE DEF server
<1> DEFINE into == wants[v].into
<1>0. v \in Op /\ TypeOK /\ into \in {None} \cup Album \cup Placeholder /\ into # "list"
  BY VimeoAssumption, IdAssumption DEF Op, IInv, TypeOK, Wish
<1>1. names[v] \in Name /\ None \in Name /\ into \in Name /\ stage[v] \notin {"create", "failed"}
  BY <1>0 DEF TypeOK, Name, Tagging
<1>2. RealId(into) \in Name
  BY <1>0, <1>1, IdOf
<1>3. answer' \in [Query -> SUBSET (Album \cup Placeholder)]
  BY <1>0 DEF TypeOK
<1>4. CASE into = None
  <2>1. Calls(v, "done", names[v])
    BY <1>4 DEF AddVideoToAlbum, Ends
  <2>2. Chain(v)'
    BY <1>0, <1>1, <1>4, <2>1, CallsOnly DEF Stage, Chain, Tagged, Placed, Behind
  <2> QED
    BY <1>0, <1>1, <1>3, <2>1, <2>2, GoesOn DEF Stage
<1>5. CASE into # None /\ RealId(into) = None
  <2>1. Calls(v, "create", None)
    BY <1>5 DEF AddVideoToAlbum
  <2>2. into \in Placeholder /\ real[into] = None
    BY <1>5 DEF RealId
  <2>3. Chain(v)'
    BY <1>0, <1>1, <2>1, <2>2, CallsOnly, IdAssumption
    DEF Stage, Under, Chain, Tagged, Placed, Behind
  <2> QED
    BY <1>0, <1>1, <1>3, <2>1, <2>3, GoesOn DEF Stage, Under
<1>6. CASE into # None /\ RealId(into) # None
  <2>1. Calls(v, "add", RealId(into))
    BY <1>6 DEF AddVideoToAlbum
  <2>2. RealId(into) \in Album => Fits(v, RealId(into))
    BY <1>0 DEF RealId, Fits, IInv, Known
  <2>3. stage'[v] = "add" /\ names'[v] = RealId(into) /\ v \notin acted'
    BY <1>0, <1>2, <2>1, CallsOnly DEF Stage, Under
  <2>4. Chain(v)'
    BY <1>6, <2>2, <2>3 DEF Chain, Tagged, Placed, Behind, Fits
  <2> QED
    BY <1>0, <1>1, <1>2, <1>3, <1>6, <2>1, <2>4, GoesOn DEF Stage, Under
<1> QED
  BY <1>4, <1>5, <1>6

LEMMA DescriptionKeeps ==
  ASSUME IInv, NEW v \in Video, SetsDescription(v),
         UNCHANGED <<wants, real, bound, server, answer>>,
         stage[v] \in Tagging, "complete" \in has[v],
         "title" \in wants[v].sets => "title" \in has[v]
  PROVE  IInv'
<1>0. v \in Op /\ TypeOK /\ names[v] \in Name /\ stage[v] \notin {"create", "failed"}
  BY DEF Op, IInv, TypeOK, Name, Tagging
<1>1. CASE "description" \in wants[v].sets
  <2>1. Calls(v, "description", names[v])
    BY <1>1 DEF SetsDescription, Ends
  <2>2. stage'[v] = "description" /\ v \notin acted'
    BY <1>0, <2>1, CallsOnly DEF Stage, Under, Tagging
  <2>3. Chain(v)'
    BY <2>2 DEF Chain, Tagged, Placed, Behind, server
  <2> QED
    BY <1>0, <2>1, <2>3, GoesOn DEF Stage, Under, Tagging, TypeOK
<1>2. CASE "description" \notin wants[v].sets
  BY <1>2, AddsKeeps DEF SetsDescription
<1> QED
  BY <1>1, <1>2

\* The callbacks of the chain, but for the one of an album that was created.
LEMMA AnsweredKeeps ==
  ASSUME IInv, NEW v \in Video, Answered(v), ~AlbumCreated(v)
  PROVE  IInv'
<1>0. /\ v \in Op /\ TypeOK /\ names[v] \in Name
      /\ answer \in [Query -> SUBSET (Album \cup Placeholder)]
  BY DEF Op, IInv, TypeOK, Name
<1>1. ASSUME NEW from \in {"quota", "ticket", "file", "verify"},
             NEW to \in {"ticket", "file", "verify", "complete"}, Passes(v, from, to)
      PROVE  IInv'
  BY <1>0, <1>1, EndsBadly, GoesOn DEF Passes, Ends, Stage, Under, Tagging
<1>2. ASSUME UploadComplete(v) PROVE IInv'
  <2>1. "complete" \in has[v] /\ stage[v] \in Tagging
    BY <1>2 DEF UploadComplete, IInv, Chain, Tagged, Behind, Tagging
  <2>2. CASE "title" \in wants[v].sets
    <3>1. Calls(v, "title", names[v])
      BY <1>2, <2>2 DEF UploadComplete, Ends
    <3>2. stage'[v] = "title" /\ v \notin acted'
      BY <1>0, <3>1, CallsOnly DEF Stage, Under, Tagging
    <3>3. Chain(v)'
      BY <1>2, <2>1, <3>2 DEF UploadComplete, Chain, Tagged, Placed, Behind, server
    <3> QED
      BY <1>0, <1>2, <3>1, <3>3, GoesOn DEF UploadComplete, Stage, Under, Tagging
  <2>3. CASE "title" \notin wants[v].sets
    BY <1>2, <2>1, <2>3, DescriptionKeeps DEF UploadComplete
  <2> QED
    BY <2>2, <2>3
<1>3. ASSUME TitleSet(v) PROVE IInv'
  BY <1>3, DescriptionKeeps DEF TitleSet, IInv, Chain, Tagged, Behind, Tagging
<1>4. ASSUME DescriptionSet(v) PROVE IInv'
  BY <1>4, AddsKeeps DEF DescriptionSet, IInv, Chain, Tagged, Behind, Tagging
<1>5. ASSUME AddedToAlbum(v) PROVE IInv'
  <2>1. Calls(v, "done", names[v])
    BY <1>5 DEF AddedToAlbum, Ends
  <2>2. stage'[v] = "done"
    BY <1>0, <2>1, CallsOnly DEF Stage
  <2>3. Chain(v)'
    BY <1>5, <2>2 DEF AddedToAlbum, IInv, Chain, Tagged, Placed, Behind, Fits, server
  <2> QED
    BY <1>0, <1>5, <2>1, <2>3, GoesOn DEF AddedToAlbum, Stage
<1>6. ASSUME Fails(v) PROVE IInv'
  BY <1>0, <1>6, EndsBadly, GoesOn DEF Fails, Ends, Stage
<1> QED
  BY <1>1, <1>2, <1>3, <1>4, <1>5, <1>6 DEF Answered, GotQuota, GotTicket, FileSent, Verified

\* The placeholder of the album is found: the album lies[v] was made for it.
LEMMA AlbumCreatedKeeps == ASSUME IInv, NEW v \in Video, AlbumCreated(v) PROVE IInv'
<1> USE DEF server
<1> DEFINE into == wants[v].into
<1>0. /\ v \in Op /\ TypeOK /\ Chain(v) /\ names[v] \in Name /\ Calls(v, "done", names[v])
      /\ UNCHANGED <<wants, bound, has, lies, of, seen, answer>>
  BY DEF Op, IInv, TypeOK, Name, AlbumCreated, Ends
<1>1. into \in Placeholder /\ lies[v] \in Album /\ of[lies[v]] = into
  BY <1>0 DEF AlbumCreated, Chain, Placed
<1>2. PICK i \in {lies[v], NullId} : real' = [real EXCEPT ![into] = i]
  BY DEF AlbumCreated
<1>3. i \notin {"unknown", None} /\ (i \in Album => i = lies[v])
  BY <1>1, IdAssumption DEF NullId
<1>4. \A p \in Placeholder : real'[p] = IF p = into THEN i ELSE real[p]
  BY <1>0, <1>2 DEF TypeOK
<1>5. /\ stage' \in [Op -> Stage] /\ names' \in [Op -> Name]
      /\ acted' \subseteq {o \in Op : stage'[o] \in Under} /\ stage'[v] = "done"
      /\ \A o \in Op \ {v} : /\ stage'[o] = stage[o] /\ names'[o] = names[o]
                             /\ o \in acted' <=> o \in acted
  BY <1>0, CallsOnly DEF Stage
<1>6. TypeOK'
  <2>1. real' \in [Placeholder -> {"unknown", None, NullId} \cup Album]
    BY <1>0, <1>1, <1>2 DEF TypeOK
  <2>2. \A u \in Video : stage'[u] = "add" => names'[u] # None
    BY <1>0, <1>5 DEF TypeOK, Op
  <2> QED
    BY <1>0, <1>5, <2>1, <2>2 DEF TypeOK, Stage, Name
<1>7. ASSUME NEW u \in Video PROVE Chain(u)'
  <2>1. CASE u = v
    BY <1>0, <1>1, <1>5, <2>1 DEF AlbumCreated, Chain, Tagged, Placed, Behind, Fits
  <2>2. CASE u # v
    <3>1. /\ stage'[u] = stage[u] /\ names'[u] = names[u] /\ (u \in acted' <=> u \in acted)
          /\ Tagged(u) /\ Placed(u)
      BY <1>5, <2>2 DEF IInv, Chain, Op
    <3>2. \A p \in Placeholder : real[p] # "unknown" => real'[p] # "unknown"
      BY <1>3, <1>4
    <3>3. Tagged(u)'
      BY <1>0, <3>1 DEF Tagged, Behind
    <3>4. Placed(u)'
      BY <1>0, <3>1, <3>2 DEF Placed, Behind, Fits
    <3> QED
      BY <3>3, <3>4 DEF Chain
  <2> QED
    BY <2>1, <2>2
<1>8. ASSUME NEW p \in Placeholder PROVE Known(p)'
  <2>1. CASE p = into
    BY <1>0, <1>1, <1>3, <1>4, <2>1 DEF Known, MadeFor
  <2>2. CASE p # into
    <3>1. \A u \in Video : wants[u].into = p => stage'[u] = stage[u]
      BY <1>5, <2>2 DEF Op
    <3> QED
      BY <1>0, <1>4, <2>2, <3>1 DEF IInv, Known, MadeFor
  <2> QED
    BY <2>1, <2>2
<1>9. ASSUME NEW q \in Query PROVE AskedAbout(q)'
  BY <1>5, IdAssumption DEF IInv, AskedAbout, Op
<1> QED
  BY <1>6, <1>7, <1>8, <1>9 DEF IInv

-----------------------------------------------------------------------------
(* Collections, and what comes before a request.                           *)

\* No album can have been made for a collection that was not there.
LEMMA CollectionsCreateKeeps ==
  ASSUME IInv, NEW p \in Placeholder, CollectionsCreate(p) PROVE IInv'
<1> USE DEF server
<1>0. /\ TypeOK /\ real[p] = "unknown" /\ real' = [real EXCEPT ![p] = None]
      /\ UNCHANGED <<wants, stage, names, bound, acted, has, lies, of, seen, answer>>
  BY DEF IInv, CollectionsCreate
<1>1. \A r \in Placeholder : real'[r] = IF r = p THEN None ELSE real[r]
  BY <1>0 DEF TypeOK
<1>2. TypeOK'
  BY <1>0 DEF TypeOK
<1>3. ASSUME NEW v \in Video PROVE Chain(v)'
  <2>1. Tagged(v)'
    BY <1>0 DEF IInv, Chain, Tagged, Behind
  <2>2. Placed(v)'
    BY <1>0, <1>1 DEF IInv, Chain, Placed, Behind, Fits
  <2> QED
    BY <2>1, <2>2 DEF Chain
<1>4. ASSUME NEW r \in Placeholder PROVE Known(r)'
  BY <1>0, <1>1, IdAssumption DEF IInv, Known, MadeFor
<1> QED
  BY <1>0, <1>2, <1>3, <1>4 DEF IInv, AskedAbout

LEMMA CheckedKeeps == ASSUME IInv, CheckedAccessToken PROVE IInv'
<1> USE DEF CheckedAccessToken, server
<1>1. TypeOK'
  BY DEF IInv, TypeOK
<1>2. \A v \in Video : Chain(v)'
  BY DEF IInv, Chain, Tagged, Placed, Behind, Fits
<1>3. \A p \in Placeholder : Known(p)'
  BY DEF IInv, Known, MadeFor
<1> QED
  BY <1>1, <1>2, <1>3 DEF IInv, AskedAbout

LEMMA AskKeeps == ASSUME IInv, NEW o \in Op, Ask(o) PROVE IInv'
<1>1. /\ TypeOK /\ names[o] \in Name /\ answer \in [Query -> SUBSET (Album \cup Placeholder)]
  BY DEF IInv, TypeOK, Name
<1> QED
  BY <1>1, EndsBadly, GoesOn DEF Ask, Ends, Stage

LEMMA UploadVideoKeeps == ASSUME IInv, NEW v \in Video, UploadVideo(v) PROVE IInv'
<1>1. /\ v \in Op /\ names[v] \in Name /\ answer \in [Query -> SUBSET (Album \cup Placeholder)]
  BY DEF Op, IInv, TypeOK, Name
<1> QED
  BY <1>1, EndsBadly, GoesOn DEF UploadVideo, Ends, Stage, Under

\* A request for a list or for details: it names what it was asked about, and is told
\* of albums that the server has and of placeholders.
LEMMA LooksKeeps == ASSUME IInv, NEW q \in Query, Looks(q) PROVE IInv'
<1>0. /\ q \in Op /\ q \notin Video /\ TypeOK /\ names[q] \in Name
      /\ answer \in [Query -> SUBSET (Album \cup Placeholder)]
      /\ stage[q] = "asked" /\ names[q] \in {"list"} \cup Album \cup Placeholder
      /\ UNCHANGED <<wants, real, bound, server>>
  BY IdAssumption, VimeoAssumption
  DEF Op, IInv, TypeOK, Name, Looks, CollectionsGetList, CollectionsGetDetails, AskedAbout
<1>1. ASSUME NEW i \in Name, AsksAlbums(q, i) PROVE IInv'
  BY <1>0, <1>1, GoesOn DEF AsksAlbums, Stage, Under
<1>2. CASE CollectionsGetList(q)
  BY <1>1, <1>2 DEF CollectionsGetList, Name
<1>3. CASE CollectionsGetDetails(q)
  <2>1. CASE RealId(names[q]) # None /\ AsksAlbums(q, RealId(names[q]))
    BY <1>0, <1>1, <1>3, <2>1, IdOf DEF CollectionsGetDetails
  <2>2. CASE /\ RealId(names[q]) = None
             /\ Ends(q, "done")
             /\ answer' = [answer EXCEPT ![q] = {names[q]}]
    <3>1. names[q] \in Album \cup Placeholder
      BY <1>0, <1>3 DEF CollectionsGetDetails
    <3>2. answer' \in [Query -> SUBSET (Album \cup Placeholder)]
      BY <1>0, <2>2, <3>1
    <3> QED
      BY <1>0, <2>2, <3>2, GoesOn DEF Ends, Stage
  <2> QED
    BY <1>3, <2>1, <2>2 DEF CollectionsGetDetails
<1> QED
  BY <1>2, <1>3 DEF Looks

LEMMA FoundKeeps == ASSUME IInv, NEW q \in Query, Found(q) PROVE IInv'
<1>0. /\ q \in Op /\ q \notin Video /\ TypeOK /\ names[q] \in Name
      /\ answer \in [Query -> SUBSET (Album \cup Placeholder)] /\ seen[q] \subseteq Album
      /\ stage[q] \in Under /\ UNCHANGED <<wants, real, bound, server>>
  BY IdAssumption DEF Op, IInv, TypeOK, Name, Found, GotList, GotDetails, Fails, Under
<1>1. stage[q] = "listing" \/ Fails(q)
  BY DEF Found, GotList, GotDetails
<1>2. ASSUME NEW s \in {"done", "failed"}, Ends(q, s),
             stage[q] \in {"create", "failed"} => s = "failed",
             answer' \in [Query -> SUBSET (Album \cup Placeholder)]
      PROVE  IInv'
  BY <1>0, <1>2, GoesOn DEF Ends, Stage
<1>3. CASE GotList(q)
  <2>1. answer' \in [Query -> SUBSET (Album \cup Placeholder)]
    BY <1>0, <1>3 DEF GotList
  <2> QED
    BY <1>2, <1>3, <2>1 DEF GotList
<1>4. CASE GotDetails(q)
  <2>1. answer' \in [Query -> SUBSET (Album \cup Placeholder)]
    BY <1>0, <1>4 DEF GotDetails
  <2> QED
    BY <1>2, <1>4, <2>1 DEF GotDetails
<1>5. CASE Fails(q)
  BY <1>0, <1>2, <1>5 DEF Fails
<1> QED
  BY <1>3, <1>4, <1>5 DEF Found

LEMMA NextIInv == IInv /\ [Next]_vars => IInv'
<1> SUFFICES ASSUME IInv, [Next]_vars PROVE IInv'
  OBVIOUS
<1>1. ASSUME UNCHANGED vars PROVE IInv'
  <2> USE <1>1 DEF vars, server
  <2>1. TypeOK'
    BY DEF IInv, TypeOK
  <2>2. \A v \in Video : Chain(v)'
    BY DEF IInv, Chain, Tagged, Placed, Behind, Fits
  <2>3. \A p \in Placeholder : Known(p)'
    BY DEF IInv, Known, MadeFor
  <2> QED
    BY <2>1, <2>2, <2>3 DEF IInv, AskedAbout
<1> QED
  BY <1>1, CheckedKeeps, CollectionsCreateKeeps, AskKeeps, TagsKeeps, PutsKeeps, CreatesKeeps,
     UploadVideoKeeps, AnsweredKeeps, AlbumCreatedKeeps, ListsKeeps, LooksKeeps, FoundKeeps
  DEF Next, Handles

LEMMA IInvHolds == Spec => []IInv
BY InitIInv, NextIInv, PTL DEF Spec

-----------------------------------------------------------------------------
(* Theorems.                                                               *)

\* No callback of the chain leaves a stage, an id or an answer of the wrong kind, and
\* none asks Vimeo for an album without having an id to name it by.
THEOREM TypeCorrect == Spec => []TypeOK
<1>1. IInv => TypeOK
  BY DEF IInv
<1> QED
  BY <1>1, IInvHolds, PTL

\* upload_completed_cb and what follows it: when 100 is reported the video is on Vimeo,
\* with its title and description, in the collection or an album made for it.
THEOREM DoneIsTrue == Spec => []VerdictIsTrue
<1>1. IInv => VerdictIsTrue
  <2> SUFFICES ASSUME IInv, NEW v \in Video, stage[v] = "done"
               PROVE  /\ {"complete"} \cup wants[v].sets \subseteq has[v]
                      /\ wants[v].into # None =>
                           lies[v] # None /\ (wants[v].into \in {lies[v], of[lies[v]]})
    BY DEF VerdictIsTrue
  <2>1. wants[v].sets \subseteq {"title", "description"}
    BY VimeoAssumption DEF IInv, TypeOK, Wish
  <2>2. {"complete"} \cup wants[v].sets \subseteq has[v]
    BY <2>1 DEF IInv, Chain, Tagged, Behind
  <2>3. wants[v].into # None => lies[v] \in Album /\ Fits(v, lies[v])
    BY DEF IInv, Chain, Placed, Behind
  <2> QED
    BY <2>2, <2>3, IdAssumption DEF Fits
<1> QED
  BY <1>1, IInvHolds, PTL

\* Only add_video_to_album makes an album, for a placeholder that has none.
LEMMA Creating ==
  ASSUME IInv, [Next]_vars, NEW v \in Video, stage[v] # "create", stage'[v] = "create"
  PROVE  /\ stage[v] \in Tagging /\ wants[v].into \in Placeholder
         /\ real[wants[v].into] = None
<1> USE DEF Ends, Calls
<1>0. stage \in [Op -> Stage] /\ v \in Op
  BY DEF IInv, TypeOK, Stage, Op
<1>1. ASSUME NEW u \in Video, AddVideoToAlbum(u), stage[u] \in Tagging
      PROVE  /\ stage[v] \in Tagging /\ wants[v].into \in Placeholder
             /\ real[wants[v].into] = None
  <2>1. u = v
    BY <1>0, <1>1 DEF AddVideoToAlbum, Op
  <2>2. wants[v].into # None /\ RealId(wants[v].into) = None
    BY <1>0, <1>1, <2>1 DEF AddVideoToAlbum
  <2> QED
    BY <1>1, <2>1, <2>2 DEF RealId
<1>2. ASSUME NEW u \in Video, Answered(u)
      PROVE  stage[u] \in Tagging /\ AddVideoToAlbum(u)
  BY <1>0, <1>2
  DEF Answered, GotQuota, GotTicket, FileSent, Verified, Passes, UploadComplete, TitleSet,
      DescriptionSet, SetsDescription, AddedToAlbum, AlbumCreated, Fails, Tagging, Op
<1>3. ASSUME NEW q \in Query PROVE ~Looks(q) /\ ~Found(q)
  BY <1>0
  DEF Looks, CollectionsGetList, CollectionsGetDetails, AsksAlbums, Found, GotList, GotDetails,
      Fails, Op
<1>4. ASSUME NEW u \in Video PROVE ~UploadVideo(u)
  BY <1>0 DEF UploadVideo, Op
<1> QED
  BY <1>0, <1>1, <1>2, <1>3, <1>4
  DEF Next, vars, CheckedAccessToken, CollectionsCreate, Ask, Tags, Puts, Creates, Lists, Handles

\* add_video_to_album and collections_create_cb: nothing marks a placeholder whose album
\* is being made, and a lost answer leaves it without; but nothing else makes a second.
THEOREM SecondAlbumExplained == Spec => SecondAlbumIsExplained
<1>1. IInv /\ [Next]_vars =>
        \A v \in Video :
          stage[v] # "create" /\ stage'[v] = "create"
            /\ (\E a \in Album : of[a] = wants[v].into)
          => \E u \in Video \ {v} :
               wants[u].into = wants[v].into /\ stage[u] \in {"create", "failed"}
  <2> SUFFICES ASSUME IInv, [Next]_vars, NEW v \in Video,
                      stage[v] # "create", stage'[v] = "create",
                      NEW a \in Album, of[a] = wants[v].into
               PROVE  \E u \in Video \ {v} :
                        wants[u].into = wants[v].into /\ stage[u] \in {"create", "failed"}
    OBVIOUS
  <2>1. /\ stage[v] \in Tagging /\ wants[v].into \in Placeholder
        /\ real[wants[v].into] = None
    BY Creating
  <2>2. MadeFor(wants[v].into) # {}
    BY DEF MadeFor
  <2>3. PICK u \in Video : wants[u].into = wants[v].into /\ stage[u] \in {"create", "failed"}
    BY <2>1, <2>2 DEF IInv, Known
  <2> QED
    BY <2>1, <2>3 DEF Tagging
<1> QED
  BY <1>1, IInvHolds, PTL DEF Spec, SecondAlbumIsExplained

\* Only the answer to the call for the albums ends a request for the list.
LEMMA Listed ==
  ASSUME IInv, [Next]_vars, NEW q \in Query,
         stage[q] = "listing", stage'[q] = "done", names[q] = "list"
  PROVE  answer'[q] = seen[q] \cup {p \in Placeholder : real[p] = None}
<1> USE DEF Ends, Calls
<1>0. stage \in [Op -> Stage] /\ q \in Op /\ q \notin Video
  BY IdAssumption DEF IInv, TypeOK, Stage, Op
<1>1. ASSUME NEW v \in Video PROVE ~Answered(v) /\ ~UploadVideo(v)
  <2>1. \A s, i : ~Calls(v, s, i)
    BY <1>0 DEF Op
  <2> HIDE DEF Calls
  <2> QED
    BY <2>1
    DEF Answered, GotQuota, GotTicket, FileSent, Verified, Passes, UploadComplete, TitleSet,
        DescriptionSet, SetsDescription, AddVideoToAlbum, AddedToAlbum, AlbumCreated, Fails,
        UploadVideo
<1>2. ASSUME NEW r \in Query, Looks(r) \/ Found(r) PROVE r = q /\ GotList(r)
  BY <1>0, <1>2
  DEF Looks, CollectionsGetList, CollectionsGetDetails, AsksAlbums, Found, GotList, GotDetails,
      Fails, Op
<1>3. GotList(q)
  BY <1>0, <1>1, <1>2
  DEF Next, vars, CheckedAccessToken, CollectionsCreate, Ask, Tags, Puts, Creates, Lists, Handles
<1> QED
  BY <1>3 DEF GotList, IInv, TypeOK

\* got_album_list_cb: the table is read when the answer has come, and the albums were
\* read before that; only what happened in between can make the list wrong.
THEOREM ListExplained == Spec => ListIsExplained
<1>1. IInv /\ [Next]_vars =>
        \A q \in Query, p \in Placeholder :
          stage[q] = "listing" /\ stage'[q] = "done" /\ names[q] = "list" /\ real[p] # "unknown"
          => LET albums == {a \in Album : of[a] = p}
             IN /\ answer'[q] \cap (albums \cup {p}) = {} => albums \ seen[q] # {}
                /\ p \in answer'[q] /\ answer'[q] \cap albums # {} =>
                     \E v \in Video : wants[v].into = p /\ stage[v] \in {"create", "failed"}
  <2> SUFFICES ASSUME IInv, [Next]_vars, NEW q \in Query, NEW p \in Placeholder,
                      stage[q] = "listing", stage'[q] = "done", names[q] = "list",
                      real[p] # "unknown"
               PROVE  /\ answer'[q] \cap (MadeFor(p) \cup {p}) = {} => MadeFor(p) \ seen[q] # {}
                      /\ p \in answer'[q] /\ answer'[q] \cap MadeFor(p) # {} =>
                           \E v \in Video : wants[v].into = p /\ stage[v] \in {"create", "failed"}
    BY DEF MadeFor
  <2>1. answer'[q] = seen[q] \cup {r \in Placeholder : real[r] = None}
    BY Listed
  <2>2. seen[q] \subseteq Album /\ Known(p)
    BY DEF IInv, TypeOK
  <2>3. answer'[q] \cap (MadeFor(p) \cup {p}) = {} => MadeFor(p) \ seen[q] # {}
    BY <2>1, <2>2 DEF Known
  <2>4. p \in answer'[q] /\ answer'[q] \cap MadeFor(p) # {} =>
          \E v \in Video : wants[v].into = p /\ stage[v] \in {"create", "failed"}
    BY <2>1, <2>2, IdAssumption DEF Known
  <2> QED
    BY <2>3, <2>4
<1> QED
  BY <1>1, IInvHolds, PTL DEF Spec, ListIsExplained

-----------------------------------------------------------------------------
(* Whoever asks sees a SwRequests.                                         *)

standing == [o \in Op |-> Standing(o)]

\* How far a request may go in one step.
Moves(o, s) ==
  \/ stage[o] = "idle" /\ s = "asked"
  \/ stage[o] = "asked" /\ s \in {"refused", "quota", "listing", "done"}
  \/ stage[o] = "asked" /\ s = "dropped" /\ ~bound /\ o \in Query
  \/ stage[o] = "listing" /\ s \in {"done", "failed"}
  \/ stage[o] \in Under \ {"listing"} /\ s \in (Under \ {"listing"}) \cup {"done", "failed"}

LEMMA StageMoves ==
  ASSUME IInv, [Next]_vars, stage' # stage
  PROVE  \E o \in Op, s \in Stage : stage' = [stage EXCEPT ![o] = s] /\ Moves(o, s)
<1> USE DEF Ends, Calls, Stage, Under, Tagging
<1>1. ASSUME NEW v \in Video, Answered(v) \/ UploadVideo(v)
      PROVE  \E s \in Stage : stage' = [stage EXCEPT ![v] = s] /\ Moves(v, s)
  <2>1. CASE UploadVideo(v)
    BY <2>1 DEF UploadVideo, Moves
  <2>2. ASSUME AddVideoToAlbum(v), stage[v] \in Tagging
        PROVE  \E s \in Stage : stage' = [stage EXCEPT ![v] = s] /\ Moves(v, s)
    BY <2>2 DEF AddVideoToAlbum, Moves
  <2>3. ASSUME SetsDescription(v), stage[v] \in Tagging
        PROVE  \E s \in Stage : stage' = [stage EXCEPT ![v] = s] /\ Moves(v, s)
    BY <2>2, <2>3 DEF SetsDescription, Moves
  <2>4. CASE UploadComplete(v)
    BY <2>3, <2>4 DEF UploadComplete, Moves
  <2>5. CASE TitleSet(v) \/ DescriptionSet(v)
    BY <2>2, <2>3, <2>5 DEF TitleSet, DescriptionSet
  <2>6. CASE AddedToAlbum(v) \/ AlbumCreated(v) \/ Fails(v)
    BY <2>6 DEF AddedToAlbum, AlbumCreated, Fails, Moves
  <2>7. CASE GotQuota(v) \/ GotTicket(v) \/ FileSent(v) \/ Verified(v)
    BY <2>7 DEF GotQuota, GotTicket, FileSent, Verified, Passes, Moves
  <2> QED
    BY <1>1, <2>1, <2>4, <2>5, <2>6, <2>7 DEF Answered
<1>2. ASSUME NEW q \in Query, Looks(q) \/ Found(q)
      PROVE  \E s \in Stage : stage' = [stage EXCEPT ![q] = s] /\ Moves(q, s)
  <2>1. CASE Looks(q)
    BY <2>1 DEF Looks, CollectionsGetList, CollectionsGetDetails, AsksAlbums, Moves
  <2>2. CASE Found(q)
    BY <2>2 DEF Found, GotList, GotDetails, Fails, Moves
  <2> QED
    BY <1>2, <2>1, <2>2
<1>3. ASSUME NEW o \in Op, Ask(o)
      PROVE  \E s \in Stage : stage' = [stage EXCEPT ![o] = s] /\ Moves(o, s)
  BY <1>3 DEF Ask, Moves
<1> QED
  BY <1>1, <1>2, <1>3
  DEF Next, vars, CheckedAccessToken, CollectionsCreate, Tags, Puts, Creates, Lists, Handles, Op

\* Every step is a step of SwRequests or none: an upload that was accepted has one
\* verdict at most, and none is dropped (the safety part of ImplementsRequests).
THEOREM VerdictIsToldOnce == Spec => Requests!Safety
<1>1. Init => Requests!Init
  BY DEF Init, Requests!Init, Standing, Under, Tagging
<1>2. IInv /\ [Next]_vars => [Requests!Next]_standing
  <2> SUFFICES ASSUME IInv, [Next]_vars PROVE [Requests!Next]_standing
    OBVIOUS
  <2>1. CASE UNCHANGED stage
    BY <2>1 DEF standing, Standing
  <2>2. CASE stage' # stage
    <3>1. PICK o \in Op, s \in Stage : stage' = [stage EXCEPT ![o] = s] /\ Moves(o, s)
      BY <2>2, StageMoves
    <3>2. stage'[o] = s /\ \A q \in Op \ {o} : Standing(q)' = Standing(q)
      BY <3>1 DEF IInv, TypeOK, Standing
    <3>3. standing' = [standing EXCEPT ![o] = Standing(o)']
      BY <3>2 DEF standing
    <3>4. Standing(o)' = Standing(o) => UNCHANGED standing
      BY <3>3 DEF standing
    <3>5. \/ Standing(o) = "idle" /\ Standing(o)' = "asked"
          \/ Standing(o) = "asked" /\ Standing(o)' \in {"refused", "accepted", "failed", "complete"}
          \/ Standing(o) = "asked" /\ Standing(o)' = "dropped" /\ ~bound /\ o \in Query
          \/ Standing(o) = "accepted" /\ Standing(o)' \in {"failed", "complete"}
          \/ Standing(o)' = Standing(o)
      BY <3>1, <3>2 DEF Moves, Standing, Under, Tagging
    <3>6. standing[o] = Standing(o)
      BY DEF standing
    <3> QED
      BY <3>3, <3>4, <3>5, <3>6
      DEF Requests!Next, Requests!Ask, Requests!Handle, Requests!Conclude, Requests!Goes,
          Requests!Verdict, standing
  <2> QED
    BY <2>1, <2>2
<1> QED
  BY <1>1, <1>2, IInvHolds, PTL DEF Spec, Requests!Safety, standing
=============================================================================
