# Verification of libsocialweb

libsocialweb is a D-Bus daemon that fetches items, contacts and status updates
from web services (Flickr, Twitter, Facebook, Last.fm, ...) and shows them to
desktop clients through *views*. This directory holds TLA+ models of its core,
the TLC runs that check them and TLAPS proofs about them. Paths below are
relative to the repository.

## 1. The system

The daemon is one process with one GLib main loop. Every handler (bus method,
HTTP reply, timer, signal of another object) runs to its end before the next
one starts, so a handler is one atomic step. What makes the code hard is what
happens *between* handlers: keyring lookups, HTTP calls, image downloads and
timers are started in one handler and end in another, by which time the account,
the network, the view or the item may have changed; and a signal of one object
runs handlers of others in the middle of a handler.

| Component | State | Operations | Correct when |
|---|---|---|---|
| Item view `libsocialweb/sw-item-view.c` | set of items, items pending an image, changed items, two timers, uid table | result sets, item notifications, timers, hide, close | every item and update is announced, once ready, and nothing else |
| Items, sets `sw-item.c`, `sw-set.c` | key/value table, images being fetched | request and end of a fetch, equality | readiness is signalled when the last delaying fetch ends |
| Contact view `sw-contact-view.c`, item stream `sw-item-stream.c` | as the item view | as the item view | as the item view |
| Service base `sw-service.c` | ban list | capability and user signals, HideItem | clients know the capabilities; hidden items stay hidden |
| Bans, cache `sw-banned.c`, `sw-cache.c` | files | load, save, drop | bans outlive the daemon if the disk does its part; a cache belongs to its account |
| Flickr service `services/flickr/flickr.c` | configured, authorised, proxies | credentials lookup and check, network notices, open view, upload | capabilities announced are those the service has |
| Flickr credentials manager (keyring, GOA) | one token pair | load, check, both asynchronous | an answer is about the credentials it was asked for |
| Flickr item and contact views | timer, proxy, query | start, stop, refresh, replies, service signals | show the current account's photos |
| Network `sw-online.c` | state, listeners | notices, delayed by 1.5 s when connected | listeners converge to the state of the network |
| Core `sw-core.c`, `sw-client-monitor.c` | services, objects per client | load modules, track and drop clients | views of a vanished client are released |
| Client library `libsocialweb-client/` | copies of items, closures of calls, signal handlers | apply signals, call, upload and wait for its signal | copies follow the daemon; every call comes back, with the truth |
| Views of the other services `services/*/*-view.c`, `sw-call-list.c` | timer, calls in flight, entries gathered so far | as Flickr's, with rounds of several calls | results are complete, of one account, without hidden items |
| Credentials of the other services `services/*` | login or token, flags, user | lookup, login, check, network notices, updates | what clients were told last is so |
| Requests: uploads, status updates, collections `services/*` | calls in flight; Vimeo's placeholders | one HTTP call each; a chain of them for Vimeo | each is answered, once, with the truth |
| Keyrings, keystore | none | lookups | |

Interactions: a **client** calls a service over D-Bus to open a view; the service
builds a **view** that holds the service's proxy and connects to its signals
`capabilities-changed`, `user-changed` and `item-hidden`; the view fetches,
builds **items**, hands sets of them to the generic view, which talks to the
client's copy through `ItemsAdded`, `ItemsChanged`, `ItemsRemoved`. Items
request images and signal `ready` and `changed` when they come. The service is
driven by the **network notifier**, by `CredentialsUpdated` calls and by the
answers of its **credentials manager**, which it shares with its views.

The hazards of this structure, each at its line, are in `PROJECT.json`.

## 2. Modules

`SwItemView` - the generic view, its items and its client. An object of `Item`
is one `SwItem` in memory; two objects may have one uid, as when a later fetch
returns the same item again. `SetFromSet` is one call of
`sw_item_view_set_from_set` with everything it calls; `FetchDone` is the end of
an image download with the item's notifications and the view's handlers;
`HandleReadyPending` and `ItemChangedTimeout` are the two timers; `RemoveByUid`
is `item-hidden`; `Close` closes and disposes. `shown` is the client's copy.
Signals of one view arrive in order, so the client applies them in the step
that sends them. `pending_first` keeps the one order that real time imposes on
the two timers.

`SwViews` - the three classes over the state of `SwItemView`: the item view, the
contact view, which is the same code again with an equality of its own, and the
item stream, which announces every object that it is given and keeps no set.
`kind` chooses the class when the view is built.

Three small modules are contracts, which detailed modules implement and others
live on:

- `SwServiceCaps` - a Flickr service towards whoever listens: configured or not,
  and exactly one verdict on its credentials while it is. Implemented by
  `FlickrService`, used by `FlickrItemView`.
- `SwServiceSignals` - the other services towards their views: the capability
  `credentials-valid` may be lost without a signal but not gained. Implemented by
  `ServiceCredentials`, used by `ServiceViews`.
- `SwRequests` - whoever takes requests: each is refused or ends once and for ever;
  it is dropped without a word only where the implementation says that it may be
  (`silent`), and never once it was accepted, when it does end. Implemented by
  `ServiceRequests`, `VimeoUpload` and `FlickrCredentialsGoa`, used by
  `ClientService` as the daemon behind the bus.

`FlickrService` - the service, its manager, the credential side of its views,
and NetworkManager. `lookups[o][a]` counts keyring lookups of owner `o` that
will answer `a`; the answer is fixed when the request reaches the keyring, and
answers may overtake each other. `checks[t]` counts checks of token `t` in
flight. `ServiceLookupDone` is `_on_credentials_available` with the emission in
its middle and the views' handlers that run inside that emission. The module
implements `SwServiceCaps`.

`FlickrCredentialsGoa` - the manager that builds with GNOME Online Accounts use
instead of the keyring. The service and its views share it, and a load is two
D-Bus calls that fill fields of the one object (`Clear`, `OnManagedObjects`,
`OnAccessToken`); a check asks about the account that the fields then name. What
`GetManagedObjects` answers is fixed when GOA sends it (`GoaLists`) and read when it
is received, by which time accounts may have come or gone. `crowded` and `overtaken`
only record that loads overlapped, and `without` which loads looked for an account
at a moment when there was none, for the properties.

`FlickrItemView` - views over account changes, bans, the shared cache file and
restarts. A write of the cache file may fail (`CacheSave`); the list of bans may be
read in part (`LoadBans`), not be written, or be written in part over the old one
(`SaveBans`). `hidden` and `whole` only record what was ever hidden and where, to
go by the reads and writes that succeeded, all of it is. The module listens to a service that is only known to follow `SwServiceCaps`,
so what is shown about it does not depend on how verdicts come about.

`ServiceViews` - the item and contact views of Twitter, Facebook, Last.fm,
Vimeo, MySpace, Plurk, Sina and YouTube. Each was copied from another and
changed; `view` is a record of the points where they differ (what they require
before they ask, one call or several, whether calls are listed and cancelled,
whether replies are filtered, which signals they hear), and the thirteen records
of `Class` are read off the thirteen views. The actions are the handlers they
share: `Request` is `_get_status_updates` and its siblings, `IndexReceived`,
`PartReceived` and `ImageReceived` are the replies of a round of calls,
`UpdateIfDone` hands on what it gathered, `ServiceChanges` is any change of the
account or of the credentials with the signals that come with it, a step of
`SwServiceSignals`. Two classes
with equal records (Twitter's timeline, Plurk, MySpace, Sina's own timeline)
are one behaviour. `crossed` only records that what was asked of one account went
on with another, which two calls allow: Twitter's call for the ids is not in the
list that a request cancels, and Sina's second call is signed with the tokens the
proxy holds by then.

`ServiceCredentials` - how ten services come to believe that the credentials are
right. Four log in with a name and a password and six put a token into a proxy
and ask whose it is; the record of a class says which flags it keeps, what the
network does to them and what each kind of answer does. Lookups and calls are
slots that are never cancelled, so an answer may be about an account that is
gone. `heard` is what the last signal said.

`ServiceRequests` - the 24 methods that are one HTTP call: uploads, status
updates and collections of nine services. A method is a record: when the
service has a proxy for it, what it checks first, what the caller hears at once,
while the file is written and at the end. `Asks`, `Rejects`, `Lacks`, `Sends`,
`Progress` and `CallEnds` are the steps that all of them share. SmugMug goes on
referring to proxies it has given up (`"freed"`): such a proxy works or does not.

`VimeoUpload` - Vimeo's uploads are chains of up to eight calls (`UploadVideo` to
`AlbumCreated`), each made by the callback of the one before; the server carries
a call out (`Tags`, `Puts`, `Creates`, `Lists`) at some moment before it is
answered, and the answer may be an error all the same. A new collection is a
placeholder until the first video is in it; lists and details join the server's
albums with the placeholders.

`ClientService` - the client library's calls and uploads: closures that are
freed when a call is over, handlers that are never disconnected and find their
closure by its address (`memory`), messages that arrive in order (`wire`),
time-outs, and a daemon that may be started again and numbers uploads from 1.

Each `...Proofs` module extends the module it is about, and `SwItemViewProofs`
`SwViews` too; `SwRequestsProofs` extends both the GOA manager and
`ServiceRequests`, whose definitions are therefore called after methods
(`MethodsSpec`, `MethodsTypeOK`). `MC...` modules give the constants their values. In the modules an operator called `X_Y` next to
`X` is `X` with a mistake; no action uses it, and `PROJECT.json` names, for
each property, the mistake that the property finds.

## 3. Runs

| Run | Shows | Instance |
|---|---|---|
| `views` | item view, contact view and stream: tables agree, no lost announcement or update, what comes as a surprise had waited, closed is silent | 3 objects, two of them with one uid; one delaying and one lazy image key |
| `views_liveness` | in each class, what became ready reaches the client | the same without the lazy key |
| `flickr_service` | a silent loss of authorisation is followed up, an authorised service whose uploads are not signed will mend that unless there has been a view, contract implemented | 2 tokens, one of them revoked, 1 view, 3 proxies |
| `flickr_service_liveness` | the silent loss is announced | 1 token |
| `flickr_item_view` | bans hold while the daemon runs, and over restarts unless the list was misread or not written; a view or the cache gets more only as a whole, from one answer or from the cache | 2 accounts with a photo each, 2 views |
| `service_views` | in every class: hidden items stay out where a reply is filtered and shown in one step, elsewhere they come back only if they were gathered before; a round of calls is complete and of one account, but for the two calls that may cross; a wanted view is polled | 2 accounts, one with 2 entries and one with 1, one of them can be hidden |
| `service_credentials` | in ten services what clients were told last is so, but for the listed reasons; no service but Facebook becomes valid in silence | 2 accounts, 2 lookups and 2 calls at a time, 1 late notice |
| `service_requests` | every request to each of 24 methods is refused or ends once, but for services without a proxy and two methods that forget to answer | 2 requests to one method |
| `vimeo_upload` | 100 % is the truth; a second album for a collection, and a collection that is listed twice or not at all, only in the windows that the code leaves; every chain ends with a verdict | 2 uploads, 1 placeholder, 3 albums, 1 list or details |
| `flickr_goa` | a yes is about the keys and the token of the checked account; every load and check is answered, but for loads that looked for an account at a moment when there was none | 2 accounts, 3 loads, 1 check |
| `client_service` | a success that the program is told of is one; calls come back | 2 calls, 3 messages under way, 1 restart of the daemon |
| `client_video_is_told` | (violated) the program is told how a video upload ended | the same |

Bounds. `Item` bounds the objects ever built: three are an item, its
replacement and an independent item whose timers run meanwhile, and every
hazard of the view is a meeting of two objects with one uid or of two timers.
`MaxLookups`, `MaxChecks` and `MaxNotices` are 1 per owner and answer, per token
and in total: two lookups of one owner with *different* answers still race, as
do two checks of different tokens. A handler that would exceed a bound waits;
no property of a passing run depends on a bound (the proofs are for any).
In `ServiceViews` an index names up to two entries, so that a round has two
parts and two images in flight and the last of them may be either;
`MaxChained` is 1, so that rounds of Sina's feed overlap but for their second calls;
the run has been made with 2 as well, which takes too long to be repeated each time.
`Hideable` is one entry, shown next to one that is never hidden. Calls in flight are a set; equal
calls that overlap are one element, which a reply may leave (`Answered`).
`Proxy` needs one more element than can be referred to.
In `ServiceCredentials` two slots let the answers about two accounts overtake
each other; a third call would be about one of the two. In `ServiceRequests`
requests do not touch each other; two are there so that one begins where another
ends. In `VimeoUpload` two uploads meet in one placeholder, or one goes to an old
album or nowhere, with every combination of fields for the first; two albums may
be made and one is there from the start. In `FlickrCredentialsGoa` two loads
overlap while a third comes later, over any changes of the account; one check is
enough because checks change nothing. In `ClientService` two calls are one whose
closure is freed and one that is given its memory; `MaxWire` of 3 holds the reply
and the verdict of one and a message of the other. Three calls, with liveness, are
too many for TLC; what only three of them can do (section 4) is in the theorem,
whose invariant was checked once with three calls and two messages. Symmetry is used only
in runs without liveness. The views may stop: the view is closed and all
downloads are over.

Fairness. The main loop dispatches a timer that stays set, so both timers of
the view are weakly fair; downloads need not end. The keyring daemon answers
and HTTP calls end, one way or the other, so lookups, checks and network
notices are weakly fair in `FlickrService`; users and the network do nothing
they do not want to. For the same reason every HTTP call of `ServiceRequests` and
`VimeoUpload` and every D-Bus call of `FlickrCredentialsGoa` is taken to end, well
or badly: librest and GDBus call back on an error and on a time-out. In
`ClientService` the program runs its main loop, so it receives what is under way,
and dbus-glib's time-out of a call is due; the daemon need not do anything.
`ServiceCredentials` claims safety only and has no fairness. A bounded number of
requests and calls comes to an end: `ServiceRequests`, `VimeoUpload` and
`ClientService` do not check for deadlock, nor do the views; all other runs do.

## 4. Findings

`client_video_is_told`: a program that uploads a video with
`sw_client_service_upload_video` is never called back once the daemon has accepted
it. The library connects a handler to `VideoUploadProgress`
(`libsocialweb-client/sw-client-service.c:680`) but has added only
`PhotoUploadProgress` to its proxies (`:378`), and dbus-glib delivers no signal
that was not added; the source says "And now wait for the progress signals"
(`:644`). `CallsReturn` shows that photos and plain calls do come back.

Other places where the code is not what a comment or a document says. The models
behave as the code does; the properties are stated so as to hold of it.

- `ItemsChanged` can come before `ItemsAdded`: `update_items` does not look at the
  pending set although its comment says so (`sw-item-view.c:627`), and an item
  removed while it waits for its image is announced afterwards. `StrayIsPending`
  says that a client meets no other surprise.
- An item that replaces another while its image is on its way is never reported:
  no handler is connected to it (`sw-item-view.c:824`).
- `credentials-valid` is announced for unchecked tokens: the emission comes
  before the flag of the old check is cleared (`flickr.c:212`).
- A hidden item stays in the cache file until the next result is saved, and comes
  back with the next fetch in Facebook's views and Twitter's trending topics, which
  do not look at the ban list, and in Last.fm's and Sina's feed, which look at it
  before the last reply of a round (`sw-banishable.xml:15`). In classes that do look
  there is no other way back (`HiddenReturnsOnlyGathered`).
- What was hidden may also come back after a restart, and the client is told nothing.
  If the list of bans cannot be read to its end, the daemon goes on with what it got
  (`sw-banned.c:67`), and the next `HideItem` writes that over the file; if a write
  fails after the file was opened, what was written replaces the old list
  (`sw-banned.c:122`). `HiddenReturnsByFaultOnly` says that nothing else brings an
  item back, and which later saves and restarts mend the fault.
- A configured service may be authorised while its upload proxy has no token: the
  answer to a check copies the manager's token, which a load has emptied meanwhile
  (`flickr.c:153`). If the load was the service's own, its answer leads to a new
  check; if it was a view's, the proxy stays as it is until the next one
  (`UnsignedForAWhile`).
- A load from GOA that finds no account is never answered
  (`flickr-credentials-manager-goa.c:768`). What it reads is the list that GOA sent,
  so it may be dropped although an account was added before the reply came.
- A success can be another upload's. Numbers begin at 1 again with every daemon
  (`sw-utils.c:87`), and a handler reads the number from its closure's address
  (`sw-client-service.c:590`): the program waits for what the old daemon lost and is
  told of a new upload; or a photo's closure is freed, its memory goes to a video
  that fails unheard, and the photo's handler takes the number of that video for its
  own. The proof of `SuccessIsReal` found the second, which needs three calls and a
  restart; the property names both and says that there are no others.
- Twitpic's callback takes every report of progress for the final answer, so an
  upload is called failed (-1) while it goes on (`twitter.c:819`,
  `sw-photo-upload.xml`). `TwitpicPhoto` has it.

## 5. Proofs

All theorems are about every value of the constants and are checked by TLAPS
without assumptions beyond the `ASSUME`s of the modules (which TLC evaluates).
Each module states an inductive invariant, `IInv` where it is one predicate, and
has a lemma for each action that keeps it.

`SwItemViewProofs`. Types first (`TypeCorrect`). `NoLostWakeUp` needs that an
item in the pending set that is not ready has its ready handler connected; when
the last fetch ends, the handler starts the timer, and the timer's handler
takes out exactly the ready items, so the invariant is inductive together with
the types. `NoLostUpdate` needs in addition that what was sent was sent with
the image state of its moment. `TablesStayOne` and `ContentsAreReported` are read
off four facts that are inductive only together (the tables agree; everything
contained is shown or pending under its uid; pending items are not shown as
unready; handlers). `ClosedViewIsSilent`
rests on: a closed view has no handler and no timer.

The contact view and the stream differ from the item view in the steps that bring
objects in, so the second half of the module proves that a step of any class is one
of `AnyStep`, over which the invariant was proved, and adds what the stream
needs (`VInv`): what its client holds it watches, what it watches it has reported or
is pending, and what the ten second timer will send is connected. From it follow
`EveryClassKeepsThem`, `StreamKeepsItsClientCurrent`, `EveryClassIsSilentOnceClosed`
and, as an action property, `SurprisesComeFromPending`.

`FlickrServiceProofs`. `AnnouncementsAreSound` shows `caps` and `configured` in
step, `SilentDropIsFollowedUp` that whenever `caps` is valid without the flag
something in flight will speak, for which a check must be seen to be made in
the very step that clears the flag. `UploadsAreSigned` needs that the manager of a
configured service lacks a token only for the reasons that the property allows
(`TokenForAWhile`), because a check that is answered then copies nothing into the
proxy, and that a configured service has a proxy to copy into. `ServiceImplementsCaps` maps each action to
a step of `SwServiceCaps` or a stutter.

`FlickrItemViewProofs`. Every way into a view passes the ban filter and a new
ban removes from all views (`HiddenStaysHidden`). Where the reads and writes that
succeeded say that all that was ever hidden is, in memory or on disk, it is
(`BansAreWhole`), which with the former gives `BansOutliveTheDaemon`. `AnswersRefill` is the action property: signals only remove, and
whatever puts photos in replaces the whole, by one answer that was asked for or by
the cache. `AccountsAreKeptApart` follows from it: over changes of the account and
restarts, with the cache file shared by the views, none holds photos of two accounts.

`ServiceViewsProofs`. What the proofs need of a class is one predicate,
`Sound`, proved of the thirteen records once. `RoundsHold` is the heart: a
request cancels every listed call and empties what was gathered, so while an
index of friends is in flight nothing else is (`IndexIsAlone`); and unless accounts
have crossed, every call is about entries of the account it is signed for, and all
calls of a round and what they gave are of one account (`RoundIsOne`). From it follow
`NothingIsStranded` (the reply that removes the last call of the list hands on the
set) and `AccountsAreKeptApart`, which is about all thirteen classes and so shows
that there is no third way for accounts to meet.
`HiddenIsNotShown` needs that a view of one call takes nothing along from an
earlier one; `WantedViewsArePolled` that the timer goes only with an
announcement whose opposite brings it back. `NothingElseComesBack` is an action
property over all classes that ask the ban list: a banned entry that was not gathered
stays out of the view, the cache and what is gathered, one lemma per kind of step
(`StaysAway`). All six properties of the run are proved.

`SwRequestsProofs`. First the GOA manager. While loads have not overlapped, one at
most is under way (`OneLoad`), and it fills the fields in the order account, keys,
token and for one account (`FieldsInOrder`); a check that no load overtook is alone with the
fields of its account (`CheckIsAlone`). So a yes is about what is held
(`YesIsAboutWhatIsHeld`). A load that will find no account, in the list on its way or
in the one that GOA would send now, has looked while there was none (`SearchFits`),
which is what the refinement needs where a load is dropped. Then the 24 methods of `ServiceRequests`: the lemma
`SoundMethod` says of every record that its method answers whatever the arguments are
and whatever comes back, or is one of the two that forget to, one for half an id and
one for an answer without data, and neither of them has acknowledged the request
before; with the types (`MethodsKeepTypes`) that is all the steps need.

`ServiceCredentialsProofs`. The ten services fall into five families (a login, a
session, a keyring that is read when asked, a user, a flag), and a lemma says of
each record which family it is in and which answers it ignores; the steps are then
proved by family. What the invariant adds is small (`CredsFit`), but every step
either emits, and then what was heard is what is so, or is silent, and then one of
the reasons of `StaleIsExplained` must be shown to hold after it. The same two cases
give the refinement, all of it, since `SwServiceSignals` has no fairness
(`CredentialsImplementSignals`). All properties of the run are proved.

`VimeoUploadProofs`. `Chain(v)`: the server has done each call that an upload has
left behind, and the album that the upload names or lies in is the one it wants or
was made for it. `Known(p)`: what the service knows of a placeholder's album is so,
and an album it does not know of yet has an upload whose answer is outstanding or was
lost. `DoneIsTrue` is read off the first, `SecondAlbumExplained` and `ListExplained`
are action properties that use the second.

`ClientServiceProofs`. `SuccessesAreReal` is about a closure, a handler, the daemon's
book and messages in flight at once. `Numbers`: the numbers of one life of the
daemon differ. `Held(c)` and `Follows(c)`: as long as a closure is not freed its
number is known or on its way, and so is the verdict of a photo that has one. `Honest(m)`: a message that speaks of success has an upload that was
completed. `Meant(i)`: whoever will take the success of the i-th message for its own
has it, is one of the exceptions, or is told of its own failure by an earlier
message; that messages arrive in order makes this inductive, because the failure
then frees the closure first. `Tells(c, w, i)`, on which `Follows` and `Meant` rest,
says of any verdict, good or bad, that it is on its way to `c` before the i-th message; so the
same invariant gives `VerdictsAreNotMissed`: a program that still waits for a photo
has not missed what the daemon said of it, which is what `CallsReturn` needs besides
fairness.

Steps of a contract. `OutcomeIsToldOnce`, `MethodsTellOneOutcome` and
`VerdictIsToldOnce` prove the safety of that contract (`Requests!Safety`, in
`ServiceRequests` `Contract!Safety`) of the GOA manager, of the 24 methods and of
Vimeo: each step is a step of `SwRequests` or a stutter, so that a request is refused
or ends once and what was accepted is not dropped.

Model-checked only: liveness and all that rests on fairness, which is out of the
prover's reach, as is ENABLED: `ReadyReachesClient`, `DropIsAnnounced`, `CallsReturn`
and that part of `ImplementsRequests` and `MethodsImplementRequests` by which every
request does end. Of each of them the safety half is a theorem: `NoLostWakeUp`,
`SilentDropIsFollowedUp`, `VerdictsAreNotMissed` and the steps of the contract. Every
other property of a passing run is stated by a theorem.

## 6. What is not modelled

Reference counts and memory; parsing of replies (a reply is the set of items it
holds); formatting of signals; the layout of cache and ban files. Undefined
behaviour is a choice: a callback on a view that is gone does nothing, a token
set from the address of a variable is `Garbage`, a proxy that was freed works or
does not, a closure that was freed may be another's. Where SmugMug, Photobucket or
Twitpic's callback reads an element that an answer lacks the daemon ends; those
answers are left out. Not modelled either:

- An answer to Vimeo that looks well but is none of Vimeo's: `node_from_call` takes any
  well-formed document whose root is not `rsp` for a success (`vimeo.c:182`), and no
  caller looks whether a video id is there (`vimeo.c:1180`). In `VimeoUpload` an
  answer that is read as a success comes from a server that did what it was asked.
- That the removal of a cache file fails, and in `ServiceViews` that a write does:
  `FlickrItemView` has the second.
- Vimeo's placeholders are lost when the daemon is started again; `VimeoUpload` has
  one run of the daemon. The tweet that follows a Twitpic upload is a call whose
  answer nobody reads.
- The core and the client monitor: modules are loaded once, and the views of a
  client that vanishes are closed, which is `Close` of `SwViews`. The monitor leaves
  an empty list behind for every client that is gone, which is memory.
- The ConnMan and other backends of `sw-online.c`, and that its list of listeners may
  change while it is walked: services add themselves when they are made.
- The Flickr contact view, which is its item view with another parser; opening and
  listing in the client library, which forward; the framing of Twitter's stream,
  which is parsing; those functions of `sw-contact-view.c` and `sw-item-stream.c`
  that no service calls.
- The daemon's entry, the keystore, the OAuth 2 keyring (a lookup like the others),
  the dummy service, generated bindings, tests, examples and tools.

`ServiceViews` takes every entry to have its images when it is reported; what the
cache leaves out of others is in `FlickrItemView`. Twitter's contacts and Sina's feed
may show entries of two accounts, once accounts have `crossed`; no document of the
repository says otherwise, so this is no finding. The model has both behaviours and
`AccountsStayApart` names them.

## 7. What is open

1. Liveness as theorems, when a prover for it is at hand: the safety halves of section 5
   are the lemmas that such proofs would begin with.
2. `ServiceViews`: entries that get their images after they are reported, as in
   `SwItemView`, and the cache over restarts, as in `FlickrItemView`.
3. The core and the client monitor, if views are ever shared between clients: then
   the list of a client that is gone matters for more than memory.
