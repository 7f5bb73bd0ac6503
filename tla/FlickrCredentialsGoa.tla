------------------------- MODULE FlickrCredentialsGoa -------------------------
(***************************************************************************)
(* The credentials manager of the Flickr service over GNOME Online Accounts  *)
(* (services/flickr/flickr-credentials-manager-goa.c), for builds that have  *)
(* it.  Like the one over the keyring, which FlickrService models, the       *)
(* service and all its views share one: a load or a check of one of them may *)
(* come between the D-Bus calls of another's, and both fill the same fields. *)
(***************************************************************************)
EXTENDS FiniteSets

CONSTANTS
  Account,      \* Flickr accounts
  Load, Check,  \* calls of flickr_credentials_load and _check (bounds)
  None          \* NULL

ASSUME GoaAssumption == Load \cap Check = {} /\ None \notin Account

VARIABLES
  account,      \* the first Flickr account that GOA has, or None
  object_path,  \* the account it was found under
  consumer,     \* the account that consumer_key and consumer_secret are of
  token,        \* the account that token and token_secret are of
  step,         \* Request -> what it waits for or has got, or what its callback was told
  about,        \* Request -> the account that its D-Bus call, or its answer, is about
  crowded,      \* since the manager was last at rest, loads have overlapped
  overtaken,    \* the checks during which a load began
  without       \* the loads that looked for an account while there was none

Request == Load \cup Check
fields == <<object_path, consumer, token>>
history == <<crowded, overtaken, without>>
vars == <<account, fields, step, about, history>>

Waits == {"objects", "listed", "token", "ensure"}
Loading == {r \in Load : step[r] \in Waits}
Listing == {r \in Load : step[r] \in {"objects", "listed"}}

Goes(r, s) == step' = [step EXCEPT ![r] = s]
Tells(r, s) == Goes(r, s) /\ about' = [about EXCEPT ![r] = None]

-----------------------------------------------------------------------------
(* Loading.                                                                *)

Ask(r) ==
  /\ step[r] = "idle" /\ Tells(r, "asked")
  /\ UNCHANGED <<account, fields, history>>

\* flickr_credentials_mgr_goa_clear
Clear_KeepsToken ==
  object_path' = None /\ consumer' = None /\ UNCHANGED token
Clear ==
  object_path' = None /\ consumer' = None /\ token' = None

\* find_account asks for all objects of GOA, if there is a GOA.
StartLoad(r) ==
  /\ step[r] = "asked" /\ (Tells(r, "objects") \/ Tells(r, "no"))
  /\ Clear
  /\ crowded' = (Loading # {})
  /\ overtaken' = overtaken \cup {c \in Check : step[c] = "ensure"}
  /\ without' = IF account = None THEN without \cup {r} ELSE without
  /\ UNCHANGED account

\* GOA answers GetManagedObjects with the accounts that it has now; the answer may
\* be received after they have changed.
GoaLists(r) ==
  /\ step[r] = "objects" /\ Goes(r, "listed")
  /\ about' = [about EXCEPT ![r] = account]
  /\ UNCHANGED <<account, fields, history>>

\* get_access_data: the account may lack the OAuth interface or a key, and there
\* may be no proxy to ask for the token with.
GetAccessData(r, a) ==
  \/ Tells(r, "no") /\ UNCHANGED consumer
  \/ consumer' = a /\ Tells(r, "no")
  \/ consumer' = a /\ Goes(r, "token") /\ about' = [about EXCEPT ![r] = a]

\* on_managed_objects: the call failed, or these are the objects.  Without a Flickr
\* account among them nobody calls the callback, and the closure is leaked.
OnManagedObjects(r) ==
  /\ \/ /\ step[r] = "objects"
        /\ Tells(r, "no") /\ UNCHANGED <<object_path, consumer>>
     \/ /\ step[r] = "listed" /\ about[r] = None
        /\ Tells(r, "dropped") /\ UNCHANGED <<object_path, consumer>>
     \/ /\ step[r] = "listed" /\ about[r] # None
        /\ object_path' = about[r] /\ GetAccessData(r, about[r])
  /\ UNCHANGED <<account, token, history>>

OnAccessToken_NoData(r) ==
  /\ step[r] = "token"
  /\ \/ Tells(r, "dropped") /\ UNCHANGED token
     \/ Tells(r, "yes") /\ token' = about[r]
  /\ UNCHANGED <<account, object_path, consumer, history>>
OnAccessToken(r) ==
  /\ step[r] = "token"
  /\ \/ Tells(r, "no") /\ UNCHANGED token
     \/ Tells(r, "yes") /\ token' = about[r]
  /\ UNCHANGED <<account, object_path, consumer, history>>

-----------------------------------------------------------------------------
(* Checking: EnsureCredentials for the account of object_path.              *)

StartCheck_AnyToken(r) ==
  /\ step[r] = "asked"
  /\ \/ Tells(r, "no")
     \/ Goes(r, "ensure") /\ about' = [about EXCEPT ![r] = object_path]
  /\ UNCHANGED <<account, fields, history>>
StartCheck(r) ==
  /\ step[r] = "asked"
  /\ \/ Tells(r, "no")
     \/ /\ None \notin {object_path, consumer, token}
        /\ Goes(r, "ensure") /\ about' = [about EXCEPT ![r] = object_path]
  /\ UNCHANGED <<account, fields, history>>

\* on_ensure_credentials believes the property AttentionNeeded.
OnEnsureCredentials(r) ==
  /\ step[r] = "ensure" /\ (Tells(r, "no") \/ Tells(r, "yes"))
  /\ UNCHANGED <<account, fields, history>>

-----------------------------------------------------------------------------
\* The user adds, removes or replaces accounts; nobody is listening.
AccountChanges(a) ==
  /\ a # account /\ account' = a
  /\ without' = IF a = None THEN without \cup Listing ELSE without
  /\ UNCHANGED <<fields, step, about, crowded, overtaken>>

Init ==
  /\ account \in Account \cup {None}
  /\ object_path = None /\ consumer = None /\ token = None
  /\ step = [r \in Request |-> "idle"]
  /\ about = [r \in Request |-> None]
  /\ crowded = FALSE /\ overtaken = {} /\ without = {}

Starts(r) == IF r \in Load THEN StartLoad(r) ELSE StartCheck(r)
Answered(r) == OnManagedObjects(r) \/ OnAccessToken(r) \/ OnEnsureCredentials(r)

Next ==
  \/ \E a \in Account \cup {None} : AccountChanges(a)
  \/ \E r \in Request : Ask(r) \/ Starts(r) \/ GoaLists(r) \/ Answered(r)

\* The main loop runs, and every D-Bus call is answered or times out.
Fairness == \A r \in Request : WF_vars(Starts(r)) /\ WF_vars(Answered(r))

Spec == Init /\ [][Next]_vars /\ Fairness

-----------------------------------------------------------------------------
(* Properties                                                              *)

\* Every variable has its type.
TypeOK ==
  /\ {account, object_path, consumer, token} \subseteq Account \cup {None}
  /\ step \in [Request -> Waits \cup {"idle", "asked", "dropped", "no", "yes"}]
  /\ \A r \in Request : step[r] \in {"token", "ensure"} => about[r] # None
  /\ about \in [Request -> Account \cup {None}]
  /\ crowded \in BOOLEAN /\ overtaken \subseteq Check /\ without \subseteq Load

\* A check that says yes speaks for the keys and the token that the manager holds:
\* all of the account that was checked, whatever became of earlier accounts and of
\* loads that stopped half way; unless loads overlapped, or one has begun since.
CheckedIsWhole ==
  [][\A c \in Check :
       step[c] = "ensure" /\ step'[c] = "yes" /\ ~crowded /\ c \notin overtaken
         => \A a \in {object_path, consumer, token} : a = about[c]]_vars

Standing(r) ==
  IF step[r] = "yes" THEN "complete"
  ELSE IF step[r] = "no" THEN "failed"
  ELSE IF step[r] \in {"objects", "listed"} THEN "asked"
  ELSE IF step[r] \in Waits THEN "accepted"
  ELSE step[r]

\* A load need not be answered if there was no account at some moment of its search.
Requests ==
  INSTANCE SwRequests
    WITH Op <- Request, state <- [r \in Request |-> Standing(r)],
         silent <- without

\* Whoever loads or checks is told the outcome once.  Only a load may be dropped, and
\* only one that looked for a Flickr account at a moment when there was none; by the time
\* that it is dropped there may be one.
ImplementsRequests == Requests!Spec
=============================================================================
