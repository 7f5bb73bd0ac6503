-------------------------- MODULE ServiceCredentials --------------------------
(***************************************************************************)
(* How the services other than Flickr come to know whether the credentials *)
(* of the user are right, and what they say about it, over changes of the  *)
(* keyring and of the network and answers that are late, overtaken or bad  *)
(* (services/*/*.c, libsocialweb-keyfob/sw-keyfob-oauth.c, sw-online.c).    *)
(*                                                                         *)
(* There are two families.  Four services look up a name and a password    *)
(* and log in with them; six look up an OAuth token, put it into their      *)
(* proxy and ask the server who it belongs to.  No call is ever cancelled. *)
(* A service is a record of the points where its code differs.              *)
(***************************************************************************)
EXTENDS Naturals, FiniteSets

CONSTANTS
  Account, NoAccount,
  Slot,        \* lookups, and also calls, that are under way at a time (bound)
  MaxNotices   \* timers of sw-online.c that are due at a time (bound)

ASSUME CredentialsAssumption ==
  NoAccount \notin Account /\ MaxNotices \in Nat /\ IsFiniteSet(Slot)

Maybe == Account \cup {NoAccount}

VARIABLES
  service,     \* the class
  online,      \* sw_is_online
  notices,     \* we_are_online timers of sw-online.c that are due
  connected,   \* priv->online (Facebook)
  keyring,     \* whose credentials the keyring holds
  lookups,     \* Slot -> keyring lookups that are under way
  login,       \* whose name and password the service holds
  token,       \* whose token its proxy holds
  configured,  \* priv->configured
  checks,      \* Slot -> calls to the server that are under way
  creds,       \* priv->credentials; priv->checked_with_server
  who,         \* whose user id, session key or name the server gave
  heard        \* what the last capabilities-changed signal said

network == <<online, notices>>
held == <<login, token, configured>>
judged == <<creds, who>>
vars == <<service, network, connected, keyring, lookups, held, checks, judged, heard>>

-----------------------------------------------------------------------------
(* The classes.                                                            *)
(*   keeps     a name and password, or the token alone                      *)
(*   known_by  what get_dynamic_caps computes "is-configured" from           *)
(*   logs_in   a first call gets the token, a second one the user           *)
(*   listens   is called by sw-online.c                                     *)
(*   clears    an offline notice clears what the server gave                *)
(*   flagged   priv->configured follows the lookup, and both say so         *)
(*   answers   what the last call's callback does, by the kind of answer:   *)
(*             who it leaves, what it takes creds for, whether it emits     *)

Answer == {"ok", "partial", "error", "garbage"}
Takes(w, c, e) == [who |-> w, creds |-> c, emits |-> e]

Twitter ==
  [keeps |-> "password", known_by |-> "login", logs_in |-> TRUE,
   listens |-> TRUE, clears |-> TRUE, flagged |-> FALSE,
   answers |-> [ok      |-> Takes("set", "valid", TRUE),
                partial |-> Takes("keep", "keep", FALSE),
                error   |-> Takes("keep", "keep", FALSE),
                garbage |-> Takes("keep", "keep", FALSE)]]
Youtube_SilentOk ==
  [keeps |-> "password", known_by |-> "login", logs_in |-> FALSE,
   listens |-> TRUE, clears |-> FALSE, flagged |-> FALSE,
   answers |-> [ok      |-> Takes("set", "valid", FALSE),
                partial |-> Takes("keep", "invalid", TRUE),
                error   |-> Takes("keep", "invalid", TRUE),
                garbage |-> Takes("keep", "invalid", TRUE)]]
Youtube ==
  [keeps |-> "password", known_by |-> "login", logs_in |-> FALSE,
   listens |-> TRUE, clears |-> FALSE, flagged |-> FALSE,
   answers |-> [ok      |-> Takes("set", "valid", TRUE),
                partial |-> Takes("keep", "invalid", TRUE),
                error   |-> Takes("keep", "invalid", TRUE),
                garbage |-> Takes("keep", "invalid", TRUE)]]

Plurk_SilentError ==
  [keeps |-> "password", known_by |-> "login", logs_in |-> FALSE,
   listens |-> TRUE, clears |-> TRUE, flagged |-> FALSE,
   answers |-> [ok      |-> Takes("set", "valid", TRUE),
                partial |-> Takes("keep", "valid", TRUE),
                error   |-> Takes("keep", "invalid", FALSE),
                garbage |-> Takes("keep", "valid", TRUE)]]
Plurk ==
  [keeps |-> "password", known_by |-> "login", logs_in |-> FALSE,
   listens |-> TRUE, clears |-> TRUE, flagged |-> FALSE,
   answers |-> [ok      |-> Takes("set", "valid", TRUE),
                partial |-> Takes("keep", "valid", TRUE),
                error   |-> Takes("keep", "invalid", TRUE),
                garbage |-> Takes("keep", "valid", TRUE)]]
Lastfm ==
  [keeps |-> "password", known_by |-> "session", logs_in |-> FALSE,
   listens |-> FALSE, clears |-> FALSE, flagged |-> FALSE,
   answers |-> [ok      |-> Takes("set", "checked", TRUE),
                partial |-> Takes("keep", "checked", TRUE),
                error   |-> Takes("keep", "checked", TRUE),
                garbage |-> Takes("keep", "checked", FALSE)]]
Sina ==
  [keeps |-> "token", known_by |-> "keyring", logs_in |-> FALSE,
   listens |-> TRUE, clears |-> TRUE, flagged |-> FALSE,
   answers |-> [ok      |-> Takes("set", "keep", TRUE),
                partial |-> Takes("none", "keep", TRUE),
                error   |-> Takes("keep", "keep", FALSE),
                garbage |-> Takes("keep", "keep", FALSE)]]
MySpace == Sina
Facebook == [Sina EXCEPT !.known_by = "user"]
Vimeo ==
  [keeps |-> "token", known_by |-> "flag", logs_in |-> FALSE,
   listens |-> TRUE, clears |-> TRUE, flagged |-> TRUE,
   answers |-> [ok      |-> Takes("set", "keep", TRUE),
                partial |-> Takes("keep", "keep", TRUE),
                error   |-> Takes("keep", "keep", TRUE),
                garbage |-> Takes("keep", "keep", TRUE)]]
SmugMug ==
  [Vimeo EXCEPT !.answers =
     [ok      |-> Takes("set", "keep", TRUE),
      partial |-> Takes("set", "keep", TRUE),
      error   |-> Takes("none", "keep", TRUE),
      garbage |-> Takes("none", "keep", TRUE)]]
Photobucket ==
  [Vimeo EXCEPT !.answers =
     [ok      |-> Takes("set", "keep", TRUE),
      partial |-> Takes("none", "keep", TRUE),
      error   |-> Takes("none", "keep", FALSE),
      garbage |-> Takes("none", "keep", FALSE)]]

Service == {Twitter, Youtube, Plurk, Lastfm, Sina, MySpace, Facebook, Vimeo,
            SmugMug, Photobucket}

-----------------------------------------------------------------------------
(* get_dynamic_caps.                                                       *)

IfHeld(a, c, d) == IF a # NoAccount THEN c ELSE d

LoginCaps ==
  IF creds = "offline" THEN IfHeld(login, "configured", "none") ELSE creds

SessionCaps ==
  IF login = NoAccount THEN "none"
  ELSE IF creds = "offline" THEN "configured" ELSE IfHeld(who, "valid", "invalid")

\* account_is_configured looks the keyring up while it waits.
KeyringCaps == IfHeld(who, "valid", IfHeld(keyring, "configured", "none"))

FlagCaps == IfHeld(who, "valid", IF configured THEN "configured" ELSE "none")

FacebookCaps == IfHeld(who, IF connected THEN "valid" ELSE "configured", "none")

Caps ==
  IF service.known_by = "login" THEN LoginCaps
  ELSE IF service.known_by = "session" THEN SessionCaps
  ELSE IF service.known_by = "keyring" THEN KeyringCaps
  ELSE IF service.known_by = "flag" THEN FlagCaps ELSE FacebookCaps

\* sw_service_emit_capabilities_changed, and no signal
Emit == heard' = Caps'
Silent == UNCHANGED heard

-----------------------------------------------------------------------------
FreeLookup == [state |-> "free", account |-> NoAccount]
Unread == [state |-> "sent", account |-> NoAccount]
Found(a) == [state |-> "found", account |-> a]
FreeCheck == [stage |-> "free", account |-> NoAccount]

\* gnome_keyring_find_network_password, sw_keyfob_oauth, sw_keyfob_oauth2
AskKeyring ==
  \E s \in Slot : /\ lookups[s] = FreeLookup
                  /\ lookups' = [lookups EXCEPT ![s] = Unread]

\* A call for a, whose stage is its first one.
AskServer(a) ==
  \E s \in Slot :
    /\ checks[s] = FreeCheck
    /\ checks' = [checks EXCEPT ![s] =
         [stage |-> IF service.logs_in THEN "login" ELSE "last", account |-> a]]

-----------------------------------------------------------------------------
(* Notices of the network.                                                 *)

\* online_notify of a service that keeps a password
PasswordOnlineNotify(now) ==
  /\ creds' = "offline"
  /\ token' = NoAccount
  /\ UNCHANGED <<connected, lookups, login, configured>>
  /\ IF now
       THEN /\ IF login # NoAccount THEN AskServer(login) ELSE UNCHANGED checks
            /\ UNCHANGED who /\ Silent
       ELSE /\ who' = IF service.clears THEN NoAccount ELSE who
            /\ UNCHANGED checks /\ Emit

\* online_notify of a service that keeps a token.  Facebook emits first and
\* forgets then.
TokenOnlineNotify(now) ==
  /\ connected' = IF service.known_by = "user" THEN now ELSE connected
  /\ UNCHANGED <<held, checks, creds>>
  /\ IF now
       THEN AskKeyring /\ UNCHANGED who /\ Silent
       ELSE /\ who' = NoAccount /\ UNCHANGED lookups
            /\ IF service.known_by = "user"
                 THEN heard' = IfHeld(who, "configured", "none") ELSE Emit

OnlineNotify(now) ==
  IF ~service.listens
    THEN UNCHANGED <<connected, lookups, held, checks, judged, heard>>
    ELSE IF service.keeps = "password" THEN PasswordOnlineNotify(now)
                                       ELSE TokenOnlineNotify(now)

\* state_changed with sw_is_online: the notice follows after 1.5 s.  The state
\* of NetworkManager may go from one kind of connection to another.
NetworkUp ==
  /\ notices < MaxNotices
  /\ online' = TRUE /\ notices' = notices + 1
  /\ UNCHANGED <<service, connected, keyring, lookups, held, checks, judged, heard>>

NetworkDown ==
  /\ UNCHANGED <<service, notices, keyring>>
  /\ online' = FALSE
  /\ OnlineNotify(FALSE)

NoticeDue_Twice ==
  /\ notices > 0 /\ notices' = notices - 2
  /\ UNCHANGED <<service, online, keyring>>
  /\ OnlineNotify(online)

\* we_are_online
NoticeDue ==
  /\ notices > 0 /\ notices' = notices - 1
  /\ UNCHANGED <<service, online, keyring>>
  /\ OnlineNotify(online)

-----------------------------------------------------------------------------
(* Lookups.                                                                *)

\* A client stores or removes the credentials of the user,
StoreCredentials(a) ==
  /\ keyring' = a /\ a # keyring
  /\ UNCHANGED <<service, network, connected, lookups, held, checks, judged, heard>>

\* and calls CredentialsUpdated.
CredentialsUpdated ==
  /\ UNCHANGED <<service, network, keyring, checks>>
  /\ IF service.keeps = "password"
       THEN UNCHANGED <<connected, held, judged, heard>> /\ AskKeyring
       ELSE IF service.known_by = "user" /\ ~online
       THEN UNCHANGED <<connected, lookups, held, judged, heard>>
       ELSE /\ connected' = TRUE
            /\ configured' = FALSE
            /\ who' = NoAccount
            /\ AskKeyring
            /\ UNCHANGED <<login, token, creds>> /\ Emit

\* The keyring reads its answer; it may be locked.
KeyringReads(s) ==
  /\ lookups[s] = Unread
  /\ \E a \in {keyring, NoAccount} : lookups' = [lookups EXCEPT ![s] = Found(a)]
  /\ UNCHANGED <<service, network, connected, keyring, held, checks, judged, heard>>

\* found_password_cb of Twitter, YouTube and Plurk, which force a reconnect,
\* and of Last.fm, which starts anew
FoundPassword(a) ==
  LET anew == ~service.listens
      restarts == a # NoAccount /\ online
  IN /\ login' = a
     /\ creds' = IF anew \/ restarts \/ a = NoAccount THEN "offline" ELSE creds
     /\ who' = IF anew \/ (restarts /\ service.clears) THEN NoAccount ELSE who
     /\ token' = IF restarts THEN NoAccount ELSE token
     /\ IF restarts THEN AskServer(a) ELSE UNCHANGED checks
     /\ UNCHANGED configured /\ Emit

\* find_oauth_key_cb puts the token into the proxy; got_tokens_cb
GotTokens(a) ==
  /\ token' = IfHeld(a, a, token)
  /\ configured' = (service.flagged /\ a # NoAccount)
  /\ IF a # NoAccount THEN AskServer(a) ELSE UNCHANGED checks
  /\ UNCHANGED <<login, judged>>
  /\ IF service.flagged THEN Emit ELSE Silent

LookupDone(s) ==
  /\ lookups[s].state = "found"
  /\ UNCHANGED <<service, network, connected, keyring>>
  /\ lookups' = [lookups EXCEPT ![s] = FreeLookup]
  /\ IF service.keeps = "password" THEN FoundPassword(lookups[s].account)
                                   ELSE GotTokens(lookups[s].account)

-----------------------------------------------------------------------------
(* Answers of the server.                                                  *)

\* _oauth_access_token_cb: the token goes into the proxy and signs the second
\* call.
LoginAnswered(s, ok) ==
  /\ checks[s].stage = "login"
  /\ UNCHANGED <<service, network, connected, keyring, lookups, login, configured,
                 who>>
  /\ IF ok
       THEN /\ token' = checks[s].account
            /\ checks' = [checks EXCEPT ![s].stage = "last"]
            /\ UNCHANGED creds /\ Silent
       ELSE /\ checks' = [checks EXCEPT ![s] = FreeCheck]
            /\ creds' = "invalid" /\ UNCHANGED token /\ Emit

\* verify_cb, _got_user_auth, _got_login_data, _mobile_session_cb, got_user_cb,
\* got_user_info_cb, _check_access_token_cb
CheckAnswered(s, answer) ==
  LET takes == service.answers[answer]
  IN /\ checks[s].stage = "last"
     /\ UNCHANGED <<service, network, connected, keyring, lookups, held>>
     /\ checks' = [checks EXCEPT ![s] = FreeCheck]
     /\ who' = IF takes.who = "set" THEN checks[s].account
               ELSE IF takes.who = "none" THEN NoAccount ELSE who
     /\ creds' = IF takes.creds = "keep" THEN creds ELSE takes.creds
     /\ IF takes.emits THEN Emit ELSE Silent

-----------------------------------------------------------------------------
\* After initable, which looks the credentials up; the services with a token
\* do that as CredentialsUpdated does, but Facebook only when it is online.
Init ==
  /\ service \in Service
  /\ online \in BOOLEAN /\ notices = 0
  /\ keyring \in Maybe
  /\ connected = (IF service.known_by = "user" THEN online ELSE TRUE)
  /\ IF service.known_by = "user" /\ ~online
       THEN lookups = [s \in Slot |-> FreeLookup]
       ELSE \E t \in Slot :
              lookups = [s \in Slot |-> IF s = t THEN Unread ELSE FreeLookup]
  /\ login = NoAccount /\ token = NoAccount /\ configured = FALSE
  /\ checks = [s \in Slot |-> FreeCheck]
  /\ creds = "offline" /\ who = NoAccount
  /\ heard = Caps

Next ==
  \/ NetworkUp \/ NetworkDown \/ NoticeDue
  \/ \E a \in Maybe : StoreCredentials(a)
  \/ CredentialsUpdated
  \/ \E s \in Slot : KeyringReads(s)
  \/ \E s \in Slot : LookupDone(s)
  \/ \E s \in Slot, ok \in BOOLEAN : LoginAnswered(s, ok)
  \/ \E s \in Slot, answer \in Answer : CheckAnswered(s, answer)

Spec == Init /\ [][Next]_vars

-----------------------------------------------------------------------------
(* Properties                                                              *)

Lookup == [state : {"free", "sent", "found"}, account : Maybe]
Check == [stage : {"free", "login", "last"}, account : Maybe]
Verdict == {"valid", "invalid"}

\* Every variable has its type.
TypeOK ==
  /\ service \in Service
  /\ online \in BOOLEAN /\ notices \in 0 .. MaxNotices /\ connected \in BOOLEAN
  /\ keyring \in Maybe /\ login \in Maybe /\ token \in Maybe /\ who \in Maybe
  /\ configured \in BOOLEAN
  /\ lookups \in [Slot -> Lookup] /\ checks \in [Slot -> Check]
  /\ creds \in Verdict \cup {"offline", "checked"}
  /\ heard \in Verdict \cup {"none", "configured"}

CheckUnderWay == \E s \in Slot : checks[s] # FreeCheck

\* A client or a view is never left to believe what is not so any more, but for
\* the reasons that follow.
StaleIsExplained ==
  heard # Caps =>
    \* a second notice of a connection drops the verdict until the server has
    \* answered; Twitter ignores an answer that is an error,
    \/ /\ service.known_by = "login" /\ creds = "offline" /\ heard \in Verdict
       /\ (CheckUnderWay \/ service = Twitter \/ login = NoAccount)
    \* Last.fm and Photobucket ignore some answers too,
    \/ service = Lastfm /\ heard = "configured" /\ Caps = "invalid"
    \/ service = Photobucket /\ heard = "valid" /\ who = NoAccount
    \* Sina and MySpace read the keyring when they are asked,
    \/ service = Sina /\ heard # "valid" /\ who = NoAccount
    \* and Facebook tells its last state but one.
    \/ service = Facebook /\ heard = "configured"

Signals ==
  INSTANCE SwServiceSignals
    WITH user <- IF service.keeps = "password" THEN login ELSE token,
         valid <- Caps = "valid", heard <- heard = "valid",
         quiet <- service = Facebook

\* No service but Facebook gains credentials-valid without announcing it, so that
\* no view waits for credentials that are there.
ImplementsSignals == Signals!Spec
=============================================================================
