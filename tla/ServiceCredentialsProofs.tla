----------------------- MODULE ServiceCredentialsProofs -----------------------
(***************************************************************************)
(* Theorems about ServiceCredentials, for any accounts, any number of lookups *)
(* and calls under way, and any number of notices.                          *)
(***************************************************************************)
EXTENDS ServiceCredentials, TLAPS

-----------------------------------------------------------------------------
(* What the proofs ask of the classes: their family, and that an answer on  *)
(* which they are silent changes nothing that they are asked about, but for *)
(* those that StaleIsExplained names.                                       *)

LoginClass(s) ==
  /\ s.known_by = "login" /\ s.keeps = "password"
  /\ \A a \in Answer : s.answers[a].creds \in {"keep", "valid", "invalid"}
  /\ \A a \in Answer : ~s.answers[a].emits => s = Twitter /\ s.answers[a].creds = "keep"

SessionClass(s) ==
  /\ s.known_by = "session" /\ s.keeps = "password" /\ ~s.listens /\ s = Lastfm
  /\ \A a \in Answer : s.answers[a].creds = "checked"
  /\ \A a \in Answer : ~s.answers[a].emits => s.answers[a].who = "keep"

TokenClass(s) ==
  /\ s.keeps = "token"
  /\ \A a \in Answer : s.answers[a].creds = "keep"

KeyringClass(s) ==
  /\ TokenClass(s) /\ s.known_by = "keyring" /\ s = Sina
  /\ \A a \in Answer : ~s.answers[a].emits => s.answers[a].who = "keep"

UserClass(s) ==
  /\ TokenClass(s) /\ s.known_by = "user" /\ s = Facebook
  /\ \A a \in Answer : ~s.answers[a].emits => s.answers[a].who = "keep"

FlagClass(s) ==
  /\ TokenClass(s) /\ s.known_by = "flag" /\ s.flagged
  /\ \A a \in Answer : ~s.answers[a].emits => s = Photobucket /\ s.answers[a].who = "none"

LEMMA PasswordClasses ==
  LoginClass(Twitter) /\ LoginClass(Youtube) /\ LoginClass(Plurk) /\ SessionClass(Lastfm)
<1> USE DEF Takes, Answer
<1>1. LoginClass(Twitter)
  BY DEF LoginClass, Twitter
<1>2. LoginClass(Youtube)
  BY DEF LoginClass, Youtube
<1>3. LoginClass(Plurk)
  BY DEF LoginClass, Plurk
<1>4. SessionClass(Lastfm)
  BY DEF SessionClass, Lastfm
<1> QED
  BY <1>1, <1>2, <1>3, <1>4

\* A record written with EXCEPT has the fields of the record it is made from.
LEMMA TokenClasses ==
  /\ KeyringClass(Sina) /\ KeyringClass(MySpace) /\ UserClass(Facebook)
  /\ FlagClass(Vimeo) /\ FlagClass(SmugMug) /\ FlagClass(Photobucket)
<1>1. KeyringClass(Sina)
  BY DEF KeyringClass, TokenClass, Sina, Takes, Answer
<1>2. Facebook.keeps = Sina.keeps /\ Facebook.answers = Sina.answers /\ Facebook.known_by = "user"
  <2>1. Sina \in [keeps : {Sina.keeps}, known_by : {"keyring"}, logs_in : {FALSE}, listens : {TRUE},
                  clears : {TRUE}, flagged : {FALSE}, answers : {Sina.answers}]
    BY DEF Sina
  <2> QED
    BY <2>1 DEF Facebook
<1>3. UserClass(Facebook)
  BY <1>1, <1>2 DEF UserClass, KeyringClass, TokenClass
<1>4. FlagClass(Vimeo)
  BY DEF FlagClass, TokenClass, Vimeo, Takes, Answer
<1>5. \A n : LET s == [Vimeo EXCEPT !.answers = n]
             IN s.keeps = "token" /\ s.known_by = "flag" /\ s.flagged /\ s.answers = n
  <2>1. Vimeo \in [keeps : {"token"}, known_by : {"flag"}, logs_in : {FALSE}, listens : {TRUE},
                   clears : {TRUE}, flagged : {TRUE}, answers : {Vimeo.answers}]
    BY DEF Vimeo
  <2> QED
    BY <2>1
<1>6. FlagClass(SmugMug)
  BY <1>5 DEF FlagClass, TokenClass, SmugMug, Takes, Answer
<1>7. FlagClass(Photobucket)
  BY <1>5 DEF FlagClass, TokenClass, Photobucket, Takes, Answer
<1> QED
  BY <1>1, <1>3, <1>4, <1>6, <1>7 DEF MySpace

LEMMA ClassOf ==
  ASSUME NEW s \in Service
  PROVE  LoginClass(s) \/ SessionClass(s) \/ KeyringClass(s) \/ UserClass(s) \/ FlagClass(s)
BY PasswordClasses, TokenClasses DEF Service

\* The families of the classes that StaleIsExplained names.
LEMMA FamilyOf ==
  /\ Twitter.known_by = "login" /\ Lastfm.known_by = "session" /\ Sina.known_by = "keyring"
  /\ Facebook.known_by = "user" /\ Photobucket.known_by = "flag"
BY PasswordClasses, TokenClasses DEF LoginClass, SessionClass, KeyringClass, UserClass, FlagClass

-----------------------------------------------------------------------------
(* The inductive invariant.                                                *)

\* TypeOK but for what was announced.
Typed ==
  /\ service \in Service
  /\ online \in BOOLEAN /\ notices \in 0 .. MaxNotices /\ connected \in BOOLEAN
  /\ keyring \in Maybe /\ login \in Maybe /\ token \in Maybe /\ who \in Maybe
  /\ configured \in BOOLEAN
  /\ lookups \in [Slot -> Lookup] /\ checks \in [Slot -> Check]
  /\ creds \in Verdict \cup {"offline", "checked"}

\* Only Last.fm notes that the server was asked, and until it was, no session key
\* is there: an answer that it ignores does not make it valid in silence.
CredsFit ==
  /\ service.known_by = "login" => creds # "checked"
  /\ service.known_by = "session" /\ creds = "offline" => who = NoAccount

IInv == TypeOK /\ CredsFit /\ StaleIsExplained

Told == Verdict \cup {"none", "configured"}

LEMMA CapsType == Typed /\ CredsFit => Caps \in Told
BY ClassOf
DEF Typed, CredsFit, LoginClass, SessionClass, KeyringClass, UserClass, FlagClass, Caps, LoginCaps,
    SessionCaps, KeyringCaps, FlagCaps, FacebookCaps, IfHeld, Told, Verdict

LEMMA InitIInv == Init => IInv
<1> SUFFICES ASSUME Init PROVE IInv
  OBVIOUS
<1>1. FreeLookup \in Lookup /\ Unread \in Lookup /\ FreeCheck \in Check
  BY DEF FreeLookup, Unread, FreeCheck, Lookup, Check, Maybe
<1>2. service.known_by = "user" => service = Facebook
  BY ClassOf DEF Init, LoginClass, SessionClass, KeyringClass, UserClass, FlagClass
<1>3. Typed
  <2>1. lookups \in [Slot -> Lookup] /\ checks \in [Slot -> Check]
    BY <1>1 DEF Init
  <2>2. connected \in BOOLEAN
    BY DEF Init
  <2>3. /\ service \in Service /\ online \in BOOLEAN /\ notices = 0 /\ keyring \in Maybe
        /\ login = NoAccount /\ token = NoAccount /\ configured = FALSE
        /\ creds = "offline" /\ who = NoAccount
    BY DEF Init
  <2>4. notices \in 0 .. MaxNotices
    BY <2>3, CredentialsAssumption
  <2>5. configured \in BOOLEAN /\ NoAccount \in Maybe
    BY <2>3 DEF Maybe
  <2> QED
    BY <2>1, <2>2, <2>3, <2>4, <2>5 DEF Typed
<1>4. CredsFit
  BY DEF Init, CredsFit
<1>5. heard = Caps
  BY DEF Init
<1> QED
  BY <1>3, <1>4, <1>5, CapsType DEF IInv, TypeOK, Typed, StaleIsExplained, Told

-----------------------------------------------------------------------------
(* What is said, to those who listen and to StaleIsExplained.              *)

Listeners == <<IF service.keeps = "password" THEN login ELSE token,
               Caps = "valid", heard = "valid", service = Facebook>>

\* A step that ends with the signal is announced, whatever it did.
LEMMA Announced ==
  ASSUME Typed', CredsFit', service' = service, Emit
  PROVE  IInv' /\ [Signals!Next]_Listeners
<1>1. heard' = Caps'
  BY DEF Emit
<1>2. heard' \in Told
  <2>1. (Typed /\ CredsFit => Caps \in Told)'
    BY CapsType, PTL
  <2> QED
    BY <1>1, <2>1 DEF Told
<1>3. IInv'
  BY <1>1, <1>2 DEF IInv, TypeOK, Typed, StaleIsExplained, Told
<1>4. Signals!Next
  BY <1>1 DEF Signals!Next, Signals!Changes, Typed, Maybe
<1> QED
  BY <1>3, <1>4

\* A silent step may only leave what was said true, or leave it to be explained,
\* and gains nothing.
LEMMA Unannounced ==
  ASSUME TypeOK, Typed', CredsFit', StaleIsExplained', service' = service, Silent,
         Caps' = "valid" => Caps = "valid" \/ service = Facebook
  PROVE  IInv' /\ [Signals!Next]_Listeners
<1>1. IInv'
  BY DEF Silent, IInv, TypeOK, Typed
<1>2. Signals!Changes(IF service.keeps = "password" THEN login' ELSE token', Caps' = "valid", FALSE)
  BY DEF Silent, Signals!Changes
<1>3. Signals!Next
  BY <1>2 DEF Signals!Next, Typed, Maybe
<1> QED
  BY <1>1, <1>3

\* Most silent steps leave all that Caps is computed from as it was; Facebook may
\* find itself connected.
LEMMA NothingToSay ==
  ASSUME IInv, Typed', Silent, UNCHANGED <<service, keyring, login, creds, who>>,
         service.known_by = "flag" => configured' = configured,
         connected' = connected \/ (service = Facebook /\ connected' = TRUE),
         \A s \in Slot : checks[s] # FreeCheck => checks'[s] # FreeCheck
  PROVE  IInv' /\ [Signals!Next]_Listeners
<1>1. CredsFit'
  BY DEF IInv, CredsFit
<1>2. CheckUnderWay => CheckUnderWay'
  BY DEF CheckUnderWay
<1>3. CASE Caps' = Caps
  <2>1. StaleIsExplained'
    BY <1>2, <1>3 DEF IInv, StaleIsExplained, Silent
  <2> QED
    BY <1>1, <1>3, <2>1, Unannounced DEF IInv
<1>4. CASE service = Facebook
  <2>1. Caps = FacebookCaps /\ Caps' = FacebookCaps'
    BY <1>4, FamilyOf DEF Caps
  <2>2. StaleIsExplained'
    BY <1>4, <2>1, FamilyOf DEF IInv, TypeOK, StaleIsExplained, Silent, FacebookCaps, IfHeld
  <2> QED
    BY <1>1, <1>4, <2>2, Unannounced DEF IInv
<1>5. connected' = connected => Caps' = Caps
  BY DEF Caps, LoginCaps, SessionCaps, KeyringCaps, FlagCaps, FacebookCaps, IfHeld
<1> QED
  BY <1>3, <1>4, <1>5

-----------------------------------------------------------------------------
(* Each step.                                                              *)

LEMMA AskKeyringType ==
  ASSUME Typed, AskKeyring PROVE lookups' \in [Slot -> Lookup]
BY DEF Typed, AskKeyring, Unread, Lookup, Maybe

LEMMA AskServerType ==
  ASSUME Typed, NEW a \in Maybe, AskServer(a)
  PROVE  /\ checks' \in [Slot -> Check] /\ CheckUnderWay'
         /\ \A s \in Slot : checks[s] # FreeCheck => checks'[s] # FreeCheck
<1>1. PICK s \in Slot :
        checks' = [checks EXCEPT ![s] =
          [stage |-> IF service.logs_in THEN "login" ELSE "last", account |-> a]]
  BY DEF AskServer
<1>2. [stage |-> IF service.logs_in THEN "login" ELSE "last", account |-> a] \in Check
  BY DEF Check
<1>3. checks'[s].stage # "free" /\ \A t \in Slot : t # s => checks'[t] = checks[t]
  BY <1>1 DEF Typed
<1> QED
  BY <1>1, <1>2, <1>3 DEF Typed, CheckUnderWay, FreeCheck

\* online_notify of the services that keep a password.
LEMMA PasswordNoticed ==
  ASSUME IInv, NEW now \in BOOLEAN, UNCHANGED <<service, keyring>>,
         online' \in BOOLEAN, notices' \in 0 .. MaxNotices,
         LoginClass(service), PasswordOnlineNotify(now)
  PROVE  IInv' /\ [Signals!Next]_Listeners
<1> USE DEF PasswordOnlineNotify
<1>0. Typed
  BY DEF IInv, TypeOK, Typed
<1>1. checks' \in [Slot -> Check]
  BY <1>0, AskServerType DEF Typed
<1>2. NoAccount \in Maybe
  BY DEF Maybe
<1>3. Typed'
  BY <1>0, <1>1, <1>2 DEF Typed
<1>4. CredsFit'
  BY DEF LoginClass, CredsFit
<1>5. CASE ~now
  BY <1>3, <1>4, <1>5, Announced
<1>6. CASE now
  <2>1. Caps = LoginCaps /\ Caps' = LoginCaps'
    BY DEF LoginClass, Caps
  <2>2. Silent /\ login' = login /\ creds' = "offline"
    BY <1>6
  <2>3. Caps' \in {"configured", "none"}
    BY <2>1, <2>2 DEF LoginCaps, IfHeld
  <2>4. login # NoAccount => CheckUnderWay'
    BY <1>0, <1>6, AskServerType DEF Typed
  <2>5. StaleIsExplained'
    <3>1. CASE creds = "offline"
      <4>1. Caps' = Caps
        BY <2>1, <2>2, <3>1 DEF LoginCaps
      <4> QED
        BY <2>2, <2>4, <3>1, <4>1, FamilyOf DEF IInv, StaleIsExplained, Silent, LoginClass
    <3>2. CASE creds # "offline"
      <4>1. heard = creds /\ creds \in Verdict
        BY <2>1, <3>2, FamilyOf
        DEF IInv, TypeOK, CredsFit, StaleIsExplained, LoginCaps, LoginClass
      <4> QED
        BY <2>2, <2>4, <4>1 DEF StaleIsExplained, Silent, LoginClass
    <3> QED
      BY <3>1, <3>2
  <2> QED
    BY <1>3, <1>4, <2>2, <2>3, <2>5, Unannounced DEF IInv
<1> QED
  BY <1>5, <1>6

TokenFamily(s) == KeyringClass(s) \/ UserClass(s) \/ FlagClass(s)

\* online_notify of the services that keep a token.
LEMMA TokenNoticed ==
  ASSUME IInv, NEW now \in BOOLEAN, UNCHANGED <<service, keyring>>,
         online' \in BOOLEAN, notices' \in 0 .. MaxNotices,
         TokenFamily(service), TokenOnlineNotify(now)
  PROVE  IInv' /\ [Signals!Next]_Listeners
<1> USE DEF TokenOnlineNotify, TokenFamily
<1>0. Typed
  BY DEF IInv, TypeOK, Typed
<1>1. lookups' \in [Slot -> Lookup]
  BY <1>0, AskKeyringType DEF Typed
<1>2. who' \in Maybe /\ connected' \in BOOLEAN
  BY <1>0 DEF Typed, Maybe
<1>3. Typed'
  BY <1>0, <1>1, <1>2 DEF Typed, held
<1>4. CredsFit'
  BY DEF KeyringClass, UserClass, FlagClass, CredsFit
<1>5. CASE now
  BY <1>3, <1>5, NothingToSay DEF held, KeyringClass, UserClass, FlagClass
<1>6. CASE ~now /\ service.known_by # "user"
  BY <1>3, <1>4, <1>6, Announced
<1>7. CASE ~now /\ service.known_by = "user"
  <2>1. Caps' = "none"
    BY <1>7 DEF Caps, FacebookCaps, IfHeld
  <2>2. heard' \in {"configured", "none"} /\ service = Facebook
    BY <1>7 DEF IfHeld, KeyringClass, UserClass, FlagClass
  <2>3. IInv'
    BY <1>3, <1>4, <2>1, <2>2 DEF IInv, TypeOK, Typed, StaleIsExplained
  <2>4. Signals!Changes(IF service.keeps = "password" THEN login' ELSE token', FALSE, TRUE)
    BY <2>1, <2>2 DEF Signals!Changes
  <2>5. Signals!Next
    BY <1>3, <2>4 DEF Signals!Next, Typed, Maybe
  <2> QED
    BY <2>3, <2>5
<1> QED
  BY <1>5, <1>6, <1>7

LEMMA NoticeKeeps ==
  ASSUME IInv, NEW now \in BOOLEAN, UNCHANGED <<service, keyring>>,
         online' \in BOOLEAN, notices' \in 0 .. MaxNotices, OnlineNotify(now)
  PROVE  IInv' /\ [Signals!Next]_Listeners
<1>1. CASE ~service.listens
  <2>1. UNCHANGED <<connected, lookups, held, checks, judged, heard>>
    BY <1>1 DEF OnlineNotify
  <2>2. Typed'
    BY <2>1 DEF IInv, TypeOK, Typed, held, judged
  <2> QED
    BY <2>1, <2>2, NothingToSay DEF held, judged, Silent
<1>2. CASE service.listens /\ LoginClass(service)
  BY <1>2, PasswordNoticed DEF OnlineNotify, LoginClass
<1>3. CASE service.listens /\ TokenFamily(service)
  <2>1. service.keeps = "token"
    BY <1>3 DEF TokenFamily, KeyringClass, UserClass, FlagClass, TokenClass
  <2> QED
    BY <1>3, <2>1, TokenNoticed DEF OnlineNotify
<1>4. service.listens => ~SessionClass(service)
  BY DEF SessionClass
<1> QED
  BY <1>1, <1>2, <1>3, <1>4, ClassOf DEF IInv, TypeOK, TokenFamily

LEMMA StoreKeeps ==
  ASSUME IInv, NEW a \in Maybe, StoreCredentials(a)
  PROVE  IInv' /\ [Signals!Next]_Listeners
<1> USE DEF StoreCredentials, held, judged, network
<1>1. Typed' /\ CredsFit' /\ Silent
  BY DEF IInv, TypeOK, Typed, CredsFit, Silent
<1>2. CASE service.known_by # "keyring"
  <2>1. Caps' = Caps
    BY <1>2 DEF Caps, LoginCaps, SessionCaps, FlagCaps, FacebookCaps
  <2>2. CheckUnderWay' = CheckUnderWay
    BY DEF CheckUnderWay
  <2> QED
    BY <1>1, <2>1, <2>2, Unannounced DEF IInv, StaleIsExplained
<1>3. CASE service.known_by = "keyring"
  <2>1. Caps = KeyringCaps /\ Caps' = KeyringCaps'
    BY <1>3 DEF Caps
  <2>2. service = Sina
    BY <1>3, ClassOf DEF IInv, TypeOK, LoginClass, SessionClass, KeyringClass, UserClass, FlagClass
  <2>3. StaleIsExplained'
    BY <2>1, <2>2, FamilyOf DEF IInv, StaleIsExplained, KeyringCaps, IfHeld
  <2> QED
    BY <1>1, <2>1, <2>3, Unannounced DEF IInv, KeyringCaps, IfHeld
<1> QED
  BY <1>2, <1>3

LEMMA UpdatedKeeps ==
  ASSUME IInv, CredentialsUpdated PROVE IInv' /\ [Signals!Next]_Listeners
<1> USE DEF CredentialsUpdated, held, judged, network
<1>0. Typed
  BY DEF IInv, TypeOK, Typed
<1>1. lookups' \in [Slot -> Lookup]
  BY <1>0, AskKeyringType DEF Typed
<1>2. NoAccount \in Maybe
  BY DEF Maybe
<1>3. Typed'
  BY <1>0, <1>1, <1>2 DEF Typed
<1>4. CASE UNCHANGED <<connected, held, judged, heard>>
  BY <1>3, <1>4, NothingToSay DEF Silent
<1>5. CASE Emit /\ who' = NoAccount /\ creds' = creds
  BY <1>3, <1>5, Announced DEF IInv, CredsFit
<1> QED
  BY <1>4, <1>5

LEMMA ReadsKeep ==
  ASSUME IInv, NEW s \in Slot, KeyringReads(s) PROVE IInv' /\ [Signals!Next]_Listeners
<1> USE DEF KeyringReads, held, judged, network
<1>1. \A a \in Maybe : Found(a) \in Lookup
  BY DEF Found, Lookup
<1>2. Typed'
  BY <1>1 DEF IInv, TypeOK, Typed, Maybe
<1> QED
  BY <1>2, NothingToSay DEF Silent

LEMMA LookupKeeps ==
  ASSUME IInv, NEW s \in Slot, LookupDone(s) PROVE IInv' /\ [Signals!Next]_Listeners
<1> USE DEF LookupDone, network
<1>0. Typed /\ NoAccount \in Maybe
  BY DEF IInv, TypeOK, Typed, Maybe
<1> DEFINE a == lookups[s].account
<1>1. a \in Maybe /\ lookups' \in [Slot -> Lookup]
  <2>1. FreeLookup \in Lookup
    BY DEF FreeLookup, Lookup, Maybe
  <2> QED
    BY <1>0, <2>1 DEF Typed, Lookup
<1> HIDE DEF a
<1>2. CASE service.keeps = "password"
  <2> USE DEF FoundPassword
  <2>0. FoundPassword(a)
    BY <1>2 DEF a
  <2>1. checks' \in [Slot -> Check]
    BY <1>0, <1>1, <2>0, AskServerType DEF Typed
  <2>2. Typed'
    BY <1>0, <1>1, <2>0, <2>1 DEF Typed
  <2>3. CredsFit'
    BY <2>0, ClassOf, <1>0
    DEF IInv, Typed, CredsFit, LoginClass, SessionClass, KeyringClass, UserClass, FlagClass
  <2> QED
    BY <2>0, <2>2, <2>3, Announced
<1>3. CASE service.keeps # "password"
  <2> USE DEF GotTokens, judged
  <2>0. GotTokens(a)
    BY <1>3 DEF a
  <2>1. /\ checks' \in [Slot -> Check]
        /\ \A t \in Slot : checks[t] # FreeCheck => checks'[t] # FreeCheck
    BY <1>0, <1>1, <2>0, AskServerType DEF Typed
  <2>2. token' \in Maybe /\ configured' \in BOOLEAN
    BY <1>0, <1>1, <2>0 DEF Typed, IfHeld
  <2>3. Typed'
    BY <1>0, <1>1, <2>0, <2>1, <2>2 DEF Typed
  <2>4. CredsFit'
    BY <2>0 DEF IInv, CredsFit
  <2>5. CASE service.flagged
    BY <2>0, <2>3, <2>4, <2>5, Announced
  <2>6. CASE ~service.flagged
    <3>1. service.known_by # "flag"
      BY <1>0, <2>6, ClassOf
      DEF Typed, LoginClass, SessionClass, KeyringClass, UserClass, FlagClass
    <3> QED
      BY <2>0, <2>1, <2>3, <2>6, <3>1, NothingToSay
  <2> QED
    BY <2>5, <2>6
<1> QED
  BY <1>2, <1>3

LEMMA LoginKeeps ==
  ASSUME IInv, NEW s \in Slot, NEW ok \in BOOLEAN, LoginAnswered(s, ok)
  PROVE  IInv' /\ [Signals!Next]_Listeners
<1> USE DEF LoginAnswered, network
<1>0. Typed /\ FreeCheck \in Check
  BY DEF IInv, TypeOK, Typed, FreeCheck, Check, Maybe
<1>1. checks' \in [Slot -> Check] /\ token' \in Maybe
  BY <1>0 DEF Typed, Check
<1>2. Typed'
  BY <1>0, <1>1 DEF Typed, Verdict
<1>3. CASE ok
  <2>1. \A t \in Slot : checks[t] # FreeCheck => checks'[t] # FreeCheck
    BY <1>0, <1>3 DEF Typed, Check, FreeCheck
  <2> QED
    BY <1>2, <1>3, <2>1, NothingToSay
<1>4. CASE ~ok
  BY <1>2, <1>4, Announced DEF CredsFit
<1> QED
  BY <1>3, <1>4

\* The last call's callback: where it is silent, Twitter keeps its verdict, Last.fm
\* has no session key, Photobucket has lost the user, and the rest keep theirs.
LEMMA CheckKeeps ==
  ASSUME IInv, NEW s \in Slot, NEW answer \in Answer, CheckAnswered(s, answer)
  PROVE  IInv' /\ [Signals!Next]_Listeners
<1> USE DEF CheckAnswered, network, held
<1> DEFINE takes == service.answers[answer]
<1>0. Typed /\ FreeCheck \in Check /\ NoAccount \in Maybe
  BY DEF IInv, TypeOK, Typed, FreeCheck, Check, Maybe
<1>1. checks' \in [Slot -> Check] /\ who' \in Maybe
  BY <1>0 DEF Typed, Check
<1>2. creds' \in Verdict \cup {"offline", "checked"}
  BY <1>0, ClassOf
  DEF Typed, Verdict, LoginClass, SessionClass, KeyringClass, UserClass, FlagClass, TokenClass
<1>3. Typed'
  BY <1>0, <1>1, <1>2 DEF Typed
<1>4. CredsFit'
  BY <1>0, ClassOf
  DEF Typed, IInv, CredsFit, LoginClass, SessionClass, KeyringClass, UserClass, FlagClass
<1>5. CASE takes.emits
  BY <1>3, <1>4, <1>5, Announced
<1>6. CASE ~takes.emits
  <2> DEFINE Quietly == StaleIsExplained' /\ (Caps' = "valid" => Caps = "valid")
  <2>1. CASE LoginClass(service)
    <3>1. service = Twitter /\ UNCHANGED <<login, creds>>
      BY <1>6, <2>1 DEF LoginClass
    <3>2. Caps' = Caps
      BY <2>1, <3>1 DEF LoginClass, Caps, LoginCaps
    <3>3. Quietly
      BY <1>6, <3>1, <3>2, FamilyOf DEF IInv, StaleIsExplained, Silent
    <3> QED
      BY <1>3, <1>4, <1>6, <3>3, Unannounced DEF IInv
  <2>2. CASE SessionClass(service)
    <3>1. creds' = "checked" /\ who' = who /\ login' = login /\ heard' = heard
      BY <1>6, <2>2 DEF SessionClass, Silent
    <3>2. Caps = SessionCaps /\ Caps' = SessionCaps'
      BY <2>2 DEF SessionClass, Caps
    <3>3. Quietly
      BY <2>2, <3>1, <3>2, FamilyOf
      DEF IInv, CredsFit, StaleIsExplained, SessionClass, SessionCaps, IfHeld
    <3> QED
      BY <1>3, <1>4, <1>6, <3>3, Unannounced DEF IInv
  <2>3. CASE KeyringClass(service) \/ UserClass(service)
    <3>1. UNCHANGED <<who, creds, heard>>
      BY <1>6, <2>3 DEF KeyringClass, UserClass, TokenClass, Silent
    <3>2. Caps' = Caps
      BY <2>3, <3>1 DEF KeyringClass, UserClass, Caps, KeyringCaps, FacebookCaps
    <3>3. Quietly
      BY <2>3, <3>1, <3>2 DEF IInv, StaleIsExplained, KeyringClass, UserClass
    <3> QED
      BY <1>3, <1>4, <1>6, <3>3, Unannounced DEF IInv
  <2>4. CASE FlagClass(service)
    <3>1. service = Photobucket /\ who' = NoAccount /\ heard' = heard
      BY <1>6, <2>4 DEF FlagClass, Silent
    <3>2. Caps = FlagCaps /\ Caps' = FlagCaps'
      BY <2>4 DEF FlagClass, Caps
    <3>3. Quietly
      BY <2>4, <3>1, <3>2, FamilyOf DEF IInv, StaleIsExplained, FlagClass, FlagCaps, IfHeld
    <3> QED
      BY <1>3, <1>4, <1>6, <3>3, Unannounced DEF IInv
  <2> QED
    BY <1>0, <2>1, <2>2, <2>3, <2>4, ClassOf DEF Typed
<1> QED
  BY <1>5, <1>6

LEMMA NextKeeps == ASSUME IInv, [Next]_vars PROVE IInv' /\ [Signals!Next]_Listeners
<1> DEFINE Goal == IInv' /\ [Signals!Next]_Listeners
<1>0. Typed
  BY DEF IInv, TypeOK, Typed
<1>1. ASSUME NetworkUp PROVE Goal
  <2>1. Typed'
    BY <1>0, <1>1, CredentialsAssumption DEF Typed, NetworkUp, held, judged
  <2> QED
    BY <1>1, <2>1, NothingToSay DEF NetworkUp, held, judged, Silent
<1>2. ASSUME NetworkDown PROVE Goal
  BY <1>0, <1>2, NoticeKeeps DEF NetworkDown, Typed
<1>3. ASSUME NoticeDue PROVE Goal
  BY <1>0, <1>3, NoticeKeeps, CredentialsAssumption DEF NoticeDue, Typed
<1>4. ASSUME UNCHANGED vars PROVE Goal
  <2>1. Typed'
    BY <1>0, <1>4 DEF Typed, vars, network, held, judged
  <2> QED
    BY <1>4, <2>1, NothingToSay DEF vars, network, held, judged, Silent
<1> HIDE DEF Goal
<1> QED
  BY <1>1, <1>2, <1>3, <1>4, StoreKeeps, UpdatedKeeps, ReadsKeep, LookupKeeps, LoginKeeps,
     CheckKeeps DEF Next, Goal

LEMMA IInvHolds == Spec => []IInv
BY InitIInv, NextKeeps, PTL DEF Spec

-----------------------------------------------------------------------------
(* What follows.                                                           *)

\* Every variable keeps its type, however many lookups and calls overlap.
THEOREM TypeCorrect == Spec => []TypeOK
<1>1. IInv => TypeOK
  BY DEF IInv
<1> QED
  BY IInvHolds, <1>1, PTL

\* Where what a service announced last is not what get_dynamic_caps would say, it
\* is for one of the reasons listed, in any of the ten services.
THEOREM StaleAlwaysExplained == Spec => []StaleIsExplained
<1>1. IInv => StaleIsExplained
  BY DEF IInv
<1> QED
  BY IInvHolds, <1>1, PTL

\* ServiceCredentials implements SwServiceSignals, on which ServiceViews is built:
\* no service but Facebook becomes valid without a signal, so that no view waits
\* for credentials that are there.
THEOREM CredentialsImplementSignals == Spec => ImplementsSignals
<1>1. Init => Signals!Init
  <2>1. ASSUME Init PROVE Caps # "valid"
    BY <2>1, ClassOf
    DEF Init, LoginClass, SessionClass, KeyringClass, UserClass, FlagClass, Caps, LoginCaps,
        SessionCaps, KeyringCaps, FlagCaps, FacebookCaps, IfHeld
  <2> QED
    BY <2>1 DEF Init, Signals!Init
<1>2. IInv /\ [Next]_vars => [Signals!Next]_Listeners
  BY NextKeeps
<1> QED
  BY <1>1, <1>2, IInvHolds, PTL DEF Spec, ImplementsSignals, Signals!Spec, Listeners
=============================================================================
