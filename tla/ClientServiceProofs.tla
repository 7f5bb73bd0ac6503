-------------------------- MODULE ClientServiceProofs --------------------------
(***************************************************************************)
(* Theorems about ClientService, for any number of calls and of messages    *)
(* under way.                                                              *)
(***************************************************************************)
EXTENDS ClientService, FiniteSetTheorems, TLAPS

-----------------------------------------------------------------------------
(* The inductive invariant.                                                *)

\* The program knows the number of c by the time that the i-th message arrives.
Heard(c, i) ==
  \/ opid[c] = number[c]
  \/ \E j \in 1 .. (i - 1) : wire[j] = Reply(c, "opid", number[c])

\* One of the messages before the i-th one tells the handler of c the verdict w.
Tells(c, w, i) ==
  kind[c] = "photo" /\ \E j \in 1 .. (i - 1) : wire[j] = Signal(number[c], w) /\ Heard(c, j)

\* The numbers of one life of the daemon differ; those of an earlier life belong to calls
\* that are settled or lost.
Current(c) == number[c] # 0 /\ (died => job[c] \in {"accepted", "dropped"})
Numbered == {c \in Call : number[c] # 0}
Numbers ==
  /\ next <= Cardinality(Numbered) + 1
  /\ \A c \in Call : Current(c) => number[c] < next
  /\ \A c, d \in Call : Current(c) /\ Current(d) /\ number[c] = number[d] => c = d

\* The daemon's idea of a call.
Taken(c) ==
  /\ job[c] \in {"idle", "asked", "refused"} => number[c] = 0
  /\ job[c] = "accepted" => number[c] # 0
  /\ job[c] = "lost" => died
  /\ number[c] # 0 => kind[c] # "plain"

\* The program's: its closure, its handler and its number.
Held(c) ==
  /\ stage[c] \in {"idle", "sizing"} => job[c] = "idle"
  /\ stage[c] # Freed => memory[c] = c
  /\ kind[c] = "photo" /\ stage[c] \in {"sent", "waiting"} => c \in watches
  /\ opid[c] # 0 => opid[c] = number[c]
  /\ stage[c] = "waiting" => opid[c] # 0

\* Until the closure is freed the number is known or on its way, and so is the verdict.
Follows(c) ==
  number[c] # 0 /\ stage[c] # Freed =>
    /\ Heard(c, Len(wire) + 1)
    /\ kind[c] = "photo" /\ job[c] \in Daemon!Verdict => Tells(c, job[c], Len(wire) + 1)

Honest(m) ==
  /\ m.to = {} => m.opid # 0
  /\ m.to = {} /\ m.what = "complete" =>
       \E d \in Call : job[d] = "complete" /\ number[d] = m.opid
  /\ \A c \in m.to : /\ m.what = "opid" => m.opid = number[c] /\ number[c] # 0
                     /\ m.what = "done" => job[c] = "complete"

\* Whoever takes the success with the number of c for its own has one, is one of the two
\* exceptions of SuccessIsReal, or is going to hear of its failure before.
Explained(c, i) ==
  \/ job[c] = "complete"
  \/ died /\ (job[c] = "lost" \/ kind[c] = "video")
  \/ Tells(c, "failed", i)
Meant(i) ==
  wire[i].to = {} /\ wire[i].what = "complete" =>
    \A c \in Call : stage[c] # Freed /\ number[c] = wire[i].opid /\ Heard(c, i) => Explained(c, i)

\* A success that the program was told of.
Succeeded(c) == stage[c] = Freed /\ (job[c] # "complete" => number[c] # 0)

IInv ==
  /\ TypeOK /\ Numbers /\ SuccessIsReal
  /\ \A c \in success : Succeeded(c)
  /\ \A c \in Call : Taken(c) /\ Held(c) /\ Follows(c)
  /\ \A i \in 1 .. Len(wire) : Honest(wire[i]) /\ Meant(i)

LEMMA InitIInv == Init => IInv
<1> SUFFICES ASSUME Init PROVE IInv
  OBVIOUS
<1> USE DEF Init, Freed
<1>1. Cardinality(Call) \in Nat /\ Cardinality(Numbered) = 0
  BY ClientAssumption, FS_CardinalityType, FS_EmptySet DEF Numbered
<1>2. job = [c \in Call |-> "idle"]
  BY DEF Daemon!Init
<1>3. wire \in Seq(Message) /\ Len(wire) = 0
  OBVIOUS
<1>4. TypeOK
  <2>1. job \in [Call -> {"idle", "asked", "dropped", "accepted", "lost"} \cup Settled]
    BY <1>2
  <2>2. 1 \in 1 .. Cardinality(Call) + 1 /\ 0 \in 0 .. Cardinality(Call)
    BY <1>1
  <2> QED
    <3>1. opid \in [Call -> 0 .. Cardinality(Call)] /\ number \in [Call -> 0 .. Cardinality(Call)]
      BY <2>2
    <3>2. /\ kind \in [Call -> {"plain", "photo", "video"}]
          /\ stage \in [Call -> {"idle", "sizing", "sent", "waiting", Freed}]
          /\ memory \in [Call -> Call] /\ watches \subseteq Call /\ success \subseteq Call
      OBVIOUS
    <3>3. next \in 1 .. Cardinality(Call) + 1 /\ died \in BOOLEAN
      BY <2>2
    <3>4. Len(wire) <= MaxWire
      BY <1>3, ClientAssumption
    <3> QED
      BY <1>3, <2>1, <3>1, <3>2, <3>3, <3>4 DEF TypeOK
<1>5. Numbers
  BY <1>1 DEF Numbers, Current
<1>6. \A c \in Call : Taken(c) /\ Held(c) /\ Follows(c)
  BY <1>2 DEF Taken, Held, Follows
<1> QED
  BY <1>3, <1>4, <1>5, <1>6 DEF IInv, SuccessIsReal

-----------------------------------------------------------------------------
(* Messages on the wire.                                                   *)

LEMMA OnWire ==
  ASSUME TypeOK, NEW i \in 1 .. Len(wire) PROVE wire[i] \in Message /\ wire[i].to \subseteq Call
<1>1. wire[i] \in Message
  BY DEF TypeOK
<1> QED
  BY <1>1 DEF Message

LEMMA Sent ==
  ASSUME TypeOK, NEW m \in Message, wire' = Append(wire, m)
  PROVE  /\ wire' \in Seq(Message) /\ Len(wire') = Len(wire) + 1 /\ Len(wire) \in Nat
         /\ \A i \in 1 .. Len(wire) : wire'[i] = wire[i]
         /\ wire'[Len(wire) + 1] = m
BY DEF TypeOK

LEMMA Received ==
  ASSUME TypeOK, wire # <<>>, wire' = Tail(wire)
  PROVE  /\ wire' \in Seq(Message) /\ Len(wire') = Len(wire) - 1 /\ Len(wire) \in Nat \ {0}
         /\ \A i \in 1 .. Len(wire') : wire'[i] = wire[i + 1]
         /\ Head(wire) = wire[1] /\ wire[1] \in Message
BY DEF TypeOK

\* What is sent later changes nothing of what is heard before.
LEMMA HeardBefore ==
  ASSUME TypeOK, NEW c \in Call, UNCHANGED <<opid, kind>>, number'[c] = number[c],
         wire' \in Seq(Message), Len(wire') \in Nat, Len(wire') >= Len(wire),
         \A i \in 1 .. Len(wire) : wire'[i] = wire[i]
  PROVE  /\ \A i \in 1 .. Len(wire) + 1 :
              Heard(c, i)' <=> Heard(c, i)
         /\ \A i \in 1 .. Len(wire) + 1, w \in Daemon!Verdict :
              Tells(c, w, i)' <=> Tells(c, w, i)
<1>0. Len(wire) \in Nat
  BY DEF TypeOK
<1>1. \A i \in 1 .. Len(wire) + 1 : Heard(c, i)' <=> Heard(c, i)
  BY <1>0 DEF Heard
<1>2. ASSUME NEW i \in 1 .. Len(wire) + 1, NEW w \in Daemon!Verdict
      PROVE  Tells(c, w, i)' <=> Tells(c, w, i)
  BY <1>0, <1>1 DEF Tells
<1> QED
  BY <1>1, <1>2

-----------------------------------------------------------------------------
(* Steps of the program before a reply.                                    *)

\* Something happens to the closure of c: the call has no number yet, or the closure is
\* freed.
Touches(c) ==
  /\ UNCHANGED <<opid, success, number, next, died, wire>>
  /\ \A e \in Call \ {c} : stage'[e] = stage[e] /\ kind'[e] = kind[e] /\ job'[e] = job[e]
  /\ stage[c] # Freed
  /\ number[c] = 0 \/ (kind'[c] = kind[c] /\ job'[c] = job[c] /\ stage'[c] = Freed)

LEMMA TouchesKeeps ==
  ASSUME IInv, NEW c \in Call, Touches(c), TypeOK',
         job[c] \in {"complete", "lost"} => job'[c] = job[c],
         \A e \in Call : Taken(e)' /\ Held(e)'
  PROVE  IInv'
<1> USE DEF Touches
<1>0. TypeOK /\ Numbers /\ Len(wire) \in Nat
  BY DEF IInv, TypeOK
<1>1. Numbers'
  <2>1. Numbered' = Numbered
    BY DEF Numbered
  <2>2. \A e \in Call : Current(e)' => Current(e)
    BY DEF Current
  <2> QED
    BY <1>0, <2>1, <2>2 DEF Numbers
<1>2. \A e \in Call : job[e] \in {"complete", "lost"} => job'[e] = job[e]
  OBVIOUS
<1>3. ASSUME NEW e \in success' PROVE Succeeded(e)'
  BY <1>0, <1>2 DEF IInv, TypeOK, Succeeded
<1>4. SuccessIsReal'
  <2>1. \A e \in success : kind'[e] = kind[e]
    BY DEF IInv, TypeOK, Succeeded
  <2> QED
    BY <1>2, <2>1 DEF IInv, SuccessIsReal, TypeOK
<1>5. \A e \in Call : number[e] # 0 /\ stage'[e] # Freed =>
        stage[e] # Freed /\ kind'[e] = kind[e] /\ job'[e] = job[e]
  OBVIOUS
<1>6. ASSUME NEW e \in Call PROVE Follows(e)'
  BY <1>5 DEF IInv, Follows, Heard, Tells
<1>7. ASSUME NEW i \in 1 .. Len(wire) PROVE Honest(wire[i])' /\ Meant(i)'
  <2>0. Honest(wire[i]) /\ Meant(i) /\ wire[i].to \subseteq Call
    BY <1>0, OnWire DEF IInv
  <2>1. Honest(wire[i])'
    BY <1>2, <2>0 DEF Honest
  <2>2. ASSUME wire[i].to = {}, wire[i].what = "complete", NEW e \in Call, stage'[e] # Freed,
               number[e] = wire[i].opid, Heard(e, i)'
        PROVE  Explained(e, i)'
    <3>1. number[e] # 0 /\ Heard(e, i)
      BY <2>0, <2>2 DEF Honest, Heard
    <3>2. Explained(e, i) /\ kind'[e] = kind[e] /\ job'[e] = job[e]
      BY <1>5, <2>0, <2>2, <3>1 DEF Meant
    <3> QED
      BY <3>2 DEF Explained, Tells, Heard
  <2> QED
    BY <2>1, <2>2 DEF Meant
<1> QED
  BY <1>1, <1>3, <1>4, <1>6, <1>7 DEF IInv

LEMMA Allocated ==
  ASSUME IInv, NEW c \in Call, stage[c] # Freed, Allocates(c)
  PROVE  memory' \in [Call -> Call] /\ \A e \in Call : stage[e] # Freed => memory'[e] = e
BY DEF Allocates, IInv, TypeOK, Held

LEMMA StartCallKeeps == ASSUME IInv, NEW c \in Call, StartCall(c) PROVE IInv'
<1> USE DEF StartCall, Freed
<1>0. TypeOK /\ job[c] = "idle" /\ job' = [job EXCEPT ![c] = "asked"] /\ number[c] = 0
  BY DEF IInv, Taken, Daemon!Ask, Daemon!Goes
<1>1. memory' \in [Call -> Call] /\ \A e \in Call : stage[e] # Freed => memory'[e] = e
  BY Allocated
<1>2. TypeOK'
  BY <1>0, <1>1 DEF TypeOK
<1>3. Touches(c)
  BY <1>0 DEF Touches, TypeOK
<1>4. ASSUME NEW e \in Call PROVE Taken(e)' /\ Held(e)'
  <2>1. Taken(e) /\ Held(e)
    BY DEF IInv
  <2>2. /\ stage'[e] = IF e = c THEN "sent" ELSE stage[e]
        /\ kind'[e] = IF e = c THEN "plain" ELSE kind[e]
        /\ job'[e] = IF e = c THEN "asked" ELSE job[e]
    BY <1>0 DEF TypeOK
  <2> QED
    BY <1>0, <1>1, <2>1, <2>2 DEF Taken, Held
<1> QED
  BY <1>0, <1>2, <1>3, <1>4, TouchesKeeps

LEMMA StartUploadKeeps ==
  ASSUME IInv, NEW c \in Call, NEW k \in {"photo", "video"}, StartUpload(c, k) PROVE IInv'
<1> USE DEF StartUpload, Freed, daemon
<1>0. TypeOK /\ job[c] = "idle" /\ number[c] = 0
  BY DEF IInv, Taken, Held
<1>1. memory' \in [Call -> Call] /\ \A e \in Call : stage[e] # Freed => memory'[e] = e
  BY Allocated
<1>2. TypeOK'
  BY <1>0, <1>1 DEF TypeOK
<1>3. Touches(c)
  BY <1>0 DEF Touches, TypeOK
<1>4. ASSUME NEW e \in Call PROVE Taken(e)' /\ Held(e)'
  <2>1. Taken(e) /\ Held(e)
    BY DEF IInv
  <2>2. /\ stage'[e] = IF e = c THEN "sizing" ELSE stage[e]
        /\ kind'[e] = IF e = c THEN k ELSE kind[e]
    BY <1>0 DEF TypeOK
  <2> QED
    BY <1>0, <1>1, <2>1, <2>2 DEF Taken, Held
<1> QED
  BY <1>0, <1>2, <1>3, <1>4, TouchesKeeps

LEMMA GotFileSizeKeeps == ASSUME IInv, NEW c \in Call, GotFileSize(c) PROVE IInv'
<1> USE DEF GotFileSize, Freed
<1>0. TypeOK /\ job[c] = "idle" /\ job' = [job EXCEPT ![c] = "asked"] /\ number[c] = 0
  BY DEF IInv, Taken, Daemon!Ask, Daemon!Goes
<1>1. watches' = IF kind[c] = "photo" THEN watches \cup {c} ELSE watches
  OBVIOUS
<1>2. TypeOK'
  BY <1>0, <1>1 DEF TypeOK
<1>3. Touches(c)
  BY <1>0 DEF Touches, TypeOK
<1>4. ASSUME NEW e \in Call PROVE Taken(e)' /\ Held(e)'
  <2>1. Taken(e) /\ Held(e)
    BY DEF IInv
  <2>2. /\ stage'[e] = IF e = c THEN "sent" ELSE stage[e]
        /\ job'[e] = IF e = c THEN "asked" ELSE job[e]
    BY <1>0 DEF TypeOK
  <2> QED
    BY <1>0, <1>1, <2>1, <2>2 DEF Taken, Held
<1> QED
  BY <1>0, <1>2, <1>3, <1>4, TouchesKeeps

\* There is no file, or no reply in time.
LEMMA GivesUpKeeps == ASSUME IInv, NEW c \in Call, NoFile(c) \/ TimesOut(c) PROVE IInv'
<1> USE DEF Freed
<1>0. /\ TypeOK /\ stage[c] # Freed /\ stage' = [stage EXCEPT ![c] = Freed]
      /\ UNCHANGED <<kind, opid, memory, watches, success, job, number, next, died, wire>>
  BY DEF IInv, NoFile, TimesOut, Over, closures, daemon
<1>1. TypeOK'
  BY <1>0 DEF TypeOK
<1>2. Touches(c)
  BY <1>0 DEF Touches, TypeOK
<1>3. ASSUME NEW e \in Call PROVE Taken(e)' /\ Held(e)'
  <2>1. Taken(e) /\ Held(e) /\ stage'[e] = IF e = c THEN Freed ELSE stage[e]
    BY <1>0 DEF IInv, TypeOK
  <2> QED
    BY <1>0, <2>1 DEF Taken, Held
<1> QED
  BY <1>0, <1>1, <1>2, <1>3, TouchesKeeps

-----------------------------------------------------------------------------
(* Steps of the daemon.                                                    *)

\* What the daemon may send when its idea of c has changed.
Settles(c) ==
  /\ UNCHANGED <<closures, outcome, number, next, died>>
  /\ \A e \in Call \ {c} : job'[e] = job[e]
  /\ \/ job[c] = "asked" /\ job'[c] \in Settled \cup {"dropped"}
     \/ job[c] = "accepted" /\ job'[c] \in {"accepted"} \cup Daemon!Verdict
  /\ job[c] = "accepted" /\ job'[c] \in Daemon!Verdict /\ kind[c] = "photo" =>
       wire' = Append(wire, Signal(number[c], job'[c]))

\* The message is about c: its reply, or a signal with its number.
About(c, m) ==
  \/ /\ m.to = {c} /\ m.what \in {"done", "error"}
     /\ m.what = "done" => job'[c] = "complete"
  \/ /\ m.to = {} /\ m.opid = number[c] /\ job[c] = "accepted"
     /\ m.what = "complete" => job'[c] = "complete"

LEMMA SettlesKeeps ==
  ASSUME IInv, NEW c \in Call, Settles(c), TypeOK',
         UNCHANGED wire \/ \E m \in Message : About(c, m) /\ wire' = Append(wire, m)
  PROVE  IInv'
<1> USE DEF closures, outcome
<1>0. /\ TypeOK /\ Numbers /\ Len(wire) \in Nat /\ wire \in Seq(Message)
      /\ UNCHANGED <<kind, opid, memory, watches, stage, success, number, next, died>>
  BY DEF IInv, TypeOK, Settles
<1>1. /\ wire' \in Seq(Message) /\ Len(wire') \in Nat /\ Len(wire') \in {Len(wire), Len(wire) + 1}
      /\ \A i \in 1 .. Len(wire) : wire'[i] = wire[i]
      /\ Len(wire') > Len(wire) => wire'[Len(wire')] \in Message /\ About(c, wire'[Len(wire')])
  <2>1. CASE UNCHANGED wire
    BY <1>0, <2>1
  <2>2. ASSUME NEW m \in Message, About(c, m), wire' = Append(wire, m)
        PROVE  /\ wire' \in Seq(Message) /\ Len(wire') = Len(wire) + 1
               /\ \A i \in 1 .. Len(wire) : wire'[i] = wire[i]
               /\ wire'[Len(wire')] = m
    BY <1>0, <2>2, Sent
  <2> QED
    BY <1>0, <2>1, <2>2
<1>2. \A e \in Call :
        /\ job'[e] \in {"accepted", "dropped"} /\ number[e] # 0 =>
             job[e] \in {"accepted", "dropped"}
        /\ job[e] \in {"complete", "lost"} => job'[e] = job[e]
  BY <1>0 DEF Settles, Settled, Daemon!Verdict, IInv, Taken
<1>3. Numbers'
  <2>1. Numbered' = Numbered /\ \A e \in Call : Current(e)' => Current(e)
    BY <1>0, <1>2 DEF Numbered, Current, IInv, Taken, Settles
  <2> QED
    BY <1>0, <2>1 DEF Numbers
<1>4. SuccessIsReal' /\ \A e \in success : Succeeded(e)'
  BY <1>0, <1>2 DEF IInv, SuccessIsReal, Succeeded, TypeOK
<1>5. ASSUME NEW e \in Call PROVE Taken(e)' /\ Held(e)'
  BY <1>0 DEF IInv, Taken, Held, Settles, Settled, Daemon!Verdict
<1>6. ASSUME NEW e \in Call
      PROVE  \A i \in 1 .. Len(wire) + 1, w \in Daemon!Verdict :
               Tells(e, w, i)' <=> Tells(e, w, i)
  BY <1>0, <1>1, HeardBefore
<1>7. ASSUME NEW e \in Call PROVE Follows(e)'
  <2> SUFFICES ASSUME number[e] # 0, stage[e] # Freed
               PROVE  /\ Heard(e, Len(wire) + 1)'
                      /\ kind[e] = "photo" /\ job'[e] \in Daemon!Verdict =>
                           Tells(e, job[e], Len(wire) + 1)'
    BY <1>0 DEF Follows
  <2>1. /\ Heard(e, Len(wire) + 1)
        /\ kind[e] = "photo" /\ job[e] \in Daemon!Verdict => Tells(e, job[e], Len(wire) + 1)
    BY DEF IInv, Follows
  <2>2. Heard(e, Len(wire) + 1)'
    BY <1>0, <1>1, <2>1 DEF Heard
  <2>3. ASSUME kind[e] = "photo", job'[e] \in Daemon!Verdict
        PROVE  Tells(e, job[e], Len(wire) + 1)'
    <3>1. CASE job[e] \in Daemon!Verdict
      <4>1. job'[e] = job[e]
        BY <1>0, <3>1 DEF Settles, Daemon!Verdict
      <4> QED
        BY <1>0, <1>1, <2>1, <2>3, <3>1, <4>1 DEF Tells, Heard
    <3>2. CASE job[e] \notin Daemon!Verdict
      <4>1. e = c /\ wire' = Append(wire, Signal(number[c], job'[c]))
        BY <2>3, <3>2 DEF Settles, IInv, Taken
      <4>2. Len(wire') = Len(wire) + 1 /\ wire'[Len(wire) + 1] = Signal(number[e], job'[e])
        BY <1>0, <4>1
      <4>3. (Heard(e, Len(wire) + 1))' /\ Len(wire) + 1 \in 1 .. (Len(wire') + 1 - 1)
        BY <1>0, <2>2, <4>2
      <4>4. opid[e] = number[e] \/ \E j \in 1 .. Len(wire) : wire'[j] = Reply(e, "opid", number[e])
        BY <1>0, <1>1, <2>1 DEF Heard
      <4> QED
        BY <1>0, <2>3, <4>2, <4>3, <4>4 DEF Tells, Heard
    <3> QED
      BY <3>1, <3>2
  <2> QED
    BY <2>2, <2>3
<1>8. ASSUME NEW i \in 1 .. Len(wire') PROVE Honest(wire[i])' /\ Meant(i)'
  <2>1. CASE i \in 1 .. Len(wire)
    <3>0. Honest(wire[i]) /\ Meant(i) /\ wire[i].to \subseteq Call /\ wire'[i] = wire[i]
      BY <1>0, <1>1, <2>1, OnWire DEF IInv
    <3>1. Honest(wire[i])'
      BY <1>0, <1>2, <3>0 DEF Honest
    <3>2. ASSUME wire[i].to = {}, wire[i].what = "complete", NEW e \in Call, stage[e] # Freed,
                 number[e] = wire[i].opid, Heard(e, i)'
          PROVE  Explained(e, i)'
      <4>1. Heard(e, i)
        BY <1>0, <1>1, <2>1, <3>2 DEF Heard
      <4>2. Explained(e, i)
        BY <3>0, <3>2, <4>1 DEF Meant
      <4>3. Tells(e, "failed", i) => Tells(e, "failed", i)'
        BY <1>0, <1>6, <2>1 DEF Daemon!Verdict
      <4> QED
        BY <1>0, <1>2, <4>2, <4>3 DEF Explained
    <3> QED
      BY <1>0, <3>0, <3>1, <3>2 DEF Meant
  <2>2. CASE i \notin 1 .. Len(wire)
    <3>0. i = Len(wire) + 1 /\ i = Len(wire')
      BY <1>0, <1>1, <2>2
    <3>1. wire'[i] \in Message /\ About(c, wire'[i])
      BY <1>0, <1>1, <3>0
    <3>2. Honest(wire[i])'
      BY <1>0, <3>1 DEF Honest, About, IInv, Taken
    <3>3. ASSUME wire'[i].to = {}, wire'[i].what = "complete", NEW e \in Call, stage[e] # Freed,
                 number[e] = wire'[i].opid
          PROVE  Explained(e, i)'
      <4>1. /\ job[c] = "accepted" /\ job'[c] = "complete"
            /\ number[e] = number[c] /\ number[c] # 0
        BY <3>1, <3>3 DEF About, IInv, Taken
      <4>2. CASE e = c
        BY <4>1, <4>2 DEF Explained
      <4>3. CASE e # c
        <5>1. ~Current(e)
          BY <1>0, <4>1, <4>3 DEF Numbers, Current
        <5>2. job'[e] = job[e] /\ died /\ kind[e] \in {"photo", "video"}
              /\ job[e] \in {"lost", "complete", "failed"}
          BY <1>0, <4>1, <4>3, <5>1
             DEF Current, Settles, IInv, Taken, TypeOK, Settled, Daemon!Verdict
        <5>3. job[e] = "failed" /\ kind[e] = "photo" => Tells(e, "failed", i)
          BY <3>0, <3>3, <4>1 DEF IInv, Follows, Daemon!Verdict
        <5>4. Tells(e, "failed", i) => Tells(e, "failed", i)'
          BY <1>0, <1>1, <3>0 DEF Tells, Heard
        <5> QED
          BY <1>0, <5>2, <5>3, <5>4 DEF Explained
      <4> QED
        BY <4>2, <4>3
    <3> QED
      BY <1>0, <3>2, <3>3 DEF Meant
  <2> QED
    BY <2>1, <2>2
<1> QED
  BY <1>0, <1>3, <1>4, <1>5, <1>7, <1>8 DEF IInv

LEMMA Typed ==
  ASSUME TypeOK, NEW c \in Call
  PROVE  /\ Cardinality(Call) \in Nat
         /\ \A w \in {"done", "error"} : Reply(c, w, 0) \in Message
         /\ \A n \in 1 .. Cardinality(Call) : Reply(c, "opid", n) \in Message
         /\ \A w \in {"some"} \cup Daemon!Verdict : Signal(number[c], w) \in Message
<1>1. Cardinality(Call) \in Nat
  BY ClientAssumption, FS_CardinalityType
<1>2. number[c] \in 0 .. Cardinality(Call) /\ {c} \in {{e} : e \in Call}
  BY DEF TypeOK
<1> QED
  BY <1>1, <1>2 DEF Reply, Signal, Message

LEMMA SendsType ==
  ASSUME TypeOK, NEW m \in Message, Sends(m)
  PROVE  wire' \in Seq(Message) /\ Len(wire') <= MaxWire /\ wire' = Append(wire, m)
BY ClientAssumption DEF TypeOK, Sends

LEMMA AnswersKeeps == ASSUME IInv, NEW c \in Call, Answers(c) \/ Refuses(c) PROVE IInv'
<1> USE DEF Answers, Refuses, closures, outcome
<1>0. /\ TypeOK /\ job[c] = "asked" /\ job' = [job EXCEPT ![c] = job'[c]]
      /\ job'[c] \in Settled \cup {"dropped"}
      /\ UNCHANGED <<kind, opid, memory, watches, stage, success, number, next, died>>
  BY DEF IInv, Daemon!Handle, Daemon!Goes, Settled, Daemon!Verdict, TypeOK
<1>1. UNCHANGED wire \/ \E m \in Message : Sends(m) /\ About(c, m)
  <2>1. CASE UNCHANGED wire
    BY <2>1
  <2>2. ASSUME Sends(Reply(c, "done", 0)), job'[c] = "complete"
        PROVE  \E m \in Message : Sends(m) /\ About(c, m)
    <3>1. About(c, Reply(c, "done", 0)) /\ Reply(c, "done", 0) \in Message
      BY <1>0, <2>2, Typed DEF About, Reply
    <3> QED
      BY <2>2, <3>1
  <2>3. ASSUME Sends(Reply(c, "error", 0)) PROVE \E m \in Message : Sends(m) /\ About(c, m)
    <3>1. About(c, Reply(c, "error", 0)) /\ Reply(c, "error", 0) \in Message
      BY <1>0, Typed DEF About, Reply
    <3> QED
      BY <2>3, <3>1
  <2> QED
    BY <2>1, <2>2, <2>3
<1>2. wire' \in Seq(Message) /\ Len(wire') <= MaxWire
  BY <1>0, <1>1, SendsType DEF TypeOK
<1>3. TypeOK'
  BY <1>0, <1>2 DEF TypeOK, Settled
<1>4. Settles(c)
  BY <1>0 DEF Settles, TypeOK
<1> QED
  BY <1>0, <1>1, <1>3, <1>4, SendsType, SettlesKeeps

\* Reports and verdicts: signals, for a photo.
LEMMA SignalsKeeps == ASSUME IInv, NEW c \in Call, Reports(c) \/ Concludes(c) PROVE IInv'
<1> USE DEF Reports, Concludes, SignalOf, closures, outcome, daemon
<1>0. /\ TypeOK /\ job[c] = "accepted" /\ job' = [job EXCEPT ![c] = job'[c]]
      /\ job'[c] \in {"accepted"} \cup Daemon!Verdict
      /\ UNCHANGED <<kind, opid, memory, watches, stage, success, number, next, died>>
  BY DEF IInv, Daemon!Conclude, Daemon!Goes, TypeOK
<1>1. ASSUME NEW w \in {"some"} \cup Daemon!Verdict, w = "complete" => job'[c] = "complete"
      PROVE  Signal(number[c], w) \in Message /\ About(c, Signal(number[c], w))
  BY <1>0, <1>1, Typed DEF About, Signal
<1>2. \/ UNCHANGED wire /\ kind[c] # "photo"
      \/ \E w \in {"some"} \cup Daemon!Verdict :
           /\ Sends(Signal(number[c], w)) /\ (w = "complete" => job'[c] = "complete")
           /\ job'[c] \in Daemon!Verdict => w = job'[c]
  <2>1. CASE Reports(c)
    BY <1>0, <2>1 DEF Daemon!Verdict
  <2>2. CASE Concludes(c)
    <3>1. job'[c] \in Daemon!Verdict
      BY <1>0, <2>2 DEF Daemon!Conclude, Daemon!Goes, TypeOK
    <3> QED
      BY <2>2, <3>1
  <2> QED
    BY <2>1, <2>2
<1>3. wire' \in Seq(Message) /\ Len(wire') <= MaxWire
  BY <1>0, <1>1, <1>2, SendsType DEF TypeOK
<1>4. TypeOK'
  BY <1>0, <1>3 DEF TypeOK, Settled
<1>5. Settles(c)
  BY <1>0, <1>2 DEF Settles, TypeOK, Sends
<1>6. UNCHANGED wire \/ \E m \in Message : About(c, m) /\ wire' = Append(wire, m)
  BY <1>1, <1>2 DEF Sends
<1> QED
  BY <1>4, <1>5, <1>6, SettlesKeeps

\* A call that had no number is given the next one, and the reply is the last message.
LEMMA AcceptsKeeps == ASSUME IInv, NEW c \in Call, Accepts(c) PROVE IInv'
<1> USE DEF closures, outcome
<1>0. /\ TypeOK /\ Numbers /\ job[c] = "asked" /\ job' = [job EXCEPT ![c] = job'[c]]
      /\ job'[c] \in {"accepted", "dropped"} /\ number[c] = 0 /\ kind[c] # "plain"
      /\ number' = [number EXCEPT ![c] = next] /\ next' = next + 1 /\ next \in Nat \ {0}
      /\ Sends(Reply(c, "opid", next)) /\ Len(wire) \in Nat
      /\ UNCHANGED <<kind, opid, memory, watches, stage, success, died>>
  BY DEF Accepts, IInv, Taken, Daemon!Handle, Daemon!Goes, TypeOK
<1>1. \A e \in Call : /\ number'[e] = IF e = c THEN next ELSE number[e]
                      /\ e # c => job'[e] = job[e]
  BY <1>0 DEF TypeOK
<1>2. /\ IsFiniteSet(Numbered) /\ Cardinality(Numbered) + 1 <= Cardinality(Call)
      /\ Cardinality(Numbered') = Cardinality(Numbered) + 1
  <2>1. Numbered' = Numbered \cup {c} /\ c \notin Numbered /\ Numbered' \subseteq Call
    BY <1>0, <1>1 DEF Numbered
  <2>2. Numbered \subseteq Call
    BY DEF Numbered
  <2>3. /\ IsFiniteSet(Numbered) /\ Cardinality(Numbered') = Cardinality(Numbered) + 1
        /\ Cardinality(Numbered') <= Cardinality(Call)
    BY <2>1, <2>2, ClientAssumption, FS_Subset, FS_AddElement
  <2> QED
    BY <2>3
<1>3. next \in 1 .. Cardinality(Call)
  BY <1>0, <1>2, ClientAssumption, FS_CardinalityType DEF Numbers
<1>4. /\ wire' \in Seq(Message) /\ Len(wire') <= MaxWire /\ Len(wire') = Len(wire) + 1
      /\ \A i \in 1 .. Len(wire) : wire'[i] = wire[i]
      /\ wire'[Len(wire) + 1] = Reply(c, "opid", next)
  BY <1>0, <1>3, Typed, SendsType, Sent
<1>5. TypeOK'
  <2>1. number' \in [Call -> 0 .. Cardinality(Call)] /\ next' \in 1 .. Cardinality(Call) + 1
    BY <1>0, <1>3, Typed DEF TypeOK
  <2>2. job' \in [Call -> {"idle", "asked", "dropped", "accepted", "lost"} \cup Settled]
    BY <1>0 DEF TypeOK
  <2> QED
    BY <1>0, <1>4, <2>1, <2>2 DEF TypeOK
<1>6. Numbers'
  <2>1. \A e \in Call \ {c} : Current(e)' => Current(e)
    BY <1>0, <1>1 DEF Current
  <2> QED
    BY <1>0, <1>1, <1>2, <2>1, FS_CardinalityType DEF Numbers, TypeOK
<1>7. SuccessIsReal' /\ \A e \in success : Succeeded(e)'
  <2>1. c \notin success
    BY <1>0 DEF IInv, SuccessIsReal, Succeeded
  <2> QED
    BY <1>0, <1>1, <2>1 DEF IInv, SuccessIsReal, Succeeded, TypeOK
<1>8. ASSUME NEW e \in Call PROVE Taken(e)' /\ Held(e)'
  BY <1>0, <1>1 DEF IInv, Taken, Held
<1>9. opid[c] = 0
  BY <1>0 DEF IInv, Held
<1>10. ASSUME NEW e \in Call \ {c}
       PROVE  \A i \in 1 .. Len(wire) + 1, w \in Daemon!Verdict :
                Tells(e, w, i)' <=> Tells(e, w, i)
  BY <1>0, <1>1, <1>4, HeardBefore
<1>11. ASSUME NEW e \in Call PROVE Follows(e)'
  <2>1. CASE e = c
    <3>1. Len(wire) + 1 \in 1 .. (Len(wire') + 1 - 1) /\ job'[c] \notin Daemon!Verdict
      BY <1>0, <1>4 DEF Daemon!Verdict
    <3> QED
      BY <1>1, <1>4, <2>1, <3>1 DEF Follows, Heard
  <2>2. CASE e # c
    BY <1>0, <1>1, <1>4, <2>2 DEF IInv, Follows, Heard, Tells
  <2> QED
    BY <2>1, <2>2
<1>12. ASSUME NEW i \in 1 .. Len(wire') PROVE Honest(wire[i])' /\ Meant(i)'
  <2>1. CASE i \in 1 .. Len(wire)
    <3>0. Honest(wire[i]) /\ Meant(i) /\ wire[i].to \subseteq Call /\ wire'[i] = wire[i]
      BY <1>0, <1>4, <2>1, OnWire DEF IInv
    <3>1. Honest(wire[i])'
      BY <1>0, <1>1, <3>0 DEF Honest
    <3>2. ~Heard(c, i)'
      <4>1. ASSUME NEW j \in 1 .. (i - 1) PROVE wire[j] # Reply(c, "opid", next)
        <5>1. Honest(wire[j])
          BY <1>0, <2>1 DEF IInv
        <5> QED
          BY <1>0, <5>1 DEF Honest, Reply
      <4> QED
        BY <1>0, <1>1, <1>4, <1>9, <2>1, <4>1 DEF Heard
    <3>3. ASSUME wire[i].to = {}, wire[i].what = "complete", NEW e \in Call, stage[e] # Freed,
                 number'[e] = wire[i].opid, Heard(e, i)'
          PROVE  Explained(e, i)'
      <4>0. e # c
        BY <3>2, <3>3 DEF Heard
      <4>1. e # c /\ i \in 1 .. Len(wire) + 1 /\ Heard(e, i)
        BY <1>0, <1>1, <1>4, <2>1, <3>3, <4>0 DEF Heard
      <4>2. Explained(e, i) /\ job'[e] = job[e]
        BY <1>1, <3>0, <3>3, <4>1 DEF Meant
      <4>3. Tells(e, "failed", i) => Tells(e, "failed", i)'
        BY <1>10, <4>1 DEF Daemon!Verdict
      <4> QED
        BY <1>0, <4>2, <4>3 DEF Explained
    <3> QED
      BY <1>0, <3>0, <3>1, <3>3 DEF Meant
  <2>2. CASE i \notin 1 .. Len(wire)
    <3>1. wire'[i] = Reply(c, "opid", next)
      BY <1>0, <1>4, <2>2
    <3>2. Honest(wire[i])'
      BY <1>0, <1>1, <3>1 DEF Honest, Reply
    <3>3. Meant(i)'
      BY <3>1 DEF Meant, Reply
    <3> QED
      BY <3>2, <3>3
  <2> QED
    BY <2>1, <2>2
<1> QED
  BY <1>0, <1>5, <1>6, <1>7, <1>8, <1>11, <1>12 DEF IInv

\* Nothing that was asked of the daemon outlives it; what it had settled stays settled.
LEMMA DaemonDiesKeeps == ASSUME IInv, DaemonDies PROVE IInv'
<1> USE DEF DaemonDies, closures, outcome
<1>0. TypeOK /\ Numbers /\ Len(wire) \in Nat
  BY DEF IInv, TypeOK
<1>1. \A c \in Call :
        job'[c] = IF job[c] \in {"asked", "accepted", "dropped"} THEN "lost" ELSE job[c]
  OBVIOUS
<1>2. TypeOK'
  <2>1. job' \in [Call -> {"idle", "asked", "dropped", "accepted", "lost"} \cup Settled]
    BY <1>0 DEF TypeOK
  <2>2. next' \in 1 .. Cardinality(Call) + 1
    BY ClientAssumption, FS_CardinalityType
  <2> QED
    BY <1>0, <2>1, <2>2 DEF TypeOK
<1>3. Numbers'
  <2>1. Numbered' = Numbered /\ Cardinality(Numbered) \in Nat
    BY ClientAssumption, FS_Subset, FS_CardinalityType DEF Numbered
  <2>2. \A c \in Call : ~Current(c)'
    BY <1>1 DEF Current
  <2> QED
    BY <2>1, <2>2 DEF Numbers
<1>4. SuccessIsReal' /\ \A c \in success : Succeeded(c)'
  BY <1>0, <1>1 DEF IInv, SuccessIsReal, Succeeded, TypeOK
<1>5. ASSUME NEW c \in Call PROVE Taken(c)' /\ Held(c)' /\ Follows(c)'
  BY <1>0, <1>1 DEF IInv, Taken, Held, Follows, Heard, Tells, Daemon!Verdict
<1>6. ASSUME NEW i \in 1 .. Len(wire) PROVE Honest(wire[i])' /\ Meant(i)'
  <2>0. Honest(wire[i]) /\ Meant(i) /\ wire[i].to \subseteq Call
    BY <1>0, OnWire DEF IInv
  <2>1. Honest(wire[i])'
    BY <1>1, <2>0 DEF Honest
  <2>2. Meant(i)'
    BY <1>1, <2>0 DEF Meant, Explained, Heard, Tells
  <2> QED
    BY <2>1, <2>2
<1> QED
  BY <1>2, <1>3, <1>4, <1>5, <1>6 DEF IInv

-----------------------------------------------------------------------------
(* The program receives a message.                                         *)

\* What the first message has to do, if the others are to be right without it: the
\* number in it is kept, and a verdict frees the closure.
Reads ==
  /\ wire # <<>> /\ wire' = Tail(wire) /\ UNCHANGED <<kind, job, number, next, died>>
  /\ \A c \in Call :
       /\ stage'[c] # Freed => stage[c] # Freed
       /\ \/ opid'[c] = opid[c]
          \/ opid'[c] = number[c] /\ wire[1] = Reply(c, "opid", number[c])
       /\ stage'[c] # Freed /\ number[c] # 0 =>
            /\ wire[1] = Reply(c, "opid", number[c]) => opid'[c] = number[c]
            /\ \A w \in Daemon!Verdict :
                 ~(kind[c] = "photo" /\ wire[1] = Signal(number[c], w) /\ Heard(c, 1))

LEMMA ReadsKeeps ==
  ASSUME IInv, Reads, TypeOK', SuccessIsReal', \A c \in success' : Succeeded(c)',
         \A c \in Call : Held(c)'
  PROVE  IInv'
<1>0. /\ TypeOK /\ Numbers /\ wire' \in Seq(Message) /\ Len(wire') = Len(wire) - 1
      /\ Len(wire) \in Nat \ {0} /\ \A i \in 1 .. Len(wire') : wire'[i] = wire[i + 1]
      /\ UNCHANGED <<kind, job, number, next, died>>
  BY Received DEF IInv, Reads
<1>1. Numbers'
  <2>1. Numbered' = Numbered /\ \A e \in Call : Current(e)' => Current(e)
    BY <1>0 DEF Numbered, Current
  <2> QED
    BY <1>0, <2>1 DEF Numbers
<1>2. ASSUME NEW c \in Call PROVE Taken(c)'
  BY <1>0 DEF IInv, Taken
<1>3. ASSUME NEW c \in Call, stage'[c] # Freed, number[c] # 0, NEW i \in 1 .. Len(wire)
      PROVE  Heard(c, i)' <=> Heard(c, i + 1)
  <2>1. ASSUME opid'[c] # number[c], NEW j \in 1 .. i, wire[j] = Reply(c, "opid", number[c])
        PROVE  Heard(c, i)'
    <3>1. j # 1
      BY <1>3, <2>1 DEF Reads
    <3>2. j - 1 \in 1 .. (i - 1) /\ wire'[j - 1] = wire[j]
      BY <1>0, <1>3, <2>1, <3>1
    <3> QED
      BY <1>0, <2>1, <3>2 DEF Heard
  <2>2. ASSUME opid'[c] = number[c] PROVE Heard(c, i + 1)
    <3>1. 1 \in 1 .. (i + 1 - 1)
      BY <1>0
    <3> QED
      BY <2>2, <3>1 DEF Heard, Reads
  <2>3. ASSUME NEW j \in 1 .. (i - 1), wire'[j] = Reply(c, "opid", number[c]) PROVE Heard(c, i + 1)
    <3>1. j + 1 \in 1 .. (i + 1 - 1) /\ wire[j + 1] = wire'[j]
      BY <1>0, <2>3
    <3> QED
      BY <2>3, <3>1 DEF Heard
  <2>4. opid'[c] = number[c] => Heard(c, i)'
    BY <1>0 DEF Heard
  <2>5. opid[c] = number[c] => opid'[c] = number[c]
    BY DEF Reads
  <2> QED
    BY <1>0, <2>1, <2>2, <2>3, <2>4, <2>5 DEF Heard
<1>4. ASSUME NEW c \in Call, stage'[c] # Freed, number[c] # 0, NEW w \in Daemon!Verdict,
             NEW i \in 1 .. Len(wire), Tells(c, w, i + 1)
      PROVE  Tells(c, w, i)'
  <2>1. PICK j \in 1 .. i : wire[j] = Signal(number[c], w) /\ Heard(c, j)
    BY <1>0, <1>4 DEF Tells
  <2>2. kind[c] = "photo" /\ j # 1
    BY <1>4, <2>1 DEF Tells, Reads
  <2>3. j - 1 \in 1 .. (i - 1) /\ j - 1 \in 1 .. Len(wire) /\ wire'[j - 1] = wire[j]
    BY <1>0, <2>1, <2>2
  <2>4. j - 1 + 1 = j
    BY <2>1
  <2>5. PICK k \in 1 .. (i - 1) : k = j - 1
    BY <2>3
  <2>6. Heard(c, k)'
    BY <1>0, <1>3, <1>4, <2>1, <2>3, <2>4, <2>5
  <2> QED
    BY <1>0, <2>1, <2>2, <2>3, <2>5, <2>6 DEF Tells
<1>5. ASSUME NEW c \in Call PROVE Follows(c)'
  <2> SUFFICES ASSUME number[c] # 0, stage'[c] # Freed
               PROVE  /\ Heard(c, Len(wire) + 1)'
                      /\ kind[c] = "photo" /\ job[c] \in Daemon!Verdict =>
                           Tells(c, job[c], Len(wire) + 1)'
    BY <1>0 DEF Follows
  <2>1. stage[c] # Freed /\ Follows(c)
    BY DEF IInv, Reads
  <2>2. PICK n \in 1 .. Len(wire) : n = Len(wire)
    BY <1>0
  <2>3. /\ Heard(c, n + 1)
        /\ kind[c] = "photo" /\ job[c] \in Daemon!Verdict => Tells(c, job[c], n + 1)
    BY <2>1, <2>2 DEF Follows
  <2>4. Heard(c, n)'
    BY <1>3, <2>3
  <2>5. ASSUME kind[c] = "photo", NEW w \in Daemon!Verdict, w = job[c]
        PROVE  Tells(c, w, n)'
    BY <1>4, <2>3, <2>5
  <2>6. n = Len(wire') + 1
    BY <1>0, <2>2
  <2> QED
    BY <1>0, <2>4, <2>5, <2>6 DEF Heard, Tells
<1>6. ASSUME NEW i \in 1 .. Len(wire') PROVE Honest(wire[i])' /\ Meant(i)'
  <2>0. /\ i + 1 \in 1 .. Len(wire) /\ i \in 1 .. Len(wire) /\ wire'[i] = wire[i + 1]
        /\ Honest(wire[i + 1]) /\ Meant(i + 1)
    BY <1>0 DEF IInv
  <2>1. Honest(wire[i])'
    BY <1>0, <2>0 DEF Honest
  <2>2. ASSUME wire'[i].to = {}, wire'[i].what = "complete", NEW c \in Call, stage'[c] # Freed,
               number[c] = wire'[i].opid, Heard(c, i)'
        PROVE  Explained(c, i)'
    <3>1. number[c] # 0 /\ stage[c] # Freed
      BY <2>0, <2>2 DEF Honest, Reads
    <3>2. Heard(c, i + 1)
      BY <1>3, <2>0, <2>2, <3>1
    <3>3. Explained(c, i + 1)
      BY <2>0, <2>2, <3>1, <3>2 DEF Meant
    <3>4. Tells(c, "failed", i + 1) => Tells(c, "failed", i)'
      BY <1>4, <2>0, <2>2, <3>1 DEF Daemon!Verdict
    <3> QED
      BY <1>0, <3>3, <3>4 DEF Explained
  <2> QED
    BY <1>0, <2>1, <2>2 DEF Meant
<1> QED
  BY <1>0, <1>1, <1>2, <1>5, <1>6 DEF IInv

\* A reply: it is for one call, which is over or has its number now.
LEMMA ReplyKeeps ==
  ASSUME IInv, wire # <<>>, wire' = Tail(wire), NEW c \in Head(wire).to, OnReply(c, Head(wire)),
         UNCHANGED <<kind, memory, watches, daemon>>
  PROVE  IInv'
<1> USE DEF Freed
<1> DEFINE m == Head(wire)
<1>0. /\ TypeOK /\ m = wire[1] /\ m \in Message /\ Honest(m) /\ m.to = {c} /\ c \in Call
      /\ wire' \in Seq(Message) /\ Len(wire') <= MaxWire
      /\ UNCHANGED <<kind, memory, watches, job, number, next, died>>
  <2>1. TypeOK /\ m = wire[1] /\ m \in Message /\ 1 \in 1 .. Len(wire)
    BY Received DEF IInv
  <2>2. Honest(m) /\ m.to = {c} /\ c \in Call
    BY <2>1 DEF IInv, Message
  <2>3. wire' \in Seq(Message) /\ Len(wire') <= MaxWire
    BY <2>1, Received, ClientAssumption DEF TypeOK
  <2> QED
    BY <2>1, <2>2, <2>3 DEF daemon
<1>1. ASSUME stage[c] = "sent", m.what = "opid", stage' = [stage EXCEPT ![c] = "waiting"],
             opid' = [opid EXCEPT ![c] = m.opid], UNCHANGED success
      PROVE  IInv'
  <2>1. m.opid = number[c] /\ number[c] # 0 /\ m = Reply(c, "opid", number[c])
    BY <1>0, <1>1 DEF Honest, Reply, Message
  <2>2. \A e \in Call : /\ stage'[e] = IF e = c THEN "waiting" ELSE stage[e]
                        /\ opid'[e] = IF e = c THEN number[c] ELSE opid[e]
    BY <1>0, <1>1, <2>1 DEF TypeOK
  <2>3. TypeOK'
    BY <1>0, <1>1, <2>1 DEF TypeOK
  <2>4. SuccessIsReal' /\ \A e \in success' : Succeeded(e)'
    BY <1>0, <1>1, <2>2 DEF IInv, SuccessIsReal, Succeeded, TypeOK
  <2>5. \A e \in Call : Held(e)'
    BY <1>0, <1>1, <2>1, <2>2 DEF IInv, Held
  <2>6. \A e \in Call : /\ \A w : wire[1] # Signal(number[e], w)
                        /\ wire[1] = Reply(e, "opid", number[e]) => e = c
    BY <1>0 DEF Reply, Signal
  <2>7. Reads
    BY <1>0, <1>1, <2>1, <2>2, <2>6 DEF Reads
  <2> QED
    BY <2>3, <2>4, <2>5, <2>7, ReadsKeeps
<1>2. ASSUME Over(c, m.what = "done"), m.what # "opid", UNCHANGED opid, stage[c] = "sent"
      PROVE  IInv'
  <2>1. \A e \in Call : stage'[e] = IF e = c THEN Freed ELSE stage[e]
    BY <1>0, <1>2 DEF Over, TypeOK
  <2>2. success' \in {success, success \cup {c}} /\ (success' # success => job[c] = "complete")
    BY <1>0, <1>2 DEF Over, Honest
  <2>3. TypeOK'
    BY <1>0, <1>2, <2>2 DEF TypeOK, Over
  <2>4. SuccessIsReal' /\ \A e \in success' : Succeeded(e)'
    BY <1>0, <2>1, <2>2 DEF IInv, SuccessIsReal, Succeeded, TypeOK
  <2>5. \A e \in Call : Held(e)'
    BY <1>0, <1>2, <2>1 DEF IInv, Held
  <2>6. Reads
    BY <1>0, <1>2, <2>1 DEF Reads, Reply, Signal
  <2> QED
    BY <2>3, <2>4, <2>5, <2>6, ReadsKeeps
<1>3. ASSUME stage[c] # "sent", UNCHANGED <<outcome, opid>> PROVE IInv'
  <2> USE <1>3 DEF outcome
  <2>1. TypeOK'
    BY <1>0 DEF TypeOK
  <2>2. SuccessIsReal' /\ \A e \in success' : Succeeded(e)'
    BY <1>0 DEF IInv, SuccessIsReal, Succeeded
  <2>3. \A e \in Call : Held(e)'
    BY <1>0 DEF IInv, Held
  <2>4. stage[c] # Freed /\ number[c] # 0 => opid[c] = number[c]
    BY <1>0 DEF IInv, Held, Taken, TypeOK
  <2>5. Reads
    BY <1>0, <2>4 DEF Reads, Reply, Signal
  <2> QED
    BY <2>1, <2>2, <2>3, <2>5, ReadsKeeps
<1> QED
  BY <1>1, <1>2, <1>3 DEF OnReply

\* A signal: who takes a success for his own has one, or is an exception; and nobody
\* misses his failure, for his handler is connected and refers to his own closure.
LEMMA ProgressKeeps ==
  ASSUME IInv, wire # <<>>, wire' = Tail(wire), Head(wire).to = {}, OnProgress(Head(wire)),
         UNCHANGED <<kind, memory, watches, daemon>>
  PROVE  IInv'
<1> DEFINE m == Head(wire)
<1>0. /\ TypeOK /\ m = wire[1] /\ m \in Message /\ Honest(m) /\ Meant(1) /\ m.to = {}
      /\ wire' \in Seq(Message) /\ Len(wire') <= MaxWire
      /\ UNCHANGED <<kind, memory, watches, job, number, next, died, opid>>
  <2>1. TypeOK /\ m = wire[1] /\ m \in Message /\ 1 \in 1 .. Len(wire)
    BY Received DEF IInv
  <2>2. Honest(m) /\ Meant(1)
    BY <2>1 DEF IInv
  <2>3. wire' \in Seq(Message) /\ Len(wire') <= MaxWire
    BY <2>1, Received, ClientAssumption DEF TypeOK
  <2> QED
    BY <2>1, <2>2, <2>3 DEF daemon, OnProgress
<1>1. /\ \A c \in Call : stage'[c] = IF c \in Takes(m) THEN Freed ELSE stage[c]
      /\ success' = IF m.what = "complete" THEN success \cup Takes(m) ELSE success
      /\ stage' = [c \in Call |-> IF c \in Takes(m) THEN Freed ELSE stage[c]]
  BY DEF OnProgress
<1>2. ASSUME NEW c \in Takes(m)
      PROVE  c \in Call /\ opid[c] = m.opid /\ number[c] = m.opid /\ m.opid # 0 /\ stage[c] # Freed
  <2>1. c \in Call /\ opid[c] = m.opid /\ stage[c] # Freed
    BY <1>0 DEF Takes, TypeOK
  <2> QED
    BY <1>0, <2>1 DEF Honest, IInv, Held
<1>3. TypeOK'
  <2>1. stage' \in [Call -> {"idle", "sizing", "sent", "waiting", Freed}] /\ success' \subseteq Call
    BY <1>0, <1>1, <1>2 DEF TypeOK
  <2> QED
    BY <1>0, <2>1 DEF TypeOK
<1>4. ASSUME NEW c \in Takes(m), m.what = "complete"
      PROVE  /\ job[c] = "complete" \/ (died /\ (job[c] = "lost" \/ kind[c] = "video"))
             /\ \E d \in Call : job[d] = "complete" /\ number[d] = number[c]
  <2>1. Heard(c, 1) /\ ~Tells(c, "failed", 1)
    BY <1>2 DEF Heard, Tells
  <2>2. Explained(c, 1)
    BY <1>0, <1>2, <1>4, <2>1 DEF Meant
  <2> QED
    BY <1>0, <1>2, <1>4, <2>1, <2>2 DEF Explained, Honest
<1>5. SuccessIsReal'
  BY <1>0, <1>1, <1>4 DEF IInv, SuccessIsReal
<1>6. ASSUME NEW c \in success' PROVE Succeeded(c)'
  BY <1>0, <1>1, <1>2 DEF IInv, Succeeded, TypeOK
<1>7. \A c \in Call : Held(c)'
  BY <1>0, <1>1 DEF IInv, Held, Freed
<1>8. ASSUME NEW c \in Call, kind[c] = "photo", number[c] # 0, stage[c] # Freed,
             NEW w \in Daemon!Verdict, m = Signal(number[c], w), Heard(c, 1)
      PROVE  c \in Takes(m)
  <2>1. opid[c] = number[c]
    BY <1>8 DEF Heard
  <2>2. c \in watches /\ memory[c] = c
    BY <1>0, <1>8 DEF IInv, Held, Taken, TypeOK, Freed
  <2> QED
    BY <1>0, <1>8, <2>1, <2>2 DEF Takes, Signal, TypeOK, Daemon!Verdict
<1>9. Reads
  <2>1. ASSUME NEW c \in Call PROVE wire[1] # Reply(c, "opid", number[c])
    BY <1>0 DEF Reply
  <2> QED
    BY <1>0, <1>1, <1>8, <2>1 DEF Reads
<1> QED
  BY <1>3, <1>5, <1>6, <1>7, <1>9, ReadsKeeps

LEMMA NextIInv == IInv /\ [Next]_vars => IInv'
<1> SUFFICES ASSUME IInv, [Next]_vars PROVE IInv'
  OBVIOUS
<1>1. CASE UNCHANGED vars
  <2> USE <1>1 DEF vars, closures, outcome, daemon
  <2>1. TypeOK' /\ SuccessIsReal' /\ \A c \in success' : Succeeded(c)'
    BY DEF IInv, TypeOK, SuccessIsReal, Succeeded
  <2>2. Numbers'
    BY DEF IInv, Numbers, Numbered, Current
  <2>3. \A c \in Call : Taken(c)' /\ Held(c)' /\ Follows(c)'
    BY DEF IInv, Taken, Held, Follows, Heard, Tells
  <2>4. \A i \in 1 .. Len(wire)' : Honest(wire[i])' /\ Meant(i)'
    BY DEF IInv, Honest, Meant, Explained, Heard, Tells
  <2> QED
    BY <2>1, <2>2, <2>3, <2>4 DEF IInv
<1>2. CASE Receive
  BY <1>2, ReplyKeeps, ProgressKeeps DEF Receive
<1> QED
  BY <1>1, <1>2, DaemonDiesKeeps, StartCallKeeps, StartUploadKeeps, GivesUpKeeps, GotFileSizeKeeps,
     AnswersKeeps, AcceptsKeeps, SignalsKeeps
  DEF Next

LEMMA IInvHolds == Spec => []IInv
BY InitIInv, NextIInv, PTL DEF Spec

-----------------------------------------------------------------------------
(* Theorems.                                                               *)

\* No number is given out that there are no calls for, and no closure, handler or
\* message is in a state that the callbacks do not know.
THEOREM TypeCorrect == Spec => []TypeOK
<1>1. IInv => TypeOK
  BY DEF IInv
<1> QED
  BY <1>1, IInvHolds, PTL

\* _upload_file_progress_cb: that the number is all it compares is enough while the
\* daemon lives; when it was started again an upload that was lost, or a video, may be
\* told of the success of another one, and nothing else may.
THEOREM SuccessesAreReal == Spec => []SuccessIsReal
<1>1. IInv => SuccessIsReal
  BY DEF IInv
<1> QED
  BY <1>1, IInvHolds, PTL

\* Who waits has sent an upload; and if it is a photo for which the daemon has a
\* verdict, then the signal that tells it is on its way.
NoVerdictIsMissed ==
  \A c \in Call : stage[c] = "waiting" =>
    /\ kind[c] # "plain"
    /\ kind[c] = "photo" /\ job[c] \in Settled =>
         \E i \in 1 .. Len(wire) : wire[i] = Signal(number[c], job[c])

\* A program that waits for a photo (_upload_file_cb) has not missed the verdict:
\* whatever became of the numbers, the handlers and the memory, and whichever daemon
\* gave it, no signal with the verdict was received before.  It is what CallsReturn
\* needs besides the fairness of the main loop.
THEOREM VerdictsAreNotMissed == Spec => []NoVerdictIsMissed
<1>1. ASSUME IInv, NEW c \in Call, stage[c] = "waiting"
      PROVE  /\ kind[c] # "plain"
             /\ kind[c] = "photo" /\ job[c] \in Settled =>
                  \E i \in 1 .. Len(wire) : wire[i] = Signal(number[c], job[c])
  <2>1. Taken(c) /\ Held(c) /\ Follows(c) /\ Len(wire) \in Nat
    BY <1>1 DEF IInv, TypeOK
  <2>2. number[c] # 0 /\ kind[c] # "plain" /\ job[c] # "refused"
    BY <1>1, <2>1 DEF Held, Taken
  <2>3. kind[c] = "photo" /\ job[c] \in Settled => Tells(c, job[c], Len(wire) + 1)
    BY <1>1, <2>1, <2>2 DEF Follows, Settled, Freed
  <2> QED
    BY <2>1, <2>2, <2>3 DEF Tells
<1>2. IInv => NoVerdictIsMissed
  BY <1>1 DEF NoVerdictIsMissed
<1> QED
  BY <1>2, IInvHolds, PTL
=============================================================================
