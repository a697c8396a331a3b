------------------------- MODULE TrustServer_proofs -------------------------
(***************************************************************************)
(* Proofs about the attestation server, for every number of devices and    *)
(* nonces and every bound on the clock and the crashes.                    *)
(***************************************************************************)
EXTENDS TrustServer, TLAPS

(***************************************************************************)
(* The part of the state that the nonces live in.  Every action but three  *)
(* leaves it alone or only forgets nonces.                                 *)
(***************************************************************************)
NonceInv ==
  /\ DOMAIN issuedAt \subseteq Nonces
  /\ live \subseteq DOMAIN issuedAt
  /\ honoured \in [Nonces -> {0, 1}]
  /\ \A n \in Nonces : honoured[n] = 1 => n \in DOMAIN issuedAt /\ n \notin live

NewNonce(n) ==
  /\ n \in Nonces \ DOMAIN issuedAt
  /\ issuedAt' = [k \in DOMAIN issuedAt \cup {n} |-> IF k = n THEN now ELSE issuedAt[k]]
  /\ live' = Pruned(live) \cup {n}
  /\ UNCHANGED honoured

TakesNonce(n) == n \in Nonces /\ Consume(n) /\ UNCHANGED issuedAt

LosesNonces == live' \in {live, {}} /\ UNCHANGED <<honoured, issuedAt>>

\* A bundle that is delivered carries one of the nonces.
NetworkInv == \A b \in network : b.nonce \in Nonces

LEMMA NetworkInit == Init => NetworkInv
  BY DEF Init, NetworkInv

LEMMA NetworkStep == NetworkInv /\ [Next]_vars => NetworkInv'
<1> SUFFICES ASSUME NetworkInv, [Next]_vars PROVE NetworkInv'
  OBVIOUS
<1>1. CASE UNCHANGED vars
  BY <1>1 DEF NetworkInv, vars
<1>2. CASE \E n \in Nonces : GetNonce(n)
  BY <1>2 DEF NetworkInv, GetNonce
<1>3. CASE \E b \in network : Handle(b) \/ Lose(b)
  BY <1>3 DEF NetworkInv, Handle, Lose
<1>4. CASE Saved \/ Crash \/ Restart \/ Tick
  BY <1>4 DEF NetworkInv, Saved, Crash, Restart, Tick
<1>5. CASE \E d \in Devices, n \in Nonces, pcr \in Reported, valid \in BOOLEAN :
             Attest(d, n, pcr, valid)
  BY <1>5 DEF NetworkInv, Attest
<1>6. CASE \E d \in Devices, n \in Nonces, v \in Values, encoding \in {"hex", "bytes"}, valid \in BOOLEAN :
             RequestEnroll(d, n, v, encoding, valid)
  BY <1>6 DEF NetworkInv, RequestEnroll
<1> QED
  BY <1>1, <1>2, <1>3, <1>4, <1>5, <1>6 DEF Next

\* Every step does one of three things to the nonces.
LEMMA StepNonces ==
  ASSUME NetworkInv, [Next]_vars
  PROVE  \/ \E n \in Nonces : NewNonce(n)
         \/ \E n \in Nonces : TakesNonce(n)
         \/ LosesNonces
<1>1. CASE UNCHANGED vars
  BY <1>1 DEF LosesNonces, vars, serverVars, historyVars
<1>2. CASE \E n \in Nonces : GetNonce(n)
  BY <1>2 DEF GetNonce, NewNonce
<1>3. ASSUME NEW b \in network, Handle(b) PROVE TakesNonce(b.nonce) /\ b.nonce \in Nonces
  BY <1>3 DEF Handle, Verify, Enroll, TakesNonce, NetworkInv
<1>4. ASSUME NEW b \in network, Lose(b) PROVE LosesNonces
  BY <1>4 DEF Lose, LosesNonces, serverVars, historyVars
<1>5. CASE Saved \/ Restart \/ Tick
  BY <1>5 DEF Saved, Restart, Tick, LosesNonces, serverVars, historyVars
<1>6. CASE Crash
  BY <1>6 DEF Crash, LosesNonces, historyVars
<1>7. CASE \E d \in Devices, n \in Nonces, pcr \in Reported, valid \in BOOLEAN :
             Attest(d, n, pcr, valid)
  BY <1>7 DEF Attest, LosesNonces, serverVars, historyVars
<1>8. CASE \E d \in Devices, n \in Nonces, v \in Values, encoding \in {"hex", "bytes"}, valid \in BOOLEAN :
             RequestEnroll(d, n, v, encoding, valid)
  BY <1>8 DEF RequestEnroll, LosesNonces, serverVars, historyVars
<1> QED
  BY <1>1, <1>2, <1>3, <1>4, <1>5, <1>6, <1>7, <1>8 DEF Next

LEMMA NonceInit == Init => NonceInv
  BY DEF Init, NonceInv

LEMMA NonceStep ==
  ASSUME NonceInv, NetworkInv, [Next]_vars
  PROVE  NonceInv'
<1>1. ASSUME NEW n \in Nonces, NewNonce(n) PROVE NonceInv'
  BY <1>1 DEF NonceInv, NewNonce, Pruned
<1>2. ASSUME NEW n \in Nonces, TakesNonce(n) PROVE NonceInv'
  <2>1. honoured' = [honoured EXCEPT ![n] = IF Known(n) THEN @ + 1 ELSE @]
        /\ live' = Pruned(live) \ {n} /\ issuedAt' = issuedAt
    BY <1>2 DEF TakesNonce, Consume
  <2>2. Known(n) => honoured[n] = 0
    BY DEF NonceInv, Known, Pruned
  <2>3. honoured' \in [Nonces -> {0, 1}]
    BY <2>1, <2>2 DEF NonceInv
  <2>4. Known(n) => n \in DOMAIN issuedAt
    BY DEF NonceInv, Known, Pruned
  <2>5. live' \subseteq live
    BY <2>1 DEF Pruned
  <2>6. ASSUME NEW k \in Nonces, honoured'[k] = 1 PROVE k \in DOMAIN issuedAt' /\ k \notin live'
    <3>1. CASE k = n
      BY <2>1, <2>4, <2>6, <3>1 DEF NonceInv
    <3>2. CASE k # n
      BY <2>1, <2>5, <2>6, <3>2 DEF NonceInv
    <3> QED
      BY <3>1, <3>2
  <2> QED
    BY <2>1, <2>3, <2>5, <2>6 DEF NonceInv
<1>3. CASE LosesNonces
  BY <1>3 DEF NonceInv, LosesNonces
<1> QED
  BY <1>1, <1>2, <1>3, StepNonces

LEMMA NonceInductive == Spec => [](NonceInv /\ NetworkInv)
<1>1. Init => NonceInv /\ NetworkInv
  BY NonceInit, NetworkInit
<1>2. NonceInv /\ NetworkInv /\ [Next]_vars => (NonceInv /\ NetworkInv)'
  BY NonceStep, NetworkStep
<1> QED
  BY <1>1, <1>2, PTL DEF Spec

(***************************************************************************)
(* No nonce is accepted twice, through restarts, late and repeated         *)
(* deliveries: server.py:76-82 is enough whatever the network does.        *)
(***************************************************************************)
THEOREM HonouredOnce == Spec => []NonceHonouredOnce
<1>1. NonceInv => NonceHonouredOnce
  BY DEF NonceInv, NonceHonouredOnce
<1> QED
  BY <1>1, NonceInductive, PTL

(***************************************************************************)
(* The nonces implement one-time challenges.                               *)
(***************************************************************************)
THEOREM NoncesAreChallenges == Spec => ImplementsChallenge
<1>1. Init => Challenges!Init
  BY DEF Init, Challenges!Init
<1>2. ASSUME NonceInv, NetworkInv, [Next]_vars PROVE [Challenges!Next]_(Challenges!vars)
  <2>1. ASSUME NEW n \in Nonces, NewNonce(n) PROVE Challenges!Next
    <3>1. Challenges!Issue(n, live \ Pruned(live))
      BY <2>1 DEF NewNonce, Challenges!Issue, Pruned
    <3> QED
      BY <3>1 DEF Challenges!Next, Pruned
  <2>2. ASSUME NEW n \in Nonces, TakesNonce(n) PROVE Challenges!Next
    <3>1. /\ honoured' = [honoured EXCEPT ![n] = IF Known(n) THEN @ + 1 ELSE @]
          /\ live' = Pruned(live) \ {n}
          /\ issuedAt' = issuedAt
      BY <2>2 DEF TakesNonce, Consume
    <3>2. CASE Known(n)
      <4>1. n \in live /\ live' = live \ ((live \ Pruned(live)) \cup {n})
        BY <3>1, <3>2 DEF Known, Pruned
      <4>2. {k \in Nonces : honoured'[k] > 0} = {k \in Nonces : honoured[k] > 0} \cup {n}
        <5>1. honoured[n] = 0 /\ honoured'[n] = 1
          BY <1>2, <3>1, <3>2 DEF NonceInv, Known, Pruned
        <5>2. ASSUME NEW k \in Nonces, k # n PROVE honoured'[k] = honoured[k]
          BY <1>2, <3>1, <5>2 DEF NonceInv
        <5> QED
          BY <5>1, <5>2
      <4>3. (live \ Pruned(live)) \in SUBSET live
        OBVIOUS
      <4> QED
        BY <3>1, <4>1, <4>2, <4>3 DEF Challenges!Answer, Challenges!Next
    <3>3. CASE ~Known(n)
      <4>1. live' = live \ (live \ Pruned(live))
        BY <3>1, <3>3 DEF Known, Pruned
      <4>2. honoured' = honoured
        BY <1>2, <3>1, <3>3 DEF NonceInv
      <4>3. Challenges!Forget(live \ Pruned(live))
        BY <3>1, <4>1, <4>2 DEF Challenges!Forget
      <4> QED
        BY <4>3 DEF Challenges!Next, Pruned
    <3> QED
      BY <3>2, <3>3
  <2>3. CASE LosesNonces
    <3>1. Challenges!Forget(live \ live')
      BY <2>3 DEF LosesNonces, Challenges!Forget
    <3> QED
      BY <3>1 DEF Challenges!Next
  <2> QED
    BY <2>1, <2>2, <2>3, <1>2, StepNonces
<1> QED
  BY <1>1, <1>2, NonceInductive, PTL DEF Spec, ImplementsChallenge, Challenges!Spec

-----------------------------------------------------------------------------
(***************************************************************************)
(* The registry.  Two contents matter: the file, unless it is torn, and    *)
(* what a handler is writing.  Each of them holds whatever the server has  *)
(* said, and an answer that waits for the rewrite is already earned and    *)
(* agrees with the contents that are being written.                        *)
(***************************************************************************)
Fresh(a) ==
  /\ a.bundle.nonce \in DOMAIN issuedAt
  /\ issuedAt[a.bundle.nonce] <= a.at
  /\ a.at < issuedAt[a.bundle.nonce] + Ttl

Enforced(a) ==
  a.acked # None /\ a.bundle.pcr # Missing => a.bundle.pcr \in {a.acked} \cup a.attempted

Holds(db) ==
  /\ \A d \in Devices : d \notin DOMAIN db => enrolments[d] = 0
  /\ \A p \in passes : p.bundle.device \in DOMAIN db /\ OfItsKey(db[p.bundle.device])
  /\ \A d \in Devices : acked[d] # None =>
       d \in DOMAIN db /\ db[d].baseline \in {acked[d]} \cup attempted[d]

Agrees(db, a) ==
  LET b == a.bundle IN
  /\ b.device \in DOMAIN db
  /\ b.type = "verify" => Fresh(a) /\ Enforced(a) /\ OfItsKey(db[b.device])
  /\ b.type = "enroll" => db[b.device].baseline = b.baseline

LiveInv == \A n \in live : n \in DOMAIN issuedAt /\ issuedAt[n] <= now

RegistryInv ==
  /\ TypeOK
  /\ LiveInv
  /\ EnrolledOnce
  /\ \A p \in passes : Fresh(p) /\ Enforced(p)
  /\ file # Torn => Holds(file)
  /\ saving # None => /\ file = Torn
                      /\ Holds(saving.db)
                      /\ saving.answer # None => Agrees(saving.db, saving.answer)

LEMMA PutType ==
  ASSUME NEW db \in Databases, NEW d \in Devices, NEW r \in Records
  PROVE  Put(db, d, r) \in Databases
<1>1. PICK D \in SUBSET Devices : db \in [D -> Records]
  BY DEF Databases
<1>2. Put(db, d, r) \in [D \cup {d} -> Records]
  BY <1>1 DEF Put
<1> QED
  BY <1>2 DEF Databases

LEMMA ExceptType ==
  ASSUME NEW db \in Databases, NEW d \in DOMAIN db, NEW v \in Values \cup {None}
  PROVE  /\ [db EXCEPT ![d].has_key = TRUE] \in Databases
         /\ [db EXCEPT ![d].baseline = v] \in Databases
<1>1. PICK D \in SUBSET Devices : db \in [D -> Records]
  BY DEF Databases
<1>2. [db[d] EXCEPT !.has_key = TRUE] \in Records /\ [db[d] EXCEPT !.baseline = v] \in Records
  BY <1>1 DEF Records
<1>3. /\ [db EXCEPT ![d].has_key = TRUE] \in [D -> Records]
      /\ [db EXCEPT ![d].baseline = v] \in [D -> Records]
  BY <1>1, <1>2
<1> QED
  BY <1>3 DEF Databases

LEMMA RecordOf ==
  ASSUME NEW db \in Databases, NEW d \in DOMAIN db
  PROVE  d \in Devices /\ db[d] \in Records
BY DEF Databases

LEMMA RegistryInit == Init => RegistryInv
<1> SUFFICES ASSUME Init PROVE RegistryInv
  OBVIOUS
<1>1. file \in Databases
  BY OldRegistriesAssumption DEF Init
<1>2. enrolments = [d \in Devices |-> IF d \in DOMAIN file THEN 1 ELSE 0]
  BY DEF Init
<1>3. TypeOK
  BY <1>1, <1>2 DEF Init, TypeOK
<1>4. EnrolledOnce /\ Holds(file)
  BY <1>2 DEF Init, EnrolledOnce, Holds
<1> QED
  BY <1>3, <1>4 DEF Init, RegistryInv, LiveInv

\* Devices, the network, the clock and the restart leave the registry alone.
Outside ==
  /\ now' \in {now, now + 1}
  /\ network' \in SUBSET (network \cup Bundles)
  /\ up' \in BOOLEAN
  /\ UNCHANGED <<live, file, saving, issuedAt, honoured, passes, acked, attempted, enrolments, crashes>>

LEMMA StepCases ==
  ASSUME TypeOK, [Next]_vars
  PROVE  \/ Outside
         \/ \E n \in Nonces : GetNonce(n)
         \/ \E b \in network : Handle(b)
         \/ Saved
         \/ Crash
<1> USE DEF Outside, serverVars, historyVars
<1>1. CASE UNCHANGED vars
  BY <1>1 DEF vars, TypeOK
<1>2. ASSUME NEW b \in network, Lose(b) PROVE Outside
  BY <1>2 DEF Lose, TypeOK
<1>3. CASE Restart \/ Tick
  BY <1>3 DEF Restart, Tick, TypeOK
<1>4. ASSUME NEW d \in Devices, NEW n \in Nonces, NEW pcr \in Reported, NEW valid \in BOOLEAN,
             Attest(d, n, pcr, valid)
      PROVE  Outside
  <2>1. [type |-> "verify", device |-> d, nonce |-> n, pcr |-> pcr, valid |-> valid] \in Bundles
    BY DEF Bundles
  <2> QED
    BY <1>4, <2>1 DEF Attest, TypeOK
<1>5. ASSUME NEW d \in Devices, NEW n \in Nonces, NEW v \in Values,
             NEW encoding \in {"hex", "bytes"}, NEW valid \in BOOLEAN,
             RequestEnroll(d, n, v, encoding, valid)
      PROVE  Outside
  <2>1. [type |-> "enroll", device |-> d, nonce |-> n, baseline |-> v,
         valid |-> valid, encoding |-> encoding] \in Bundles
    BY DEF Bundles
  <2> QED
    BY <1>5, <2>1 DEF RequestEnroll, TypeOK
<1> QED
  BY <1>1, <1>2, <1>3, <1>4, <1>5 DEF Next

LEMMA OutsideKeeps == RegistryInv /\ Outside => RegistryInv'
<1> SUFFICES ASSUME RegistryInv, Outside PROVE RegistryInv'
  OBVIOUS
<1>1. UNCHANGED <<live, file, saving, issuedAt, honoured, passes, acked, attempted, enrolments, crashes>>
  BY DEF Outside
<1>2. TypeOK'
  <2>1. now' \in Nat /\ up' \in BOOLEAN /\ network' \subseteq Bundles
    BY DEF Outside, RegistryInv, TypeOK
  <2> QED
    BY <1>1, <2>1 DEF RegistryInv, TypeOK
<1>3. LiveInv'
  <2>1. now' \in Nat /\ now \in Nat /\ now <= now'
    BY DEF Outside, RegistryInv, TypeOK
  <2>2. \A n \in live : issuedAt[n] \in Nat
    BY DEF RegistryInv, TypeOK, LiveInv
  <2> QED
    BY <1>1, <2>1, <2>2 DEF RegistryInv, LiveInv
<1> QED
  BY <1>1, <1>2, <1>3 DEF RegistryInv, EnrolledOnce, Holds, Fresh, Enforced, Agrees

\* A new nonce is younger than every answer.
LEMMA GetNonceKeeps == ASSUME RegistryInv, NEW n \in Nonces, GetNonce(n) PROVE RegistryInv'
<1>1. /\ n \notin DOMAIN issuedAt
      /\ issuedAt' = [k \in DOMAIN issuedAt \cup {n} |-> IF k = n THEN now ELSE issuedAt[k]]
      /\ live' = Pruned(live) \cup {n}
      /\ UNCHANGED <<now, file, saving, up, network, honoured, passes, acked, attempted, enrolments, crashes>>
  BY DEF GetNonce
<1>2. Pruned(live) \subseteq live
  BY DEF Pruned
<1>3. TypeOK'
  BY <1>1, <1>2 DEF RegistryInv, TypeOK
<1>4. LiveInv'
  BY <1>1, <1>2 DEF RegistryInv, TypeOK, LiveInv
<1>5. ASSUME NEW a, Fresh(a) PROVE Fresh(a)'
  BY <1>1, <1>5 DEF Fresh
<1>6. ASSUME NEW db, NEW a, Agrees(db, a) PROVE Agrees(db, a)'
  BY <1>1, <1>5, <1>6 DEF Agrees, Enforced
<1> QED
  BY <1>1, <1>3, <1>4, <1>5, <1>6 DEF RegistryInv, EnrolledOnce, Holds, Enforced

LEMMA CrashKeeps == RegistryInv /\ Crash => RegistryInv'
<1> SUFFICES ASSUME RegistryInv, Crash PROVE RegistryInv'
  OBVIOUS
<1>1. /\ live' = {} /\ saving' = None /\ up' = FALSE /\ crashes' = crashes + 1
      /\ file' = file \/ (saving # None /\ file' = saving.db)
      /\ UNCHANGED <<now, network, issuedAt, honoured, passes, acked, attempted, enrolments>>
  BY DEF Crash, historyVars
<1>2. saving # None => saving.db \in Databases
  BY DEF RegistryInv, TypeOK
<1>3. TypeOK'
  <2>1. file' \in Databases \cup {Torn}
    BY <1>1, <1>2 DEF RegistryInv, TypeOK
  <2>2. crashes' \in Nat
    BY <1>1 DEF RegistryInv, TypeOK
  <2> QED
    BY <1>1, <2>1, <2>2 DEF RegistryInv, TypeOK
<1>4. file' # Torn => Holds(file)'
  BY <1>1 DEF RegistryInv, Holds
<1> QED
  BY <1>1, <1>3, <1>4 DEF RegistryInv, LiveInv, EnrolledOnce, Fresh, Enforced

\* The contents are there: what was being written holds, and the answer is given.
LEMMA SavedKeeps == RegistryInv /\ Saved => RegistryInv'
<1> SUFFICES ASSUME RegistryInv, Saved PROVE RegistryInv'
  OBVIOUS
<1> DEFINE a == saving.answer
<1>1. /\ saving # None /\ file' = saving.db /\ saving' = None
      /\ UNCHANGED <<now, issuedAt, live, up, network, honoured, enrolments, crashes>>
  BY DEF Saved
<1>2. /\ saving.db \in Databases /\ a \in Answers \cup {None}
      /\ Holds(saving.db) /\ (a # None => Agrees(saving.db, a))
  BY <1>1 DEF RegistryInv, TypeOK
<1>3. CASE a = None /\ UNCHANGED <<passes, acked, attempted>>
  <2>1. TypeOK'
    BY <1>1, <1>2, <1>3 DEF RegistryInv, TypeOK
  <2> QED
    BY <1>1, <1>2, <1>3, <2>1 DEF RegistryInv, LiveInv, EnrolledOnce, Holds, Fresh, Enforced
<1>4. CASE /\ a # None /\ a.bundle.type = "verify"
           /\ passes' = passes \cup {a} /\ UNCHANGED <<acked, attempted>>
  <2>1. TypeOK'
    BY <1>1, <1>2, <1>4 DEF RegistryInv, TypeOK
  <2>2. Fresh(a) /\ Enforced(a) /\ a.bundle.device \in DOMAIN saving.db
        /\ OfItsKey(saving.db[a.bundle.device])
    BY <1>2, <1>4 DEF Agrees
  <2>3. Holds(file)'
    BY <1>1, <1>2, <1>4, <2>2 DEF Holds
  <2>4. \A p \in passes' : Fresh(p)' /\ Enforced(p)'
    BY <1>1, <1>4, <2>2 DEF RegistryInv, Fresh, Enforced
  <2> QED
    BY <1>1, <2>1, <2>3, <2>4 DEF RegistryInv, LiveInv, EnrolledOnce
<1>5. CASE /\ a # None /\ a.bundle.type = "enroll"
           /\ acked' = [acked EXCEPT ![a.bundle.device] = a.bundle.baseline]
           /\ attempted' = [attempted EXCEPT ![a.bundle.device] = {}]
           /\ UNCHANGED passes
  <2> DEFINE d == a.bundle.device
  <2>1. d \in Devices /\ a.bundle.baseline \in Values
    BY <1>2, <1>5 DEF Answers, Bundles
  <2>2. TypeOK'
    BY <1>1, <1>2, <1>5, <2>1 DEF RegistryInv, TypeOK
  <2>3. d \in DOMAIN saving.db /\ saving.db[d].baseline = a.bundle.baseline
    BY <1>2, <1>5 DEF Agrees
  <2>4. ASSUME NEW e \in Devices, acked'[e] # None
        PROVE  e \in DOMAIN file' /\ file'[e].baseline \in {acked'[e]} \cup attempted'[e]
    <3>1. CASE e = d
      BY <1>1, <1>5, <2>1, <2>3, <3>1 DEF RegistryInv, TypeOK
    <3>2. CASE e # d
      <4>1. acked'[e] = acked[e] /\ attempted'[e] = attempted[e]
        BY <1>5, <2>1, <3>2 DEF RegistryInv, TypeOK
      <4> QED
        BY <1>1, <1>2, <2>4, <4>1 DEF Holds
    <3> QED
      BY <3>1, <3>2
  <2>5. Holds(file)'
    BY <1>1, <1>2, <1>5, <2>4 DEF Holds
  <2>6. \A p \in passes' : Fresh(p)' /\ Enforced(p)'
    BY <1>1, <1>5 DEF RegistryInv, Fresh, Enforced
  <2> QED
    BY <1>1, <2>2, <2>5, <2>6 DEF RegistryInv, LiveInv, EnrolledOnce
<1> QED
  BY <1>3, <1>4, <1>5 DEF Saved

-----------------------------------------------------------------------------
(***************************************************************************)
(* The handlers.  A nonce that is still known was issued less than Ttl ago;*)
(* what remains is that the contents written keep what was said before and *)
(* support the answer.                                                     *)
(***************************************************************************)
LEMMA ConsumeShrinks ==
  ASSUME RegistryInv, NEW n \in Nonces, Consume(n)
  PROVE  /\ live' \subseteq live
         /\ honoured' \in [Nonces -> Nat]
         /\ Known(n) => /\ n \in DOMAIN issuedAt
                        /\ issuedAt[n] <= now
                        /\ now < issuedAt[n] + Ttl
<1>1. live' \subseteq live
  BY DEF Consume, Pruned
<1>2. honoured' \in [Nonces -> Nat]
  BY DEF Consume, RegistryInv, TypeOK
<1>3. ASSUME Known(n) PROVE n \in live /\ Expiry(n) > now
  BY <1>3 DEF Known, Pruned
<1> QED
  BY <1>1, <1>2, <1>3, BoundsAssumption DEF Expiry, RegistryInv, LiveInv, TypeOK

\* What a handler does to the registry, once it has taken the nonce
Untouched == UNCHANGED <<file, saving, passes, acked, attempted, enrolments>>

Passed(a) ==
  /\ passes' = passes \cup {a}
  /\ UNCHANGED <<file, saving, acked, attempted, enrolments>>

Writes(db, a) ==
  /\ db \in Databases
  /\ a \in Answers \cup {None}
  /\ Save(db, a)
  /\ attempted' \in [Devices -> SUBSET Values]
  /\ enrolments' \in [Devices -> Nat]
  /\ UNCHANGED <<passes, acked>>

\* Holds, of contents of now and what has been said after the step
HoldsNext(db) ==
  /\ \A d \in Devices : d \notin DOMAIN db => enrolments'[d] = 0
  /\ \A p \in passes' : p.bundle.device \in DOMAIN db /\ OfItsKey(db[p.bundle.device])
  /\ \A d \in Devices : acked'[d] # None =>
       d \in DOMAIN db /\ db[d].baseline \in {acked'[d]} \cup attempted'[d]

LEMMA HandlerKeeps ==
  ASSUME RegistryInv, saving = None, live' \subseteq live, honoured' \in [Nonces -> Nat],
         network' \subseteq network, UNCHANGED <<now, issuedAt, up, crashes>>,
         \/ Untouched
         \/ \E a \in Answers : /\ Passed(a) /\ Fresh(a) /\ Enforced(a)
                              /\ file # Torn
                              /\ a.bundle.device \in DOMAIN file /\ OfItsKey(file[a.bundle.device])
         \/ \E db, a : Writes(db, a) /\ EnrolledOnce' /\ HoldsNext(db) /\ (a # None => Agrees(db, a))
  PROVE  RegistryInv'
<1>1. CASE Untouched
  <2>1. TypeOK'
    BY <1>1 DEF Untouched, RegistryInv, TypeOK
  <2> QED
    BY <1>1, <2>1 DEF Untouched, RegistryInv, LiveInv, EnrolledOnce, Holds, Fresh, Enforced
<1>2. ASSUME NEW a \in Answers, Passed(a), Fresh(a), Enforced(a), file # Torn,
             a.bundle.device \in DOMAIN file, OfItsKey(file[a.bundle.device])
      PROVE  RegistryInv'
  <2>1. TypeOK'
    BY <1>2 DEF Passed, RegistryInv, TypeOK
  <2>2. Holds(file)'
    BY <1>2 DEF Passed, RegistryInv, Holds
  <2>3. \A p \in passes' : Fresh(p)' /\ Enforced(p)'
    BY <1>2 DEF Passed, RegistryInv, Fresh, Enforced
  <2> QED
    BY <1>2, <2>1, <2>2, <2>3 DEF Passed, RegistryInv, LiveInv, EnrolledOnce
<1>3. ASSUME NEW db, NEW a, Writes(db, a), EnrolledOnce', HoldsNext(db), a # None => Agrees(db, a)
      PROVE  RegistryInv'
  <2>1. file' = Torn /\ saving' = [db |-> db, answer |-> a]
    BY <1>3 DEF Writes, Save
  <2>2. TypeOK'
    BY <1>3, <2>1 DEF Writes, RegistryInv, TypeOK
  <2>3. saving'.db = db /\ saving'.answer = a
    BY <2>1
  <2>4. \A p \in passes' : Fresh(p)' /\ Enforced(p)'
    BY <1>3 DEF Writes, RegistryInv, Fresh, Enforced
  <2>5. a # None => Agrees(db, a)'
    BY <1>3 DEF Agrees, Fresh, Enforced
  <2>6. Holds(saving.db)'
    BY <1>3, <2>3 DEF Holds, HoldsNext
  <2>7. (saving.answer # None => Agrees(saving.db, saving.answer))'
    BY <2>3, <2>5 DEF Agrees, Fresh, Enforced
  <2> QED
    BY <1>3, <2>1, <2>2, <2>4, <2>6, <2>7 DEF RegistryInv, LiveInv
<1> QED
  BY <1>1, <1>2, <1>3

\* The answer to a bundle whose nonce is known is fresh.
LEMMA AnswerIsFresh ==
  ASSUME RegistryInv, NEW b \in Bundles, Consume(b.nonce), Known(b.nonce)
  PROVE  Answer(b) \in Answers /\ Fresh(Answer(b)) /\ Answer(b).bundle = b
<1>1. b.nonce \in Nonces /\ b.device \in Devices
  BY DEF Bundles
<1>2. Answer(b) \in Answers
  BY <1>1 DEF Answer, Answers, RegistryInv, TypeOK
<1>3. Fresh(Answer(b))
  BY <1>1, ConsumeShrinks DEF Answer, Fresh
<1> QED
  BY <1>2, <1>3 DEF Answer

\* A bundle that agrees with the baseline on record reports what the device was told.
LEMMA BaselineMeansEnforced ==
  ASSUME RegistryInv, file # Torn, NEW b \in Bundles, b.device \in DOMAIN file,
         BaselineHolds(file[b.device], b.pcr)
  PROVE  Enforced(Answer(b))
<1>1. b.device \in Devices
  BY DEF Bundles
<1>2. acked[b.device] # None => file[b.device].baseline \in {acked[b.device]} \cup attempted[b.device]
  BY <1>1 DEF RegistryInv, Holds
<1>3. attempted[b.device] \subseteq Values
  BY <1>1 DEF RegistryInv, TypeOK
<1> QED
  BY <1>2, <1>3, MissingAssumption DEF BaselineHolds, Enforced, Answer

LEMMA VerifyKeeps ==
  ASSUME RegistryInv, saving = None, NEW b \in Bundles, Verify(b),
         network' \subseteq network, UNCHANGED <<now, issuedAt, up, crashes>>
  PROVE  RegistryInv'
<1> DEFINE d == b.device
<1>1. /\ b.type = "verify" /\ d \in Devices /\ b.nonce \in Nonces
      /\ Consume(b.nonce) /\ UNCHANGED <<acked, attempted>>
  BY DEF Verify, Bundles
<1>2. live' \subseteq live /\ honoured' \in [Nonces -> Nat]
  BY <1>1, ConsumeShrinks
<1>3. CASE Nothing
  BY <1>1, <1>2, <1>3, HandlerKeeps DEF Nothing, Untouched
<1>4. ASSUME Known(b.nonce), LoadedDevices # Torn, FirstSeen(b) PROVE RegistryInv'
  <2> DEFINE r == [has_key |-> TRUE, key_matches |-> TRUE, baseline |-> None]
             db == Put(file, d, r)
  <2>1. /\ d \notin DOMAIN file /\ Save(db, Answer(b))
        /\ enrolments' = [enrolments EXCEPT ![d] = @ + 1] /\ UNCHANGED passes
    BY <1>4 DEF FirstSeen, LoadedDevices
  <2>2. file \in Databases /\ r \in Records
    BY <1>4 DEF LoadedDevices, RegistryInv, TypeOK, Records
  <2>3. db \in Databases
    BY <1>1, <2>2, PutType
  <2>4. Holds(file) /\ enrolments[d] = 0 /\ acked[d] = None
    BY <1>1, <1>4, <2>1 DEF LoadedDevices, RegistryInv, Holds
  <2>5. /\ DOMAIN db = DOMAIN file \cup {d} /\ db[d] = r
        /\ \A e \in DOMAIN file : db[e] = file[e]
    BY <2>1 DEF Put
  <2>6. enrolments' \in [Devices -> Nat] /\ EnrolledOnce'
    BY <1>1, <2>1, <2>4 DEF RegistryInv, TypeOK, EnrolledOnce
  <2>7. HoldsNext(db)
    <3>1. \A e \in Devices : e \notin DOMAIN db => enrolments'[e] = 0
      BY <1>1, <2>1, <2>4, <2>5 DEF RegistryInv, TypeOK, Holds
    <3>2. \A p \in passes : p.bundle.device \in DOMAIN db /\ OfItsKey(db[p.bundle.device])
      BY <2>4, <2>5 DEF Holds
    <3>3. \A e \in Devices : acked[e] # None =>
            e \in DOMAIN db /\ db[e].baseline \in {acked[e]} \cup attempted[e]
      BY <2>4, <2>5 DEF Holds
    <3> QED
      BY <1>1, <2>1, <3>1, <3>2, <3>3 DEF HoldsNext
  <2>8. Answer(b) \in Answers /\ Fresh(Answer(b)) /\ Answer(b).bundle = b
    BY <1>1, <1>4, AnswerIsFresh
  <2>9. Enforced(Answer(b))
    BY <2>4 DEF Enforced, Answer
  <2>10. Agrees(db, Answer(b))
    BY <1>1, <2>5, <2>8, <2>9 DEF Agrees, OfItsKey
  <2>11. Writes(db, Answer(b))
    BY <1>1, <2>1, <2>3, <2>6, <2>8 DEF Writes, RegistryInv, TypeOK
  <2> QED
    BY <1>2, <2>6, <2>7, <2>10, <2>11, HandlerKeeps
<1>5. ASSUME Known(b.nonce), LoadedDevices # Torn, Migrate(b) PROVE RegistryInv'
  <2> DEFINE db == [file EXCEPT ![d].has_key = TRUE]
             a == IF BaselineHolds(file[d], b.pcr) THEN Answer(b) ELSE None
  <2>1. /\ d \in DOMAIN file /\ file[d].key_matches
        /\ Save(db, a) /\ UNCHANGED <<passes, enrolments>>
    BY <1>5 DEF Migrate, KeyAccepted, LoadedDevices
  <2>2. file \in Databases /\ Holds(file)
    BY <1>5 DEF LoadedDevices, RegistryInv, TypeOK
  <2>3. db \in Databases
    BY <2>1, <2>2, ExceptType
  <2>4. file[d] \in Records
    BY <2>1, <2>2, RecordOf
  <2>5. /\ DOMAIN db = DOMAIN file /\ OfItsKey(db[d])
        /\ \A e \in DOMAIN file : /\ db[e].baseline = file[e].baseline
                                 /\ db[e].key_matches = file[e].key_matches
                                 /\ file[e].has_key => db[e].has_key
    BY <2>1, <2>2, <2>4, RecordOf DEF Records, OfItsKey
  <2>6. HoldsNext(db)
    BY <1>1, <2>1, <2>2, <2>5 DEF Holds, HoldsNext, OfItsKey
  <2>7. Answer(b) \in Answers /\ Fresh(Answer(b)) /\ Answer(b).bundle = b
    BY <1>1, <1>5, AnswerIsFresh
  <2>8. a # None => a = Answer(b) /\ Enforced(a)
    BY <1>5, <2>1, BaselineMeansEnforced DEF LoadedDevices
  <2>9. a # None => Agrees(db, a)
    BY <1>1, <2>1, <2>5, <2>7, <2>8 DEF Agrees
  <2>10. Writes(db, a)
    BY <1>1, <2>1, <2>3, <2>7 DEF Writes, RegistryInv, TypeOK
  <2>11. EnrolledOnce'
    BY <2>1 DEF RegistryInv, EnrolledOnce
  <2> QED
    BY <1>2, <2>6, <2>9, <2>10, <2>11, HandlerKeeps
<1>6. ASSUME Known(b.nonce), LoadedDevices # Torn, Check(b) PROVE RegistryInv'
  <2>1. d \in DOMAIN file /\ OfItsKey(file[d]) /\ file # Torn /\ UNCHANGED <<file, saving, enrolments>>
    BY <1>6 DEF Check, KeyAccepted, OfItsKey, LoadedDevices
  <2>2. CASE BaselineHolds(file[d], b.pcr)
    <3>1. Answer(b) \in Answers /\ Fresh(Answer(b)) /\ Answer(b).bundle = b
      BY <1>1, <1>6, AnswerIsFresh
    <3>2. Enforced(Answer(b))
      BY <2>1, <2>2, BaselineMeansEnforced
    <3>3. Passed(Answer(b))
      BY <1>1, <1>6, <2>1, <2>2 DEF Check, LoadedDevices, Passed
    <3> QED
      BY <1>2, <2>1, <3>1, <3>2, <3>3, HandlerKeeps
  <2>3. CASE ~BaselineHolds(file[d], b.pcr)
    <3>1. Untouched
      BY <1>1, <1>6, <2>1, <2>3 DEF Check, LoadedDevices, Untouched
    <3> QED
      BY <1>2, <3>1, HandlerKeeps
  <2> QED
    BY <2>2, <2>3
<1> QED
  BY <1>3, <1>4, <1>5, <1>6 DEF Verify, NotEnrolled, KeyMismatch

LEMMA EnrollKeeps ==
  ASSUME RegistryInv, saving = None, NEW b \in Bundles, Enroll(b),
         network' \subseteq network, UNCHANGED <<now, issuedAt, up, crashes>>
  PROVE  RegistryInv'
<1> DEFINE d == b.device
<1>1. /\ b.type = "enroll" /\ d \in Devices /\ b.nonce \in Nonces /\ b.baseline \in Values
      /\ Consume(b.nonce) /\ UNCHANGED <<passes, enrolments, acked>>
  BY DEF Enroll, Bundles
<1>2. live' \subseteq live /\ honoured' \in [Nonces -> Nat]
  BY <1>1, ConsumeShrinks
<1>3. CASE UNCHANGED <<file, saving, attempted>>
  BY <1>1, <1>2, <1>3, HandlerKeeps DEF Untouched
<1>4. ASSUME Known(b.nonce), LoadedDevices # Torn, HasKey(d), SetBaseline(b) PROVE RegistryInv'
  <2> DEFINE db == [file EXCEPT ![d].baseline = b.baseline]
  <2>1. /\ d \in DOMAIN file /\ file[d].has_key /\ Save(db, Answer(b))
        /\ attempted' = [attempted EXCEPT ![d] = @ \cup {b.baseline}]
    BY <1>4 DEF SetBaseline, HasKey, LoadedDevices
  <2>2. file \in Databases /\ Holds(file)
    BY <1>4 DEF LoadedDevices, RegistryInv, TypeOK
  <2>3. db \in Databases
    BY <1>1, <2>1, <2>2, ExceptType
  <2>4. file[d] \in Records
    BY <2>1, <2>2, RecordOf
  <2>5. /\ DOMAIN db = DOMAIN file /\ db[d].baseline = b.baseline
        /\ db[d].key_matches = file[d].key_matches /\ db[d].has_key
        /\ \A e \in DOMAIN file : e # d => db[e] = file[e]
    BY <2>1, <2>2, <2>4 DEF Records
  <2>6. attempted' \in [Devices -> SUBSET Values]
    BY <1>1, <2>1 DEF RegistryInv, TypeOK
  <2>7. HoldsNext(db)
    <3>1. \A e \in Devices : e \notin DOMAIN db => enrolments[e] = 0
      BY <2>2, <2>5 DEF Holds
    <3>2. \A p \in passes : p.bundle.device \in DOMAIN db /\ OfItsKey(db[p.bundle.device])
      BY <2>2, <2>5 DEF Holds, OfItsKey
    <3>3. ASSUME NEW e \in Devices, acked[e] # None
          PROVE  e \in DOMAIN db /\ db[e].baseline \in {acked[e]} \cup attempted'[e]
      <4>1. CASE e = d
        BY <1>1, <2>1, <2>5, <4>1 DEF RegistryInv, TypeOK
      <4>2. CASE e # d
        BY <2>1, <2>2, <2>5, <3>3, <4>2 DEF Holds, RegistryInv, TypeOK
      <4> QED
        BY <4>1, <4>2
    <3> QED
      BY <1>1, <3>1, <3>2, <3>3 DEF HoldsNext
  <2>8. Answer(b) \in Answers /\ Answer(b).bundle = b
    BY <1>1, <1>4, AnswerIsFresh
  <2>9. Agrees(db, Answer(b))
    BY <1>1, <2>1, <2>5, <2>8 DEF Agrees
  <2>10. Writes(db, Answer(b))
    BY <1>1, <2>1, <2>3, <2>6, <2>8 DEF Writes, RegistryInv, TypeOK
  <2>11. EnrolledOnce'
    BY <1>1 DEF RegistryInv, EnrolledOnce
  <2> QED
    BY <1>2, <2>7, <2>9, <2>10, <2>11, HandlerKeeps
<1> QED
  BY <1>3, <1>4 DEF Enroll, EnrollRaises

LEMMA RegistryStep == RegistryInv /\ [Next]_vars => RegistryInv'
<1> SUFFICES ASSUME RegistryInv, [Next]_vars PROVE RegistryInv'
  OBVIOUS
<1>1. TypeOK
  BY DEF RegistryInv
<1>2. ASSUME NEW b \in network, Handle(b) PROVE RegistryInv'
  <2>1. b \in Bundles
    BY <1>1, <1>2 DEF TypeOK
  <2>2. /\ saving = None /\ network' \subseteq network /\ UNCHANGED <<now, issuedAt, up, crashes>>
        /\ Verify(b) \/ Enroll(b)
    BY <1>2 DEF Handle
  <2> QED
    BY <2>1, <2>2, VerifyKeeps, EnrollKeeps
<1> QED
  BY <1>1, <1>2, StepCases, OutsideKeeps, GetNonceKeeps, SavedKeeps, CrashKeeps

LEMMA RegistryInductive == Spec => []RegistryInv
  BY RegistryInit, RegistryStep, PTL DEF Spec

(***************************************************************************)
(* Every PASS was earned: the challenge was fresh and used for nothing     *)
(* else, and the measurements are those the device has been told it is     *)
(* held to (server.py, verify and enroll), for any network, any number of  *)
(* crashes and any lifetime of a nonce.                                    *)
(***************************************************************************)
THEOREM PassesEarned == Spec => []PassesAreEarned
<1>1. RegistryInv /\ NonceHonouredOnce => PassesAreEarned
  BY DEF RegistryInv, PassesAreEarned, PassIsFresh, Fresh, BaselineEnforced, Enforced
<1> QED
  BY <1>1, RegistryInductive, HonouredOnce, PTL

(***************************************************************************)
(* What the server has said of a device stays on record while the file can *)
(* be read, and no device is taken for a new one twice.                    *)
(***************************************************************************)
THEOREM RegistryKept == Spec => []RegistryIsKept
<1>1. RegistryInv => RegistryIsKept
  BY DEF RegistryInv, RegistryIsKept, AnswersAreDurable, Holds
<1> QED
  BY <1>1, RegistryInductive, PTL

(***************************************************************************)
(* A torn file stays torn and nobody passes any more: _load_devices raises *)
(* in every later request, before anything is written.                     *)
(***************************************************************************)
THEOREM TornForever == Spec => TornIsFinal
<1>1. ASSUME TypeOK, [Next]_vars, file = Torn, saving = None
      PROVE  file' = Torn /\ saving' = None /\ passes' = passes
  <2>1. CASE Outside
    BY <1>1, <2>1 DEF Outside
  <2>2. ASSUME NEW n \in Nonces, GetNonce(n) PROVE UNCHANGED <<file, saving, passes>>
    BY <2>2 DEF GetNonce
  <2>3. ASSUME NEW b \in network, Handle(b) PROVE UNCHANGED <<file, saving, passes>>
    BY <1>1, <2>3 DEF Handle, Verify, Enroll, Nothing, LoadedDevices
  <2>4. CASE Saved
    BY <1>1, <2>4 DEF Saved
  <2>5. CASE Crash
    BY <1>1, <2>5 DEF Crash, historyVars
  <2> QED
    BY <1>1, <2>1, <2>2, <2>3, <2>4, <2>5, StepCases
<1>2. RegistryInv => TypeOK
  BY DEF RegistryInv
<1> QED
  BY <1>1, <1>2, RegistryInductive, PTL DEF Spec, TornIsFinal
=============================================================================
