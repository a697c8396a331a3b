----------------------------- MODULE TrustServer -----------------------------
(***************************************************************************)
(* The TrustCore attestation server,                                       *)
(* pi2_trust_server/core/trustcore/server.py (the same file is             *)
(* pi5_edge_node/core/trustcore/server.py), and the devices that attest to *)
(* it with client.py.                                                      *)
(*                                                                         *)
(* /nonce runs in a worker thread; /verify and /enroll run on the event    *)
(* loop and, once the body has arrived, without an await, so that a        *)
(* handler is one step, except where it rewrites devices.json: the rewrite *)
(* truncates the file first, and the process may die, or a worker may      *)
(* issue a nonce, before the contents are there.  Nonces live in memory    *)
(* only.  Time is time.time() in whole seconds.                            *)
(*                                                                         *)
(* Devices are identified by the hash of their public key and sign what    *)
(* they send; a bundle whose signature does not verify (valid = FALSE) is  *)
(* one that was damaged on its way.                                        *)
(***************************************************************************)
EXTENDS Integers, FiniteSets

CONSTANTS Devices,
          Values,           \* the PCR measurements a device can report
          Missing,          \* the TPM reports no value for the register
          None,             \* no baseline; nothing is being saved
          Torn,             \* the file is not JSON
          Ttl,              \* TRUSTCORE_NONCE_TTL
          AllowFirstSeen,   \* TRUSTCORE_ALLOW_FIRST_SEEN
          OldRegistries,    \* what earlier versions may have left in devices.json
          MaxNonces,        \* bound on the nonces issued
          MaxTime,          \* bound on the clock
          MaxCrashes        \* bound on the crashes of the server

ASSUME MissingAssumption == Missing \notin Values /\ None \notin Values
ASSUME BoundsAssumption ==
  /\ Ttl \in Nat /\ MaxNonces \in Nat /\ MaxTime \in Nat /\ MaxCrashes \in Nat
ASSUME PolicyAssumption == AllowFirstSeen \in BOOLEAN

Nonces == 1 .. MaxNonces

VARIABLES
  now,
  issuedAt,      \* when each nonce was issued, for the nonces issued so far
  live,          \* _NONCES: the nonces in memory, with their expiry
  file,          \* devices.json: the devices on record, or Torn
  saving,        \* None, or the contents and the answer of the handler in _save_devices
  up,            \* the server runs
  network,       \* bundles on their way
  honoured,      \* history: how often each nonce was accepted
  passes,        \* history: the PASS answers
  acked,         \* history: the baseline each device was last told is set
  attempted,     \* history: the baselines written since then
  enrolments,    \* history: how often each device was entered as first seen
  crashes

serverVars == <<live, file, saving, up>>
historyVars == <<issuedAt, honoured, passes, acked, attempted, enrolments>>
vars == <<now, serverVars, network, historyVars, crashes>>

(***************************************************************************)
(* A device on record: whether it has the key (public_key_hex), whether    *)
(* its public_key_hash is the one the device presents (or is absent), and  *)
(* its baseline.                                                           *)
(***************************************************************************)
Records == [has_key : BOOLEAN, key_matches : BOOLEAN, baseline : Values \cup {None}]
Databases == UNION {[D -> Records] : D \in SUBSET Devices}
ASSUME OldRegistriesAssumption == OldRegistries \subseteq Databases

Reported == Values \cup {Missing}

Bundles == [type : {"verify"}, device : Devices, nonce : Nonces,
            pcr : Reported, valid : BOOLEAN]
             \cup
           [type : {"enroll"}, device : Devices, nonce : Nonces,
            baseline : Values, valid : BOOLEAN, encoding : {"hex", "bytes"}]

Expiry(n) == issuedAt[n] + Ttl
-----------------------------------------------------------------------------
(***************************************************************************)
(* An old record may lack the key (written before public_key_hex existed), *)
(* hold a baseline (an earlier /enroll took it without a signature), or    *)
(* name another key.                                                       *)
(***************************************************************************)
Init ==
  /\ now = 0
  /\ issuedAt = [n \in {} |-> 0]
  /\ live = {}
  /\ file \in OldRegistries
  /\ saving = None
  /\ up = TRUE
  /\ network = {}
  /\ honoured = [n \in Nonces |-> 0]
  /\ passes = {}
  /\ acked = [d \in Devices |-> None]
  /\ attempted = [d \in Devices |-> {}]
  /\ enrolments = [d \in Devices |-> IF d \in DOMAIN file THEN 1 ELSE 0]
  /\ crashes = 0

\* _prune_nonces: what it leaves
PrunedInclusive(ns) == {n \in ns : Expiry(n) >= now}
Pruned(ns) == {n \in ns : Expiry(n) > now}

\* GET /nonce, also while the event loop is in _save_devices
GetNonce(n) ==
  /\ up
  /\ n \notin DOMAIN issuedAt
  /\ \A k \in Nonces : k < n => k \in DOMAIN issuedAt
  /\ issuedAt' = [k \in DOMAIN issuedAt \cup {n} |-> IF k = n THEN now ELSE issuedAt[k]]
  /\ live' = Pruned(live) \cup {n}
  /\ UNCHANGED <<now, file, saving, up, network, honoured, passes,
                 acked, attempted, enrolments, crashes>>

\* _consume_nonce: prune, and take the nonce if it is there.
Known(n) == n \in Pruned(live)

ConsumeKeeps(n) ==
  /\ live' = Pruned(live)
  /\ honoured' = [honoured EXCEPT ![n] = IF Known(n) THEN @ + 1 ELSE @]
Consume(n) ==
  /\ live' = Pruned(live) \ {n}
  /\ honoured' = [honoured EXCEPT ![n] = IF Known(n) THEN @ + 1 ELSE @]

-----------------------------------------------------------------------------
\* _load_devices: of a torn file it raises, and the request fails.
LoadedDevices == file

\* _save_devices, up to the truncation
Save(db, answer) ==
  /\ file' = Torn
  /\ saving' = [db |-> db, answer |-> answer]

PutAlone(db, d, record) == [e \in {d} |-> record]
Put(db, d, record) == [e \in DOMAIN db \cup {d} |-> IF e = d THEN record ELSE db[e]]

BaselineHolds(record, pcr) ==
  record.baseline # None /\ pcr # Missing => pcr = record.baseline

\* The answer PASS or OK, with what the device has been told before it.
Answer(b) == [bundle |-> b, at |-> now, acked |-> acked[b.device],
              attempted |-> attempted[b.device]]

Nothing == UNCHANGED <<file, saving, passes, enrolments>>

\* POST /verify, first seen: enter the device, then PASS
FirstSeen(b) ==
  /\ b.device \notin DOMAIN LoadedDevices
  /\ AllowFirstSeen
  /\ Save(Put(LoadedDevices, b.device,
              [has_key |-> TRUE, key_matches |-> TRUE, baseline |-> None]),
          Answer(b))
  /\ enrolments' = [enrolments EXCEPT ![b.device] = @ + 1]
  /\ UNCHANGED passes

NotEnrolled(b) ==
  /\ b.device \notin DOMAIN LoadedDevices
  /\ ~AllowFirstSeen
  /\ Nothing

\* The record is of another key than the bundle's.
KeyMismatch(b) ==
  /\ b.device \in DOMAIN LoadedDevices
  /\ ~LoadedDevices[b.device].key_matches
  /\ Nothing

\* Mutated: the key on record is not looked at.
KeyNotCompared(b) == b.device \in DOMAIN LoadedDevices

KeyAccepted(b) ==
  /\ b.device \in DOMAIN LoadedDevices
  /\ LoadedDevices[b.device].key_matches

\* A record without the key: complete it.  The baseline is checked afterwards.
Migrate(b) ==
  /\ KeyAccepted(b)
  /\ ~LoadedDevices[b.device].has_key
  /\ Save([LoadedDevices EXCEPT ![b.device].has_key = TRUE],
          IF BaselineHolds(LoadedDevices[b.device], b.pcr) THEN Answer(b) ELSE None)
  /\ UNCHANGED <<passes, enrolments>>

\* A record with the key: PASS, or FAIL when a reported register differs.
Check(b) ==
  /\ KeyAccepted(b)
  /\ LoadedDevices[b.device].has_key
  /\ passes' = passes \cup (IF BaselineHolds(LoadedDevices[b.device], b.pcr)
                            THEN {Answer(b)} ELSE {})
  /\ UNCHANGED <<file, saving, enrolments>>

\* The nonce is gone before the signature is looked at.
Verify(b) ==
  /\ b.type = "verify"
  /\ Consume(b.nonce)
  /\ IF Known(b.nonce) /\ b.valid
     THEN IF LoadedDevices = Torn
          THEN Nothing
          ELSE FirstSeen(b) \/ NotEnrolled(b) \/ KeyMismatch(b) \/ Migrate(b) \/ Check(b)
     ELSE Nothing
  /\ UNCHANGED <<acked, attempted>>

(***************************************************************************)
(* POST /enroll: the signature is checked against the key on record.  A    *)
(* baseline of byte strings cannot be written as JSON: json.dumps raises   *)
(* before the file is opened.  The answer OK is given when the new         *)
(* baseline is in the file.                                                *)
(***************************************************************************)
HasKey(d) == d \in DOMAIN LoadedDevices /\ LoadedDevices[d].has_key

SetBaseline(b) ==
  /\ b.encoding = "hex"
  /\ Save([LoadedDevices EXCEPT ![b.device].baseline = b.baseline], Answer(b))
  /\ attempted' = [attempted EXCEPT ![b.device] = @ \cup {b.baseline}]

EnrollRaises(b) ==
  /\ b.encoding = "bytes"
  /\ UNCHANGED <<file, saving, attempted>>

Enroll(b) ==
  /\ b.type = "enroll"
  /\ Consume(b.nonce)
  /\ IF Known(b.nonce)
     THEN IF LoadedDevices = Torn
          THEN UNCHANGED <<file, saving, attempted>>
          ELSE IF HasKey(b.device) /\ b.valid
               THEN SetBaseline(b) \/ EnrollRaises(b)
               ELSE UNCHANGED <<file, saving, attempted>>
     ELSE UNCHANGED <<file, saving, attempted>>
  /\ UNCHANGED <<passes, enrolments, acked>>

\* A bundle arrives; the network may deliver it again.
Handle(b) ==
  /\ up
  /\ saving = None
  /\ b \in network
  /\ Verify(b) \/ Enroll(b)
  /\ network' \in {network, network \ {b}}
  /\ UNCHANGED <<now, issuedAt, up, crashes>>

\* The end of _save_devices and of the handler that called it
Saved ==
  /\ up
  /\ saving # None
  /\ file' = saving.db
  /\ saving' = None
  /\ \/ saving.answer = None /\ UNCHANGED <<passes, acked, attempted>>
     \/ /\ saving.answer # None
        /\ saving.answer.bundle.type = "verify"
        /\ passes' = passes \cup {saving.answer}
        /\ UNCHANGED <<acked, attempted>>
     \/ /\ saving.answer # None
        /\ saving.answer.bundle.type = "enroll"
        /\ acked' = [acked EXCEPT ![saving.answer.bundle.device] = saving.answer.bundle.baseline]
        /\ attempted' = [attempted EXCEPT ![saving.answer.bundle.device] = {}]
        /\ UNCHANGED passes
  /\ UNCHANGED <<now, issuedAt, live, up, network, honoured,
                 enrolments, crashes>>

-----------------------------------------------------------------------------
\* The process dies; a rewrite in progress is left torn, or complete.
Crash ==
  /\ up
  /\ crashes < MaxCrashes
  /\ up' = FALSE
  /\ file' \in IF saving = None THEN {file} ELSE {file, saving.db}
  /\ live' = {}
  /\ saving' = None
  /\ crashes' = crashes + 1
  /\ UNCHANGED <<now, network, historyVars>>

Restart ==
  /\ ~up
  /\ up' = TRUE
  /\ UNCHANGED <<now, live, file, saving, network, historyVars, crashes>>

(***************************************************************************)
(* A device that holds a nonce signs a bundle over what its TPM reports at *)
(* that moment (create_bundle; a reboot into other software may change     *)
(* it), or over a baseline to enroll.  Nothing ties a nonce to a device.   *)
(***************************************************************************)
Attest(d, n, pcr, valid) ==
  LET b == [type |-> "verify", device |-> d, nonce |-> n, pcr |-> pcr, valid |-> valid] IN
  /\ n \in DOMAIN issuedAt
  /\ \A c \in network : c.nonce # n
  /\ network' = network \cup {b}
  /\ UNCHANGED <<now, serverVars, historyVars, crashes>>

RequestEnroll(d, n, baseline, encoding, valid) ==
  LET b == [type |-> "enroll", device |-> d, nonce |-> n, baseline |-> baseline,
             valid |-> valid, encoding |-> encoding] IN
  /\ n \in DOMAIN issuedAt
  /\ \A c \in network : c.nonce # n
  /\ network' = network \cup {b}
  /\ UNCHANGED <<now, serverVars, historyVars, crashes>>

Lose(b) ==
  /\ b \in network
  /\ network' = network \ {b}
  /\ UNCHANGED <<now, serverVars, historyVars, crashes>>

Tick ==
  /\ now < MaxTime
  /\ now' = now + 1
  /\ UNCHANGED <<serverVars, network, historyVars, crashes>>

Next ==
  \/ \E n \in Nonces : GetNonce(n)
  \/ \E b \in network : Handle(b) \/ Lose(b)
  \/ Saved \/ Crash \/ Restart \/ Tick
  \/ \E d \in Devices, n \in Nonces, pcr \in Reported, valid \in BOOLEAN : Attest(d, n, pcr, valid)
  \/ \E d \in Devices, n \in Nonces, v \in Values, encoding \in {"hex", "bytes"}, valid \in BOOLEAN :
       RequestEnroll(d, n, v, encoding, valid)

Spec == Init /\ [][Next]_vars

-----------------------------------------------------------------------------
(***************************************************************************)
(* Properties                                                              *)
(***************************************************************************)
Answers == [bundle : Bundles, at : Nat, acked : Values \cup {None}, attempted : SUBSET Values]

TypeOK ==
  /\ now \in Nat
  /\ DOMAIN issuedAt \subseteq Nonces
  /\ \A n \in DOMAIN issuedAt : issuedAt[n] \in Nat
  /\ live \subseteq DOMAIN issuedAt
  /\ file \in Databases \cup {Torn}
  /\ saving \in [db : Databases, answer : Answers \cup {None}] \cup {None}
  /\ up \in BOOLEAN
  /\ network \subseteq Bundles
  /\ honoured \in [Nonces -> Nat]
  /\ passes \subseteq Answers
  /\ acked \in [Devices -> Values \cup {None}]
  /\ attempted \in [Devices -> SUBSET Values]
  /\ enrolments \in [Devices -> Nat]
  /\ crashes \in Nat

(***************************************************************************)
(* A nonce is accepted at most once, by whichever of the two endpoints,    *)
(* although bundles are delivered late and twice, the server restarts, and *)
(* the nonce is looked up and removed in two statements.                   *)
(***************************************************************************)
NonceHonouredOnce == \A n \in Nonces : honoured[n] <= 1

(***************************************************************************)
(* A PASS answers a challenge of the last NONCE_TTL_SEC seconds, and the   *)
(* measurements in it were signed after the challenge was issued, however  *)
(* long the bundle was under way.                                          *)
(***************************************************************************)
PassIsFresh ==
  \A p \in passes : /\ p.bundle.nonce \in DOMAIN issuedAt
                     /\ issuedAt[p.bundle.nonce] <= p.at
                     /\ p.at < issuedAt[p.bundle.nonce] + Ttl

(***************************************************************************)
(* A device is entered as first seen once in its life: no crash makes the  *)
(* server forget a device and trust the next key that uses its name.       *)
(***************************************************************************)
EnrolledOnce == \A d \in Devices : enrolments[d] <= 1

(***************************************************************************)
(* Whoever has been told OK for a baseline is held to it: a bundle that    *)
(* reports the register passes only with that value, or with one whose OK  *)
(* was lost in a crash.                                                    *)
(***************************************************************************)
BaselineEnforced ==
  \A p \in passes :
    p.acked # None /\ p.bundle.pcr # Missing => p.bundle.pcr \in {p.acked} \cup p.attempted

(***************************************************************************)
(* Together: every PASS was earned, by a fresh challenge that nobody else  *)
(* has used, and by measurements the device is known for.                  *)
(***************************************************************************)
PassesAreEarned == NonceHonouredOnce /\ PassIsFresh /\ BaselineEnforced

OfItsKey(record) == record.has_key /\ record.key_matches

(***************************************************************************)
(* Answers are durable: a device that was passed is on record, with the    *)
(* key it presented and the baseline it was told is set, unless the file   *)
(* is torn.                                                                *)
(***************************************************************************)
AnswersAreDurable ==
  file # Torn =>
    /\ \A p \in passes : p.bundle.device \in DOMAIN file /\ OfItsKey(file[p.bundle.device])
    /\ \A d \in Devices : acked[d] # None =>
         d \in DOMAIN file /\ file[d].baseline \in {acked[d]} \cup attempted[d]

(***************************************************************************)
(* Together: what the server has said of a device stays on record, through *)
(* crashes and the rewrites for other devices.                             *)
(***************************************************************************)
RegistryIsKept == TypeOK /\ EnrolledOnce /\ AnswersAreDurable

(***************************************************************************)
(* A registry torn by a crash is never repaired, nor overwritten: from     *)
(* then on the server passes nobody (the cost of the in-place rewrite of   *)
(* _save_devices).                                                         *)
(***************************************************************************)
TornIsFinal == [][file = Torn /\ saving = None => file' = Torn /\ saving' = None /\ passes' = passes]_vars

(***************************************************************************)
(* Nonces implement challenges that are answered at most once.             *)
(***************************************************************************)
Challenges == INSTANCE Challenge WITH
                Challenges <- Nonces,
                issued     <- DOMAIN issuedAt,
                open       <- live,
                answered   <- {n \in Nonces : honoured[n] > 0}

ImplementsChallenge == Challenges!Spec
=============================================================================
