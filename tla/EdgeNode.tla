------------------------------ MODULE EdgeNode -------------------------------
(***************************************************************************)
(* The edge node, pi5_edge_node/core/aether_relay.py, with its client of   *)
(* the attestation server (trustcore/client.py) and its key files.         *)
(*                                                                         *)
(* Everything runs on one event loop: a step is what happens between two   *)
(* awaits.  sensor_update_loop replaces the readings and decides, in one   *)
(* step; attestation_loop waits for a nonce and for the verdict; requests  *)
(* of the dashboard come in between, and some of them change what the next *)
(* decision is compared with.  All of it but the key files is lost when    *)
(* the process dies.                                                       *)
(*                                                                         *)
(* SHA-256 tells payloads apart: a decision_hash is the number of the      *)
(* decision and the R, S, E in it.                                         *)
(***************************************************************************)
EXTENDS Integers, FiniteSets

(***************************************************************************)
(* The scores of the edge node: stress S, exposure E, resilience R, the    *)
(* KRI and the dissonance of pi5_edge_node/core/kri_engine.py, and the LR  *)
(* status of lr_core.py.                                                   *)
(*                                                                         *)
(* The code computes in floats; here 1.0 is Unit for S and E, 2 * Unit for *)
(* R and 4 * Unit for the KRI, so that every halving is exact.             *)
(***************************************************************************)

Unit == 20

Least(a, b) == IF a <= b THEN a ELSE b
Most(a, b)  == IF a >= b THEN a ELSE b

\* BaseSensor.clamp
Clamp(x, lo, hi) == Most(lo, Least(hi, x))

\* compute_kri: the readings, scaled so that 500 ppb and 100 cpm are Unit
Rse(voc, geiger, obstacles) ==
  LET S == Least(Unit, voc + geiger)
      E == Least(Unit, (Unit \div 5) * obstacles)
  IN [R |-> Most(0, 2 * Unit - (S + E)), S |-> S, E |-> E]

\* _kri_placeholder
KriUnclamped(rse) == 2 * (rse.S + rse.E) - rse.R + 2 * Unit
Kri(rse) == Clamp(KriUnclamped(rse), 0, 4 * Unit)

\* _dissonance_placeholder, against the R, S, E of an earlier call
Deltas(prev, rse) == [R |-> rse.R - prev.R, S |-> rse.S - prev.S, E |-> rse.E - prev.E]
Constructive(deltas) == ~((deltas.S > 0 \/ deltas.E > 0) /\ deltas.R < 0)

\* lr_evaluate: the flags, a quarter each, and the status of their score
Flags(rse, constructive) ==
  {f \in {"stress", "exposure", "resilience", "dissonance"} :
     CASE f = "stress"     -> 10 * rse.S > 6 * Unit
       [] f = "exposure"   -> 10 * rse.E > 3 * Unit
       [] f = "resilience" -> 10 * rse.R < 3 * (2 * Unit)
       [] f = "dissonance" -> ~constructive}

Status(quarters) ==
  CASE 25 * quarters < 30 -> "OK"
    [] 25 * quarters >= 30 /\ 25 * quarters < 70 -> "WATCH"
    [] OTHER -> "ALERT"

-----------------------------------------------------------------------------
(***************************************************************************)
(* The two sensor readers of the edge node, pi5_edge_node/sensor_reader:   *)
(* the gas sensor on whichever converter answers, and the camera, whose    *)
(* activation is the change of brightness since the last frame it got.     *)
(* Both fall back to a mock signal.  Brightness and activation are in      *)
(* parts of Unit, voltages in tenths of a volt.                            *)
(***************************************************************************)

CONSTANTS Brightness,   \* the brightness a frame can have
          Voltages,     \* what the converters can show
          MockLevels,   \* the values of the mock signals
          NoFrame       \* no frame: none yet, or the stream fails

ASSUME SensorAssumption ==
  /\ Brightness \subseteq 0 .. Unit /\ MockLevels \subseteq 0 .. Unit
  /\ Voltages \subseteq Nat /\ NoFrame \notin Brightness

VARIABLES
  prev_brightness,   \* _prev_brightness
  first, activated   \* history: the first frame, and the activation reported since

camVars == <<prev_brightness, first, activated>>

Abs(x) == IF x < 0 THEN -x ELSE x

CamInit == prev_brightness = NoFrame /\ first = NoFrame /\ activated = 0

\* AetherCamReader.read with a frame: the first one reports its brightness
Activation(frame) ==
  IF prev_brightness = NoFrame THEN frame
  ELSE Clamp(5 * Abs(frame - prev_brightness), 0, Unit)

CamFrame(frame) ==
  /\ prev_brightness' = frame
  /\ first' = IF first = NoFrame THEN frame ELSE first
  /\ activated' = IF first = NoFrame THEN 0 ELSE Least(Unit, activated + Activation(frame))

\* AetherCamReader.read without one: the mock signal; the last frame is kept
CamMockRemembered(level) == prev_brightness' = level /\ UNCHANGED <<first, activated>>
CamMock(level) == UNCHANGED camVars

\* The frames read() may get, each with the value it then returns
CamReadings ==
  {<<frame, Activation(frame)>> : frame \in Brightness} \cup ({NoFrame} \X MockLevels)

CamRead(reading) ==
  \/ reading[1] # NoFrame /\ CamFrame(reading[1])
  \/ reading[1] = NoFrame /\ CamMock(reading[2])

\* MQ9Reader.read: clean air is 0.4 V, the full scale 3.3 V
Mq9Normalized(voltage) == Clamp(((voltage - 4) * Unit) \div 29, 0, Unit)

\* _read_voltage: explorerhat, else ads1115, else the mock
Mq9Readings == {Mq9Normalized(v) : v \in Voltages} \cup MockLevels

(***************************************************************************)
(* No motion is lost: whichever endpoints read the camera, and however     *)
(* often the stream fails in between, the activation reported since the    *)
(* first frame is at least what the brightness has changed in all.         *)
(***************************************************************************)
MotionNotLost ==
  first # NoFrame => activated >= Least(Unit, 5 * Abs(prev_brightness - first))

-----------------------------------------------------------------------------
(***************************************************************************)
(* The key files of a device, pi5_edge_node/core/trustcore/crypto.py:      *)
(* PQCManager loads them when all three are there and otherwise generates  *)
(* a pair and writes public key, secret key and metadata one after the     *)
(* other.  A crash of the process may leave the file being written as it   *)
(* was, cut short, or complete.                                            *)
(***************************************************************************)

CONSTANTS Absent,     \* the file does not exist; no key pair in memory
          Torn        \* the file is cut short

ASSUME FileAssumption == Absent \notin Nat /\ Torn \notin Nat /\ Absent # Torn

VARIABLES
  files,     \* pqc_pub.bin, pqc_sec.bin, pqc_meta.json: of which generation each is
  writing,   \* the files _generate_keys has yet to write
  fresh,     \* the number of pairs generated so far
  key,       \* the pair in memory: the generations of its two halves
  oqs        \* liboqs is installed

keyVars == <<files, writing, fresh, key, oqs>>

Files == {"pub", "sec", "meta"}
Order == <<"pub", "sec", "meta">>
Before(f) == {Order[i] : i \in {j \in 1 .. 3 : \A k \in 1 .. j : Order[k] # f}}

KeyInit ==
  /\ files = [f \in Files |-> Absent]
  /\ writing = {}
  /\ fresh = 0
  /\ key = Absent
  /\ oqs \in BOOLEAN

AllExistBin == files["pub"] # Absent /\ files["sec"] # Absent
AllExist == \A f \in Files : files[f] # Absent

\* _load_or_create_keys, when the metadata is JSON and when it is not
LoadKeys ==
  /\ AllExist
  /\ files["meta"] # Torn
  /\ key' = [pub |-> files["pub"], sec |-> files["sec"]]
  /\ UNCHANGED <<files, writing, fresh, oqs>>

LoadRaises ==
  /\ AllExist
  /\ files["meta"] = Torn
  /\ UNCHANGED keyVars

GenerateKeys ==
  /\ ~AllExist
  /\ oqs
  /\ fresh' = fresh + 1
  /\ writing' = Files
  /\ UNCHANGED <<files, key, oqs>>

GenerateRaises == ~AllExist /\ ~oqs /\ UNCHANGED keyVars

\* The next file is written; after the last one the pair is in use.
WriteKeyFile(f) ==
  /\ f \in writing
  /\ Before(f) \cap writing = {}
  /\ files' = [files EXCEPT ![f] = fresh]
  /\ writing' = writing \ {f}
  /\ key' = IF writing' = {} THEN [pub |-> fresh, sec |-> fresh] ELSE Absent
  /\ UNCHANGED <<fresh, oqs>>

\* The process dies, possibly in the middle of a file.
LoseKeys ==
  /\ \/ UNCHANGED files
     \/ \E f \in writing : Before(f) \cap writing = {} /\ files' = [files EXCEPT ![f] = Torn]
  /\ writing' = {}
  /\ key' = Absent
  /\ UNCHANGED <<fresh, oqs>>

KeyTypeOK ==
  /\ files \in [Files -> Nat \cup {Absent, Torn}]
  /\ writing \subseteq Files
  /\ fresh \in Nat
  /\ key \in [pub : Nat \cup {Torn}, sec : Nat \cup {Torn}] \cup {Absent}
  /\ oqs \in BOOLEAN

(***************************************************************************)
(* A pair that is in use is of one generation, and is what the files hold. *)
(***************************************************************************)
PairMatches == key # Absent => \A f \in Files : files[f] = key.pub /\ key.sec = key.pub

-----------------------------------------------------------------------------
CONSTANTS Readings,     \* the readings get_mock_state returns
          None,
          MaxUpdates,   \* bound on the decisions of one boot
          MaxNonces,    \* bound on the nonces the server issues
          MaxCrashes    \* bound on the crashes of the node

ASSUME NodeAssumption ==
  /\ None \notin Nat /\ None # "PASS" /\ None \notin [R : Int, S : Int, E : Int]
  /\ Readings \subseteq [voc : Nat, geiger : Nat, obstacles : Nat]

VARIABLES
  node,        \* "down", "starting", "up"
  cache,       \* SENSOR_CACHE: reading, decision_hash, attestation_status
  last,        \* LAST_DECISION; the inputs in it are the cache itself
  previous,    \* _previous_state
  attest,      \* where attestation_loop is: "off", "idle", "nonce", "verify"
  bundle,      \* the bundle that was posted
  verdict,     \* the server's answer to it, while it is under way
  issued, open, accepted,     \* the server: nonces issued, open and accepted
  foreign,     \* history: node_status_realtime ran since the last decision
  identities,  \* history: the device ids under which bundles were posted
  concluded,   \* history: the nonce of the last attempt, None if it raised
  crashes

nodeVars    == <<node, cache, last, previous>>
attestVars  == <<attest, bundle, verdict, concluded>>
serverVars  == <<issued, open, accepted>>
historyVars == <<foreign, identities, crashes>>
vars == <<nodeVars, attestVars, serverVars, historyVars, camVars, keyVars>>

RseOf(reading) == Rse(reading.voc, reading.geiger, reading.obstacles)
Quiet == [voc |-> 0, geiger |-> 0, obstacles |-> 0]
Still == [R |-> 0, S |-> 0, E |-> 0]

\* The module state of aether_relay.py and kri_engine.py as it is imported
EmptyCache == [reading |-> Quiet, decision_hash |-> None, status |-> "UNKNOWN"]

Init ==
  /\ node = "down"
  /\ cache = EmptyCache /\ last = None /\ previous = None
  /\ attest = "off" /\ bundle = None /\ verdict = None /\ concluded = None
  /\ issued = 0 /\ open = {} /\ accepted = {}
  /\ foreign = FALSE /\ identities = {} /\ crashes = 0
  /\ CamInit
  /\ KeyInit

-----------------------------------------------------------------------------
(***************************************************************************)
(* startup_event: the keys are loaded or generated; without them the node  *)
(* runs, and does not attest.                                              *)
(***************************************************************************)
Start ==
  /\ node = "down"
  /\ node' = "starting"
  /\ UNCHANGED <<cache, last, previous, attestVars, serverVars, historyVars, camVars, keyVars>>

ClientReady ==
  /\ node = "starting"
  /\ (writing = {} /\ LoadKeys) \/ \E f \in Files : WriteKeyFile(f)
  /\ node' = IF key' = Absent THEN "starting" ELSE "up"
  /\ attest' = IF key' = Absent THEN "off" ELSE "idle"
  /\ UNCHANGED <<cache, last, previous, bundle, verdict, concluded,
                 serverVars, historyVars, camVars>>

ClientGenerates ==
  /\ node = "starting"
  /\ writing = {}
  /\ GenerateKeys
  /\ UNCHANGED <<nodeVars, attestVars, serverVars, historyVars, camVars>>

ClientFails ==
  /\ node = "starting"
  /\ writing = {}
  /\ LoadRaises \/ GenerateRaises
  /\ node' = "up"
  /\ UNCHANGED <<cache, last, previous, attestVars, serverVars, historyVars, camVars>>

Crash ==
  /\ node # "down"
  /\ crashes < MaxCrashes
  /\ crashes' = crashes + 1
  /\ node' = "down"
  /\ cache' = EmptyCache /\ last' = None /\ previous' = None
  /\ attest' = "off" /\ bundle' = None /\ verdict' = None /\ concluded' = None
  /\ foreign' = FALSE
  /\ prev_brightness' = NoFrame /\ first' = NoFrame /\ activated' = 0
  /\ LoseKeys
  /\ UNCHANGED <<serverVars, identities>>

-----------------------------------------------------------------------------
\* compute_kri's deltas, and its side effect: every call moves _previous_state
DeltasOf(rse) == IF previous = None THEN Still ELSE Deltas(previous, rse)

RememberFirst(rse) == previous' = IF previous = None THEN rse ELSE previous
Remember(rse) == previous' = rse

Number == IF last = None THEN 0 ELSE last.number
DecisionHash(decision) == <<decision.number, decision.rse>>

\* lr_evaluate, and the record in LAST_DECISION
DecisionOf(rse, deltas) ==
  LET flags == Cardinality(Flags(rse, Constructive(deltas))) IN
  [number |-> Number + 1, rse |-> rse, deltas |-> deltas, score |-> flags, status |-> Status(flags)]

\* One turn of sensor_update_loop
EvaluatesOld(reading) == RseOf(cache.reading)
Evaluates(reading) == RseOf(reading)

SensorUpdate(reading) ==
  /\ node = "up"
  /\ Number < MaxUpdates
  /\ last' = DecisionOf(Evaluates(reading), DeltasOf(Evaluates(reading)))
  /\ Remember(Evaluates(reading))
  /\ cache' = [cache EXCEPT !.reading = reading, !.decision_hash = DecisionHash(last')]
  /\ foreign' = FALSE
  /\ UNCHANGED <<node, attestVars, serverVars, identities, crashes, camVars, keyVars>>

\* GET /kri, which the dashboard polls: a call of compute_kri on the cache
PollKri ==
  /\ node = "up"
  /\ Remember(RseOf(cache.reading))
  /\ UNCHANGED <<node, cache, last, attestVars, serverVars, historyVars, camVars, keyVars>>

\* GET /sensor/aethercam
PollCamera ==
  /\ node = "up"
  /\ \E reading \in CamReadings : CamRead(reading)
  /\ UNCHANGED <<nodeVars, attestVars, serverVars, historyVars, keyVars>>

\* What /node_status_realtime passes to compute_kri: S * 500 ppb, E * 100 cpm
NodeStatusRse(S, E) == Rse(S, E, 0)

\* GET /node_status_realtime: both sensors are read and scored
PollNodeStatus ==
  /\ node = "up"
  /\ \E S \in Mq9Readings, E \in CamReadings : CamRead(E) /\ Remember(NodeStatusRse(S, E[2]))
  /\ foreign' = TRUE
  /\ UNCHANGED <<node, cache, last, attestVars, serverVars, identities, crashes, keyVars>>

-----------------------------------------------------------------------------
\* attestation_loop: GET /nonce; the sensor loop was created first and has decided
AskNonce ==
  /\ attest = "idle"
  /\ last # None
  /\ attest' = "nonce"
  /\ UNCHANGED <<nodeVars, bundle, verdict, concluded, serverVars, historyVars, camVars, keyVars>>

\* The server answers with a fresh nonce.
Issue ==
  /\ issued < MaxNonces
  /\ issued' = issued + 1
  /\ open' = open \cup {issued'}

(***************************************************************************)
(* The nonce arrives: create_bundle hashes the cache, takes the decision's *)
(* hash from it and signs; then POST /verify.                              *)
(***************************************************************************)
Bundle(nonce) ==
  [nonce |-> nonce, device |-> key.pub, signed |-> key.sec, reading |-> cache.reading,
   decision_hash |-> cache.decision_hash]

PostBundle ==
  /\ attest = "nonce"
  /\ oqs
  /\ Issue
  /\ bundle' = Bundle(issued')
  /\ identities' = identities \cup {bundle'.device}
  /\ attest' = "verify"
  /\ UNCHANGED <<nodeVars, verdict, concluded, accepted, foreign, crashes, camVars, keyVars>>

\* The server consumes the nonce and accepts the bundle, or not.
Accept(b) ==
  /\ b.nonce \in open
  /\ b.device = b.signed
  /\ open' = open \ {b.nonce}
  /\ accepted' = accepted \cup {b.nonce}

Reject(b) == open' = open \ {b.nonce} /\ UNCHANGED accepted

ServerVerifies ==
  /\ attest = "verify"
  /\ verdict = None
  /\ \/ Accept(bundle) /\ verdict' = "PASS"
     \/ Reject(bundle) /\ verdict' = "FAIL"
  /\ UNCHANGED <<nodeVars, attest, bundle, concluded, issued, historyVars, camVars, keyVars>>

\* The verdict arrives.
TakeVerdict ==
  /\ attest = "verify"
  /\ verdict # None
  /\ cache' = [cache EXCEPT !.status = verdict]
  /\ concluded' = bundle.nonce
  /\ attest' = "idle"
  /\ bundle' = None /\ verdict' = None
  /\ UNCHANGED <<node, last, previous, serverVars, historyVars, camVars, keyVars>>

(***************************************************************************)
(* The attempt raises: no connection, an HTTP error, ten seconds without   *)
(* an answer, no liboqs, or a TPM that cannot be read.  The nonce may have *)
(* been issued, and a bundle that was posted may still be accepted; its    *)
(* verdict is not seen.                                                    *)
(***************************************************************************)
RaisedKept == cache
Raised == [cache EXCEPT !.status = "FAIL"]

AttemptFails ==
  /\ attest \in {"nonce", "verify"}
  /\ \/ UNCHANGED serverVars
     \/ attest = "nonce" /\ Issue /\ UNCHANGED accepted
     \/ /\ attest = "verify" /\ verdict = None
        /\ Accept(bundle) \/ Reject(bundle)
        /\ UNCHANGED issued
  /\ cache' = Raised
  /\ concluded' = None
  /\ attest' = "idle"
  /\ bundle' = None /\ verdict' = None
  /\ UNCHANGED <<node, last, previous, historyVars, camVars, keyVars>>

-----------------------------------------------------------------------------
Next ==
  \/ Start \/ ClientReady \/ ClientGenerates \/ ClientFails \/ Crash
  \/ \E reading \in Readings : SensorUpdate(reading)
  \/ PollKri \/ PollCamera \/ PollNodeStatus
  \/ AskNonce \/ PostBundle \/ ServerVerifies \/ TakeVerdict \/ AttemptFails

Spec == Init /\ [][Next]_vars

(***************************************************************************)
(* The event loop runs: startup finishes, the sensor loop turns and every  *)
(* attempt ends, since httpx gives up after ten seconds.  Nothing is       *)
(* promised of the server, of restarts or of the dashboard.                *)
(***************************************************************************)
FairSpec ==
  /\ Spec
  /\ WF_vars(ClientReady \/ ClientGenerates \/ ClientFails)
  /\ WF_vars(\E reading \in Readings : SensorUpdate(reading))
  /\ WF_vars(AskNonce)
  /\ WF_vars(PostBundle \/ TakeVerdict \/ AttemptFails)

-----------------------------------------------------------------------------
\* What the read-only endpoints serve: /sensors, /lr and /decision, /attestation
SensorsServed == cache.reading
DecisionServed == last
AttestationServed == [status |-> cache.status,
                      decision_hash |-> IF last = None THEN None ELSE DecisionHash(last)]

-----------------------------------------------------------------------------
(***************************************************************************)
(* Properties                                                              *)
(***************************************************************************)
EdgeTypeOK ==
  /\ KeyTypeOK
  /\ node \in {"down", "starting", "up"}
  /\ cache.reading \in Readings \cup {Quiet}
  /\ cache.status \in {"UNKNOWN", "PASS", "FAIL"}
  /\ attest \in {"off", "idle", "nonce", "verify"}
  /\ issued \in Nat /\ open \subseteq 1 .. issued /\ accepted \subseteq 1 .. issued
  /\ identities \subseteq 1 .. fresh

(***************************************************************************)
(* What is served and signed together belongs together, although the       *)
(* inputs in a decision are the live cache and the loops interleave:       *)
(* /decision and /sensors, the hash /attestation serves (from the decision)*)
(* and the one the next bundle is signed with (from the cache), and the    *)
(* readings and the hash in a bundle.                                      *)
(***************************************************************************)
DecisionBelongsToInputs ==
  /\ EdgeTypeOK
  /\ DecisionServed # None =>
       /\ DecisionServed.rse = RseOf(SensorsServed)
       /\ cache.decision_hash = AttestationServed.decision_hash
  /\ bundle # None => bundle.decision_hash[2] = RseOf(bundle.reading)

(***************************************************************************)
(* The dissonance of a decision is the change since the decision before    *)
(* it, however often the dashboard polls /kri in between: a poll moves     *)
(* _previous_state, but to where it is.  (Only /node_status_realtime, which*)
(* scores other sensors, moves it elsewhere.)                              *)
(***************************************************************************)
DissonanceSpans ==
  last' # None /\ last' # last /\ ~foreign /\ last # None =>
    last'.deltas = Deltas(last.rse, last'.rse)

(***************************************************************************)
(* Both values that are remembered between readings, for all callers at    *)
(* once, stay what the next reading is to be compared with: the camera's   *)
(* frame loses no motion, and _previous_state no change of the decisions.  *)
(***************************************************************************)
BaselinesServeAll == [][MotionNotLost' /\ DissonanceSpans]_vars

(***************************************************************************)
(* One device, one identity: whatever crashes while the key files are      *)
(* written, bundles are posted under a single device id, and the pair in   *)
(* use is of one generation and is what the files hold.                    *)
(***************************************************************************)
OneIdentity == PairMatches /\ Cardinality(identities) <= 1

(***************************************************************************)
(* A PASS on /attestation is that of the last attempt that ended: it does  *)
(* not outlive a failed one, and the server did accept that nonce.         *)
(***************************************************************************)
PassIsCurrent ==
  AttestationServed.status = "PASS" => concluded # None /\ concluded \in accepted

(***************************************************************************)
(* A node with keys reports on its attestation, though the server never    *)
(* answers; without keys it stays UNKNOWN.                                 *)
(***************************************************************************)
AttestationReports ==
  (node = "up" /\ key # Absent) ~> (cache.status # "UNKNOWN" \/ node = "down")
=============================================================================
