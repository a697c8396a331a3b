--------------------------- MODULE EdgeNode_proofs ---------------------------
(***************************************************************************)
(* Proofs about the edge node: its identity, the verdict it shows and the  *)
(* readings it signs, for any readings, any number of crashes, nonces and  *)
(* decisions, and a server that answers as it likes or not at all.         *)
(***************************************************************************)
EXTENDS EdgeNode, FiniteSetTheorems, TLAPS

-----------------------------------------------------------------------------
(***************************************************************************)
(* The key files.  The metadata is written last: once it is there, cut     *)
(* short or not, both halves are of the newest generation, and since all   *)
(* three files exist nothing is ever generated again.                      *)
(***************************************************************************)
WritingInOrder ==
  \/ writing = {}
  \/ writing = {"meta"} /\ files["pub"] = fresh /\ files["sec"] = fresh
  \/ writing = {"sec", "meta"} /\ files["pub"] = fresh
  \/ writing = Files

FilesInv ==
  /\ KeyTypeOK
  /\ WritingInOrder
  /\ writing # {} => files["meta"] = Absent /\ key = Absent
  /\ files["meta"] # Absent =>
       /\ writing = {} /\ files["pub"] = fresh /\ files["sec"] = fresh /\ fresh > 0
       /\ files["meta"] \in {fresh, Torn}
  /\ writing # {} => fresh > 0
  /\ key # Absent => key = [pub |-> fresh, sec |-> fresh] /\ files["meta"] = fresh

\* Once a pair has been in use the files keep it.
Settled == files["meta"] = fresh

LEMMA BeforeIs ==
  Before("pub") = {} /\ Before("sec") = {"pub"} /\ Before("meta") = {"pub", "sec"}
<1>1. Order[1] = "pub" /\ Order[2] = "sec" /\ Order[3] = "meta"
  BY DEF Order
<1> HIDE DEF Order
<1> QED
  BY <1>1 DEF Before

\* The file that is written next
LEMMA NextFile ==
  ASSUME WritingInOrder, NEW f \in writing, Before(f) \cap writing = {}
  PROVE  \/ writing = Files /\ f = "pub"
         \/ writing = {"sec", "meta"} /\ f = "sec"
         \/ writing = {"meta"} /\ f = "meta"
BY BeforeIs DEF WritingInOrder, Files

LEMMA FilesWritten ==
  ASSUME FilesInv, NEW f \in Files, WriteKeyFile(f)
  PROVE  FilesInv' /\ ~Settled /\ fresh' = fresh
<1>1. /\ f \in writing /\ writing' = writing \ {f} /\ fresh' = fresh /\ oqs' = oqs
      /\ files' = [files EXCEPT ![f] = fresh]
      /\ key' = IF writing' = {} THEN [pub |-> fresh, sec |-> fresh] ELSE Absent
  BY DEF WriteKeyFile
<1>2. /\ files \in [Files -> Nat \cup {Absent, Torn}] /\ fresh \in Nat /\ oqs \in BOOLEAN
      /\ fresh > 0 /\ files["meta"] = Absent /\ WritingInOrder
  BY <1>1 DEF FilesInv, KeyTypeOK
<1>3. KeyTypeOK'
  BY <1>1, <1>2 DEF KeyTypeOK, FilesInv
<1>4. ~Settled
  BY <1>2, FileAssumption DEF Settled
<1>5. \/ writing = Files /\ f = "pub"
      \/ writing = {"sec", "meta"} /\ f = "sec"
      \/ writing = {"meta"} /\ f = "meta"
  BY <1>2, NextFile DEF WriteKeyFile
<1>6. CASE writing = Files /\ f = "pub"
  BY <1>1, <1>2, <1>3, <1>4, <1>6 DEF FilesInv, WritingInOrder, Files
<1>7. CASE writing = {"sec", "meta"} /\ f = "sec"
  BY <1>1, <1>2, <1>3, <1>4, <1>7 DEF FilesInv, WritingInOrder, Files
<1>8. CASE writing = {"meta"} /\ f = "meta"
  BY <1>1, <1>2, <1>3, <1>4, <1>8, FileAssumption DEF FilesInv, WritingInOrder, Files
<1> QED
  BY <1>5, <1>6, <1>7, <1>8

LEMMA FilesLost ==
  ASSUME FilesInv, LoseKeys
  PROVE  FilesInv' /\ (Settled => Settled') /\ fresh' = fresh
<1>1. writing' = {} /\ key' = Absent /\ fresh' = fresh /\ oqs' = oqs
  BY DEF LoseKeys
<1>2. CASE files' = files
  BY <1>1, <1>2 DEF FilesInv, KeyTypeOK, WritingInOrder, Settled
<1>3. ASSUME NEW f \in writing, Before(f) \cap writing = {}, files' = [files EXCEPT ![f] = Torn]
      PROVE  FilesInv' /\ (Settled => Settled')
  <2>1. /\ files \in [Files -> Nat \cup {Absent, Torn}] /\ fresh \in Nat /\ oqs \in BOOLEAN
        /\ fresh > 0 /\ files["meta"] = Absent /\ WritingInOrder /\ f \in Files
    BY <1>3 DEF FilesInv, KeyTypeOK
  <2>2. KeyTypeOK'
    BY <1>1, <1>3, <2>1 DEF KeyTypeOK
  <2>3. ~Settled
    BY <2>1, FileAssumption DEF Settled
  <2>4. \/ f \in {"pub", "sec"}
        \/ f = "meta" /\ files["pub"] = fresh /\ files["sec"] = fresh
    BY <1>3, <2>1, NextFile DEF WritingInOrder, Files
  <2> QED
    BY <1>1, <1>3, <2>1, <2>2, <2>3, <2>4, FileAssumption DEF FilesInv, WritingInOrder, Files
<1> QED
  BY <1>1, <1>2, <1>3 DEF LoseKeys

LEMMA FilesGenerated ==
  ASSUME FilesInv, GenerateKeys
  PROVE  FilesInv' /\ ~Settled
<1>1. fresh \in Nat /\ files["meta"] = Absent
  <2>1. files["meta"] # Absent => AllExist
    BY FileAssumption DEF FilesInv, KeyTypeOK, AllExist, Files
  <2> QED
    BY <2>1 DEF GenerateKeys, FilesInv, KeyTypeOK
<1>2. key = Absent
  BY <1>1, FileAssumption DEF FilesInv
<1> QED
  BY <1>1, <1>2, FileAssumption
     DEF GenerateKeys, FilesInv, KeyTypeOK, WritingInOrder, Settled, Files

LEMMA FilesLoaded ==
  ASSUME FilesInv, LoadKeys
  PROVE  FilesInv' /\ (Settled => Settled') /\ fresh' = fresh
<1>1. UNCHANGED <<files, writing, fresh, oqs>> /\ files["meta"] = fresh
      /\ key' = [pub |-> fresh, sec |-> fresh]
  BY DEF LoadKeys, FilesInv, AllExist, Files
<1>2. KeyTypeOK'
  BY <1>1 DEF FilesInv, KeyTypeOK
<1>3. writing = {} /\ fresh > 0 /\ files["pub"] = fresh /\ files["sec"] = fresh
  BY <1>1, FileAssumption DEF FilesInv, KeyTypeOK
<1> QED
  BY <1>1, <1>2, <1>3 DEF FilesInv, WritingInOrder, Settled

LEMMA FilesKept ==
  ASSUME FilesInv, UNCHANGED keyVars
  PROVE  FilesInv' /\ (Settled => Settled') /\ fresh' = fresh
BY DEF FilesInv, KeyTypeOK, WritingInOrder, Settled, keyVars

-----------------------------------------------------------------------------
(***************************************************************************)
(* One identity: bundles are posted with a pair that is in use, so under   *)
(* the generation the files have settled on.                               *)
(***************************************************************************)
IdentityInv ==
  /\ FilesInv
  /\ identities = {} \/ (Settled /\ identities = {fresh})
  /\ attest # "off" => key # Absent

LEMMA IdentityStep == IdentityInv /\ [Next]_vars => IdentityInv'
<1> SUFFICES ASSUME IdentityInv, [Next]_vars PROVE IdentityInv'
  OBVIOUS
<1> USE DEF IdentityInv
<1>1. ASSUME UNCHANGED keyVars, identities' = identities, attest' = attest \/ attest # "off"
      PROVE  IdentityInv'
  BY <1>1, FilesKept DEF keyVars
<1>2. CASE Start
  BY <1>1, <1>2 DEF Start, attestVars, historyVars
<1>3. CASE ClientReady
  <2>1. identities' = identities /\ (attest' # "off" => key' # Absent)
    BY <1>3 DEF ClientReady, historyVars
  <2>2. CASE LoadKeys
    BY <2>1, <2>2, FilesLoaded
  <2>3. ASSUME NEW f \in Files, WriteKeyFile(f) PROVE IdentityInv'
    BY <2>1, <2>3, FilesWritten
  <2> QED
    BY <1>3, <2>2, <2>3 DEF ClientReady
<1>4. CASE ClientGenerates
  <2>1. GenerateKeys /\ identities' = identities /\ attest' = attest /\ key' = key
    BY <1>4 DEF ClientGenerates, attestVars, historyVars, GenerateKeys
  <2> QED
    BY <2>1, FilesGenerated
<1>5. CASE ClientFails
  <2>1. UNCHANGED keyVars
    BY <1>5 DEF ClientFails, LoadRaises, GenerateRaises
  <2> QED
    BY <1>1, <1>5, <2>1 DEF ClientFails, attestVars, historyVars
<1>6. CASE Crash
  BY <1>6, FilesLost DEF Crash
<1>7. ASSUME NEW reading \in Readings, SensorUpdate(reading) PROVE IdentityInv'
  BY <1>1, <1>7 DEF SensorUpdate, attestVars
<1>8. CASE PollKri \/ PollCamera
  BY <1>1, <1>8 DEF PollKri, PollCamera, attestVars, historyVars
<1>9. CASE PollNodeStatus
  BY <1>1, <1>9 DEF PollNodeStatus, attestVars
<1>10. CASE AskNonce
  BY <1>1, <1>10 DEF AskNonce, historyVars
<1>11. CASE PostBundle
  <2>1. key # Absent /\ Settled /\ key.pub = fresh
    BY <1>11 DEF PostBundle, FilesInv, Settled
  <2>2. identities' = identities \cup {key.pub} /\ UNCHANGED keyVars
    BY <1>11 DEF PostBundle, Bundle
  <2>3. FilesInv' /\ Settled' /\ fresh' = fresh /\ key' = key
    BY <2>1, <2>2, FilesKept DEF keyVars
  <2> QED
    BY <2>1, <2>2, <2>3
<1>12. CASE ServerVerifies
  BY <1>1, <1>12 DEF ServerVerifies, historyVars
<1>13. CASE TakeVerdict
  BY <1>1, <1>13 DEF TakeVerdict, historyVars
<1>14. CASE AttemptFails
  BY <1>1, <1>14 DEF AttemptFails, historyVars
<1>15. CASE UNCHANGED vars
  BY <1>1, <1>15 DEF vars, attestVars, historyVars
<1> QED
  BY <1>2, <1>3, <1>4, <1>5, <1>6, <1>7, <1>8, <1>9, <1>10, <1>11, <1>12, <1>13, <1>14, <1>15
     DEF Next

LEMMA IdentityStart == Init => IdentityInv
<1> SUFFICES ASSUME Init PROVE IdentityInv
  OBVIOUS
<1>1. FilesInv
  BY DEF Init, KeyInit, FilesInv, KeyTypeOK, WritingInOrder, Files
<1> QED
  BY <1>1 DEF Init, IdentityInv

LEMMA IdentityInvariant == Spec => []IdentityInv
BY IdentityStart, IdentityStep, PTL DEF Spec

(***************************************************************************)
(* The node attests under one device id for ever, and the pair in use is   *)
(* the one in its files, whatever crashes while they are written           *)
(* (crypto.py:78-127).                                                     *)
(***************************************************************************)
THEOREM IdentityIsOne == Spec => []OneIdentity
<1>1. IdentityInv => OneIdentity
  <2> SUFFICES ASSUME IdentityInv PROVE OneIdentity
    OBVIOUS
  <2>1. PairMatches
    <3> SUFFICES ASSUME key # Absent, NEW f \in Files
                 PROVE  files[f] = key.pub /\ key.sec = key.pub
      BY DEF PairMatches
    <3>1. key = [pub |-> fresh, sec |-> fresh] /\ files["meta"] = fresh /\ fresh \in Nat
      BY DEF IdentityInv, FilesInv, KeyTypeOK
    <3>2. files["pub"] = fresh /\ files["sec"] = fresh
      BY <3>1, FileAssumption DEF IdentityInv, FilesInv
    <3> QED
      BY <3>1, <3>2 DEF Files
  <2>2. Cardinality(identities) <= 1
    <3>1. Cardinality({}) = 0 /\ Cardinality({fresh}) = 1
      BY FS_EmptySet, FS_Singleton
    <3> QED
      BY <3>1 DEF IdentityInv
  <2> QED
    BY <2>1, <2>2 DEF OneIdentity
<1> QED
  BY <1>1, IdentityInvariant, PTL

-----------------------------------------------------------------------------
(***************************************************************************)
(* The verdict.  PASS is shown only with the nonce of the attempt that     *)
(* brought it, and the server never un-accepts a nonce.                    *)
(***************************************************************************)
CacheIsRecord == DOMAIN cache = {"reading", "decision_hash", "status"}

VerdictInv ==
  /\ CacheIsRecord
  /\ issued \in Nat /\ open \subseteq 1 .. issued /\ accepted \subseteq 1 .. issued
  /\ attest # "off" => node = "up"
  /\ verdict = "PASS" => attest = "verify" /\ bundle.nonce \in accepted
  /\ cache.status = "PASS" => concluded \in accepted

\* What the server does with nonces: it issues the next, and takes an open one.
ServerMoves ==
  /\ issued' \in Nat /\ open' \subseteq 1 .. issued' /\ accepted' \subseteq 1 .. issued'
  /\ accepted \subseteq accepted'

LEMMA ServerStep ==
  ASSUME VerdictInv
  PROVE  /\ UNCHANGED serverVars => ServerMoves
         /\ Issue /\ UNCHANGED accepted => ServerMoves
         /\ \A b : (Accept(b) \/ Reject(b)) /\ UNCHANGED issued => ServerMoves
         /\ \A b : Accept(b) => b.nonce \in accepted'
<1>1. issued \in Nat /\ open \subseteq 1 .. issued /\ accepted \subseteq 1 .. issued
  BY DEF VerdictInv
<1>2. UNCHANGED serverVars => ServerMoves
  BY <1>1 DEF serverVars, ServerMoves
<1>3. Issue /\ UNCHANGED accepted => ServerMoves
  BY <1>1 DEF Issue, ServerMoves
<1>4. ASSUME NEW b, Accept(b) PROVE b.nonce \in accepted' /\ (issued' = issued => ServerMoves)
  BY <1>1, <1>4 DEF Accept, ServerMoves
<1>5. ASSUME NEW b, Reject(b) PROVE issued' = issued => ServerMoves
  BY <1>1, <1>5 DEF Reject, ServerMoves
<1> QED
  BY <1>2, <1>3, <1>4, <1>5

LEMMA VerdictStep == VerdictInv /\ [Next]_vars => VerdictInv'
<1> SUFFICES ASSUME VerdictInv, [Next]_vars PROVE VerdictInv'
  OBVIOUS
<1> USE DEF VerdictInv
<1>1. ASSUME ServerMoves, CacheIsRecord', cache'.status = cache.status, concluded' = concluded,
             verdict' # "PASS" \/ UNCHANGED <<attest, verdict, bundle>>,
             attest' # "off" => node' = "up"
      PROVE  VerdictInv'
  BY <1>1 DEF ServerMoves
<1>2. CASE Start
  BY <1>1, <1>2, ServerStep DEF Start, attestVars, CacheIsRecord
<1>3. CASE ClientReady
  <2>1. /\ ServerMoves /\ UNCHANGED <<cache, concluded, verdict>>
        /\ attest = "off" /\ (attest' # "off" => node' = "up")
    BY <1>3, ServerStep DEF ClientReady
  <2> QED
    BY <1>1, <2>1 DEF CacheIsRecord
<1>4. CASE ClientGenerates
  BY <1>1, <1>4, ServerStep DEF ClientGenerates, nodeVars, attestVars, CacheIsRecord
<1>5. CASE ClientFails
  BY <1>1, <1>5, ServerStep DEF ClientFails, attestVars, CacheIsRecord
<1>6. CASE Crash
  <2>1. ServerMoves /\ cache' = EmptyCache /\ attest' = "off" /\ verdict' # "PASS"
    BY <1>6, ServerStep, NodeAssumption DEF Crash
  <2> QED
    BY <2>1 DEF ServerMoves, EmptyCache, CacheIsRecord
<1>7. ASSUME NEW reading \in Readings, SensorUpdate(reading) PROVE VerdictInv'
  <2>1. cache' = [cache EXCEPT !.reading = reading, !.decision_hash = DecisionHash(last')]
        /\ UNCHANGED <<node, attestVars>> /\ ServerMoves
    BY <1>7, ServerStep DEF SensorUpdate
  <2>2. CacheIsRecord' /\ cache'.status = cache.status
    BY <2>1 DEF CacheIsRecord
  <2> QED
    BY <1>1, <2>1, <2>2 DEF attestVars
<1>8. CASE PollKri \/ PollCamera \/ PollNodeStatus
  BY <1>1, <1>8, ServerStep
     DEF PollKri, PollCamera, PollNodeStatus, nodeVars, attestVars, CacheIsRecord
<1>9. CASE AskNonce
  BY <1>1, <1>9, ServerStep DEF AskNonce, nodeVars, CacheIsRecord
<1>10. CASE PostBundle
  <2>1. ServerMoves /\ UNCHANGED <<node, cache, concluded, verdict>> /\ attest = "nonce"
    BY <1>10, ServerStep DEF PostBundle, nodeVars
  <2> QED
    BY <1>1, <1>10, <2>1 DEF PostBundle, CacheIsRecord
<1>11. CASE ServerVerifies
  <2>1. ServerMoves /\ UNCHANGED <<node, cache, concluded, bundle, attest>> /\ attest = "verify"
    BY <1>11, ServerStep DEF ServerVerifies, nodeVars
  <2>2. verdict' = "PASS" => bundle.nonce \in accepted'
    BY <1>11, ServerStep DEF ServerVerifies
  <2> QED
    BY <2>1, <2>2 DEF ServerMoves, CacheIsRecord
<1>12. CASE TakeVerdict
  <2>1. /\ cache' = [cache EXCEPT !.status = verdict] /\ concluded' = bundle.nonce
        /\ attest = "verify" /\ attest' = "idle" /\ node' = node
        /\ ServerMoves /\ accepted' = accepted /\ verdict' # "PASS"
    BY <1>12, ServerStep, NodeAssumption DEF TakeVerdict, serverVars
  <2>2. CacheIsRecord' /\ cache'.status = verdict
    BY <2>1 DEF CacheIsRecord
  <2>3. cache'.status = "PASS" => concluded' \in accepted'
    BY <2>1, <2>2
  <2> QED
    BY <2>1, <2>2, <2>3 DEF ServerMoves
<1>13. CASE AttemptFails
  <2>1. /\ cache' = [cache EXCEPT !.status = "FAIL"] /\ ServerMoves
        /\ attest # "off" /\ node' = node /\ verdict' # "PASS"
    BY <1>13, ServerStep, NodeAssumption DEF AttemptFails, Raised
  <2>2. CacheIsRecord' /\ cache'.status = "FAIL"
    BY <2>1 DEF CacheIsRecord
  <2> QED
    BY <2>1, <2>2 DEF ServerMoves
<1>14. CASE UNCHANGED vars
  BY <1>1, <1>14, ServerStep DEF vars, nodeVars, attestVars, CacheIsRecord
<1> QED
  BY <1>2, <1>3, <1>4, <1>5, <1>6, <1>7, <1>8, <1>9, <1>10, <1>11, <1>12, <1>13, <1>14 DEF Next

LEMMA VerdictStart == Init => VerdictInv
BY NodeAssumption DEF Init, VerdictInv, EmptyCache, CacheIsRecord

(***************************************************************************)
(* A PASS on /attestation belongs to the last attempt that ended, and the  *)
(* server accepted its nonce (aether_relay.py:111-126), although answers   *)
(* get lost and the sensor loop rewrites the same cache.                   *)
(***************************************************************************)
THEOREM VerdictIsCurrent == Spec => []PassIsCurrent
<1>1. VerdictInv => PassIsCurrent
  <2> SUFFICES ASSUME VerdictInv, AttestationServed.status = "PASS"
               PROVE  concluded # None /\ concluded \in accepted
    BY DEF PassIsCurrent
  <2>1. cache.status = "PASS"
    BY DEF AttestationServed
  <2>2. concluded \in accepted /\ accepted \subseteq Nat
    BY <2>1 DEF VerdictInv
  <2> QED
    BY <2>2, NodeAssumption
<1> QED
  BY <1>1, VerdictStart, VerdictStep, PTL DEF Spec

-----------------------------------------------------------------------------
(***************************************************************************)
(* The readings and the decision on them.  Both are replaced in one turn   *)
(* of the sensor loop, and what lies between the nonce and the bundle is   *)
(* one step.                                                               *)
(***************************************************************************)
DecisionInv ==
  /\ CacheIsRecord
  /\ cache.reading \in Readings \cup {Quiet}
  /\ cache.status \in {"UNKNOWN", "PASS", "FAIL"}
  /\ attest \in {"off", "idle", "nonce", "verify"} /\ node \in {"down", "starting", "up"}
  /\ verdict \in {None, "PASS", "FAIL"}
  /\ last # None => /\ last.rse = RseOf(cache.reading)
                    /\ cache.decision_hash = DecisionHash(last)
  /\ attest \in {"nonce", "verify"} => cache.decision_hash[2] = RseOf(cache.reading)
  /\ bundle # None => bundle.decision_hash[2] = RseOf(bundle.reading)

LEMMA DecisionStep == DecisionInv /\ [Next]_vars => DecisionInv'
<1> SUFFICES ASSUME DecisionInv, [Next]_vars PROVE DecisionInv'
  OBVIOUS
<1>1. ASSUME cache' = cache, last' = last \/ last' = None, verdict' \in {None, "PASS", "FAIL"},
             node' \in {"down", "starting", "up"},
             bundle' = bundle \/ bundle' = None \/ (attest = "nonce" /\ bundle' = Bundle(issued')),
             attest' \in {"off", "idle", attest}
               \/ (attest = "nonce" /\ attest' = "verify") \/ (attest' = "nonce" /\ last # None)
      PROVE  DecisionInv'
  <2>1. CacheIsRecord' /\ cache'.reading \in Readings \cup {Quiet}
        /\ cache'.status \in {"UNKNOWN", "PASS", "FAIL"}
    BY <1>1 DEF DecisionInv, CacheIsRecord
  <2>2. attest' \in {"off", "idle", "nonce", "verify"}
    BY <1>1 DEF DecisionInv
  <2>3. last' # None => /\ last'.rse = RseOf(cache'.reading)
                        /\ cache'.decision_hash = DecisionHash(last')
    BY <1>1 DEF DecisionInv
  <2>4. attest' \in {"nonce", "verify"} => cache'.decision_hash[2] = RseOf(cache'.reading)
    <3>1. last # None => cache.decision_hash[2] = RseOf(cache.reading)
      BY DEF DecisionInv, DecisionHash
    <3> QED
      BY <1>1, <3>1 DEF DecisionInv
  <2>5. bundle' # None => bundle'.decision_hash[2] = RseOf(bundle'.reading)
    <3>1. CASE attest = "nonce" /\ bundle' = Bundle(issued')
      BY <3>1 DEF DecisionInv, Bundle
    <3> QED
      BY <1>1, <3>1 DEF DecisionInv
  <2> QED
    BY <1>1, <2>1, <2>2, <2>3, <2>4, <2>5 DEF DecisionInv
<1>2. node \in {"down", "starting", "up"} /\ verdict \in {None, "PASS", "FAIL"}
  BY DEF DecisionInv
<1>3. CASE Start \/ ClientReady \/ ClientGenerates \/ ClientFails
  BY <1>1, <1>2, <1>3 DEF Start, ClientReady, ClientGenerates, ClientFails, nodeVars, attestVars
<1>4. CASE Crash
  <2>1. /\ cache' = EmptyCache /\ last' = None /\ attest' = "off" /\ bundle' = None
        /\ verdict' = None /\ node' = "down"
    BY <1>4 DEF Crash
  <2> QED
    BY <2>1 DEF DecisionInv, EmptyCache, CacheIsRecord
<1>5. ASSUME NEW reading \in Readings, SensorUpdate(reading) PROVE DecisionInv'
  <2>1. /\ cache' = [cache EXCEPT !.reading = reading, !.decision_hash = DecisionHash(last')]
        /\ last' = DecisionOf(RseOf(reading), DeltasOf(RseOf(reading)))
        /\ UNCHANGED <<node, attestVars>>
    BY <1>5 DEF SensorUpdate, Evaluates
  <2>2. /\ CacheIsRecord' /\ cache'.status = cache.status
        /\ cache'.reading = reading /\ cache'.decision_hash = DecisionHash(last')
    BY <2>1 DEF DecisionInv, CacheIsRecord
  <2>3. last'.rse = RseOf(reading)
    BY <2>1 DEF DecisionOf
  <2>4. cache'.decision_hash[2] = RseOf(reading)
    BY <2>2, <2>3 DEF DecisionHash
  <2>5. bundle' = bundle /\ attest' = attest /\ verdict' = verdict /\ node' = node
    BY <2>1 DEF attestVars
  <2> QED
    BY <1>2, <2>2, <2>3, <2>4, <2>5 DEF DecisionInv
<1>6. CASE PollKri \/ PollCamera \/ PollNodeStatus
  BY <1>1, <1>2, <1>6 DEF PollKri, PollCamera, PollNodeStatus, nodeVars, attestVars
<1>7. CASE AskNonce \/ PostBundle
  BY <1>1, <1>2, <1>7 DEF AskNonce, PostBundle, nodeVars
<1>8. CASE ServerVerifies
  BY <1>1, <1>2, <1>8 DEF ServerVerifies, nodeVars
<1>9. ASSUME NEW status \in {"PASS", "FAIL"}, cache' = [cache EXCEPT !.status = status],
             UNCHANGED <<node, last>>, attest' = "idle", bundle' = None, verdict' = None
      PROVE  DecisionInv'
  <2>1. /\ CacheIsRecord' /\ cache'.status = status
        /\ cache'.reading = cache.reading /\ cache'.decision_hash = cache.decision_hash
    BY <1>9 DEF DecisionInv, CacheIsRecord
  <2> QED
    BY <1>2, <1>9, <2>1 DEF DecisionInv
<1>10. CASE TakeVerdict
  <2>1. verdict \in {"PASS", "FAIL"}
    BY <1>2, <1>10 DEF TakeVerdict
  <2> QED
    BY <1>9, <1>10, <2>1 DEF TakeVerdict
<1>11. CASE AttemptFails
  BY <1>9, <1>11 DEF AttemptFails, Raised
<1>12. CASE UNCHANGED vars
  BY <1>1, <1>2, <1>12 DEF vars, nodeVars, attestVars
<1> QED
  BY <1>3, <1>4, <1>5, <1>6, <1>7, <1>8, <1>10, <1>11, <1>12 DEF Next

LEMMA DecisionStart == Init => DecisionInv
BY DEF Init, DecisionInv, EmptyCache, CacheIsRecord

(***************************************************************************)
(* A decision, the readings it is served with and the readings that are    *)
(* signed with its hash belong together, however the two loops interleave  *)
(* (aether_relay.py:88-117, client.py:53-104).                              *)
(***************************************************************************)
THEOREM DecisionsBelong == Spec => []DecisionBelongsToInputs
<1>1. IdentityInv /\ VerdictInv /\ DecisionInv => DecisionBelongsToInputs
  <2> SUFFICES ASSUME IdentityInv, VerdictInv, DecisionInv PROVE DecisionBelongsToInputs
    OBVIOUS
  <2>1. identities \subseteq 1 .. fresh
    BY FileAssumption DEF IdentityInv, FilesInv, KeyTypeOK, Settled
  <2>2. EdgeTypeOK
    BY <2>1 DEF EdgeTypeOK, IdentityInv, FilesInv, VerdictInv, DecisionInv
  <2> QED
    BY <2>2 DEF DecisionInv, DecisionBelongsToInputs, DecisionServed, SensorsServed,
                AttestationServed
<1> QED
  BY <1>1, IdentityInvariant, VerdictStart, VerdictStep, DecisionStart, DecisionStep, PTL DEF Spec

-----------------------------------------------------------------------------
(***************************************************************************)
(* What is remembered between two readings: the camera's last frame, and   *)
(* _previous_state.  Every endpoint that reads moves them.                 *)
(***************************************************************************)
Frames == Brightness \cup {NoFrame}
Scores == [R : Int, S : Int, E : Int]

MotionInv ==
  /\ prev_brightness \in Frames /\ first \in Frames /\ activated \in 0 .. Unit
  /\ first = NoFrame <=> prev_brightness = NoFrame
  /\ MotionNotLost

\* A frame adds at least what the brightness has changed since the last one.
LEMMA FrameCounts ==
  ASSUME MotionInv, NEW frame \in Brightness, CamFrame(frame)
  PROVE  MotionInv'
<1>1. frame \in 0 .. Unit /\ frame # NoFrame /\ Brightness \subseteq 0 .. Unit
      /\ NoFrame \notin Brightness /\ Unit = 20
  BY SensorAssumption DEF Unit
<1>2. CASE first = NoFrame
  <2>1. first' = frame /\ activated' = 0 /\ prev_brightness' = frame
    BY <1>2 DEF CamFrame
  <2> QED
    BY <1>1, <2>1 DEF MotionInv, MotionNotLost, Frames, Abs, Least
<1>3. CASE first # NoFrame
  <2>1. first' = first /\ prev_brightness' = frame
        /\ activated' = Least(Unit, activated + Activation(frame))
    BY <1>3 DEF CamFrame
  <2>2. /\ first \in 0 .. Unit /\ prev_brightness \in 0 .. Unit /\ prev_brightness # NoFrame
        /\ activated \in 0 .. Unit
        /\ activated >= Least(Unit, 5 * Abs(prev_brightness - first))
    BY <1>1, <1>3 DEF MotionInv, MotionNotLost, Frames
  <2>3. Activation(frame) = Least(Unit, 5 * Abs(frame - prev_brightness))
    BY <1>1, <2>2 DEF Activation, Clamp, Most, Least, Abs
  <2>4. activated' \in 0 .. Unit /\ activated' >= Least(Unit, 5 * Abs(frame - first))
    BY <1>1, <2>1, <2>2, <2>3 DEF Least, Abs
  <2> QED
    BY <1>1, <1>3, <2>1, <2>4 DEF MotionInv, MotionNotLost, Frames
<1> QED
  BY <1>2, <1>3

LEMMA MotionKept == MotionInv /\ UNCHANGED camVars => MotionInv'
BY DEF MotionInv, MotionNotLost, camVars

LEMMA ReadingCounts ==
  ASSUME MotionInv, NEW reading \in CamReadings, CamRead(reading)
  PROVE  MotionInv'
<1>1. reading[1] \in Frames
  BY DEF CamReadings, Frames
<1>2. CASE reading[1] # NoFrame /\ CamFrame(reading[1])
  BY <1>1, <1>2, FrameCounts DEF Frames
<1>3. CASE CamMock(reading[2])
  BY <1>3, MotionKept DEF CamMock
<1> QED
  BY <1>2, <1>3 DEF CamRead

LEMMA MotionStep == MotionInv /\ [Next]_vars => MotionInv'
<1> SUFFICES ASSUME MotionInv, [Next]_vars PROVE MotionInv'
  OBVIOUS
<1>1. CASE UNCHANGED camVars
  BY <1>1, MotionKept
<1>2. CASE Crash
  BY <1>2 DEF Crash, MotionInv, MotionNotLost, Frames, Unit
<1>3. CASE PollCamera
  BY <1>3, ReadingCounts DEF PollCamera
<1>4. CASE PollNodeStatus
  BY <1>4, ReadingCounts DEF PollNodeStatus
<1> QED
  BY <1>1, <1>2, <1>3, <1>4
     DEF Next, Start, ClientReady, ClientGenerates, ClientFails, SensorUpdate, PollKri,
         AskNonce, PostBundle, ServerVerifies, TakeVerdict, AttemptFails, vars

(***************************************************************************)
(* Unless other sensors were scored since, _previous_state is that of the  *)
(* last decision: a poll of /kri moves it to where it is.                  *)
(***************************************************************************)
BaselineInv ==
  last # None => last.rse \in Scores /\ (~foreign => previous = last.rse)

LEMMA RseType == \A reading \in Readings : RseOf(reading) \in Scores
<1> SUFFICES ASSUME NEW reading \in Readings PROVE RseOf(reading) \in Scores
  OBVIOUS
<1>1. reading.voc \in Nat /\ reading.geiger \in Nat /\ reading.obstacles \in Nat
  BY NodeAssumption
<1> QED
  BY <1>1 DEF RseOf, Rse, Least, Most, Scores, Unit

LEMMA BaselineStep == DecisionInv /\ BaselineInv /\ [Next]_vars => BaselineInv' /\ DissonanceSpans
<1> SUFFICES ASSUME DecisionInv, BaselineInv, [Next]_vars PROVE BaselineInv' /\ DissonanceSpans
  OBVIOUS
<1>1. CASE UNCHANGED <<last, previous, foreign>>
  BY <1>1 DEF BaselineInv, DissonanceSpans
<1>2. CASE Crash
  BY <1>2 DEF Crash, BaselineInv, DissonanceSpans
<1>3. ASSUME NEW reading \in Readings, SensorUpdate(reading) PROVE BaselineInv' /\ DissonanceSpans
  <2> DEFINE rse == RseOf(reading)
  <2>1. last' = DecisionOf(rse, DeltasOf(rse)) /\ previous' = rse
    BY <1>3 DEF SensorUpdate, Evaluates, Remember
  <2>2. last'.rse = rse /\ last'.deltas = DeltasOf(rse)
    BY <2>1 DEF DecisionOf
  <2>3. rse \in Scores
    BY RseType
  <2> HIDE DEF rse
  <2>4. BaselineInv'
    BY <2>1, <2>2, <2>3 DEF BaselineInv
  <2>5. ASSUME last # None, ~foreign PROVE last'.deltas = Deltas(last.rse, last'.rse)
    <3>1. previous = last.rse /\ previous # None
      BY <2>5, NodeAssumption DEF BaselineInv, Scores
    <3> QED
      BY <2>2, <3>1 DEF DeltasOf
  <2> QED
    BY <2>4, <2>5 DEF DissonanceSpans
<1>4. CASE PollKri
  <2>1. previous' = RseOf(cache.reading) /\ last' = last /\ foreign' = foreign
    BY <1>4 DEF PollKri, Remember, historyVars
  <2>2. last # None => last.rse = RseOf(cache.reading)
    BY DEF DecisionInv
  <2> QED
    BY <2>1, <2>2 DEF BaselineInv, DissonanceSpans
<1>5. CASE PollNodeStatus
  BY <1>5 DEF PollNodeStatus, BaselineInv, DissonanceSpans
<1> QED
  BY <1>1, <1>2, <1>3, <1>4, <1>5
     DEF Next, Start, ClientReady, ClientGenerates, ClientFails, PollCamera, AskNonce,
         PostBundle, ServerVerifies, TakeVerdict, AttemptFails, vars, nodeVars, historyVars

(***************************************************************************)
(* The two values that all callers share stay good for each of them: no    *)
(* motion is lost to the camera, whoever reads it and however often its    *)
(* stream fails, and polls of /kri do not change what the next decision    *)
(* is compared with (aethercam_reader.py:66-74, kri_engine.py:31).         *)
(***************************************************************************)
THEOREM BaselinesServe == Spec => BaselinesServeAll
<1>1. Init => MotionInv /\ BaselineInv
  BY DEF Init, CamInit, MotionInv, MotionNotLost, Frames, BaselineInv, Unit
<1>2. MotionInv /\ DecisionInv /\ BaselineInv /\ [Next]_vars
        => MotionInv' /\ BaselineInv' /\ [MotionNotLost' /\ DissonanceSpans]_vars
  <2> SUFFICES ASSUME MotionInv, DecisionInv, BaselineInv, [Next]_vars
               PROVE  MotionInv' /\ BaselineInv' /\ MotionNotLost' /\ DissonanceSpans
    OBVIOUS
  <2> QED
    BY MotionStep, BaselineStep DEF MotionInv
<1> QED
  BY <1>1, <1>2, DecisionStart, DecisionStep, PTL DEF Spec, BaselinesServeAll
=============================================================================
