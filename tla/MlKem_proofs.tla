---------------------------- MODULE MlKem_proofs -----------------------------
(***************************************************************************)
(* Proofs about the Encaps and Decaps cores, for every set of keys and     *)
(* messages, every size of a polynomial, every length of the NTT schedule  *)
(* and every number of STARTs and resets.                                  *)
(***************************************************************************)
EXTENDS MCMlKem, TLAPS

(***************************************************************************)
(* The top modules.  Seen from the wrapper each is an operation, whatever  *)
(* the cores below answer: done is high for the one edge after DONE.       *)
(***************************************************************************)
LEMMA DecapsInit == Init => Op!Init
BY DEF Init, Op!Init

LEMMA DecapsStep == [Next]_vars => [Op!Next]_(Op!vars)
<1>1. ASSUME NEW go \in BOOLEAN, Clock(go) PROVE Op!Next
  BY <1>1 DEF Clock, Fsm, Begin, Continue, Finish, Complete, Waiting, Goes,
              Op!Next, Op!Begin, Op!Finish, Op!Quiet
<1>2. CASE Reset
  BY <1>2 DEF Reset, Goes, Op!Next, Op!Reset
<1>3. CASE UNCHANGED vars
  BY <1>3 DEF vars, topVars, Op!vars
<1> QED
  BY <1>1, <1>2, <1>3 DEF Next

LEMMA EncapsInit == E!Init => E!Op!Init
BY DEF E!Init, E!Op!Init

LEMMA EncapsStep == [E!Next]_(E!vars) => [E!Op!Next]_(E!Op!vars)
<1>1. ASSUME NEW go \in BOOLEAN, E!Clock(go) PROVE E!Op!Next
  BY <1>1 DEF E!Clock, E!Fsm, E!Begin, E!HashKey, E!DeriveSecret, E!Encrypt, E!Complete,
              E!Waiting, E!Goes, E!Op!Next, E!Op!Begin, E!Op!Finish, E!Op!Quiet
<1>2. CASE E!Reset
  BY <1>2 DEF E!Reset, E!Goes, E!Op!Next, E!Op!Reset
<1>3. CASE UNCHANGED E!vars
  BY <1>3 DEF E!vars, E!topVars, E!Op!vars
<1> QED
  BY <1>1, <1>2, <1>3 DEF E!Next

-----------------------------------------------------------------------------
(***************************************************************************)
(* The encryption core, which both operations contain.  Its lemmas are     *)
(* proved in MlKemEncrypt_proofs for any driver of the inputs; here they   *)
(* are taken for the inputs each of the two gives it.                      *)
(***************************************************************************)
EncE == INSTANCE MlKemEncrypt_proofs WITH
  b_start <- e_call = "encrypt", r_prime_in <- r_val, m_prime_in <- m_in,
  c_in <- <<E!Low, E!Low, E!Low>>, z_in <- E!Low, K_prime_in <- E!Low
DecE == INSTANCE MlKemEncrypt_proofs WITH
  b_start <- call = "B", ek_in <- dk_in.ek, z_in <- dk_in.z, r_prime_in <- a_reg.r_prime,
  m_prime_in <- decaps_a!m_prime_out, K_prime_in <- a_reg.K_prime

(***************************************************************************)
(* These instances of the core are the ones the model clocks: the text is  *)
(* the same, so that they agree as soon as every definition is expanded.   *)
(***************************************************************************)
LEMMA EncapsInstanceInit == E!kpke_encrypt!Init => EncE!Init
BY DEF E!kpke_encrypt!Init, EncE!Init, E!kpke_encrypt!Units, EncE!Units,
       E!kpke_encrypt!IdleUnit, EncE!IdleUnit, E!kpke_encrypt!Vec, EncE!Vec,
       E!kpke_encrypt!K, EncE!K, E!kpke_encrypt!Loaded, EncE!Loaded, E!kpke_encrypt!Poly,
       EncE!Poly, E!kpke_encrypt!Indices, EncE!Indices, E!kpke_encrypt!Coefficient,
       EncE!Coefficient, E!kpke_encrypt!Forward!IdleDrive, EncE!Forward!IdleDrive,
       E!kpke_encrypt!Forward!IdleNtt, EncE!Forward!IdleNtt, E!kpke_encrypt!Forward!Loaded,
       EncE!Forward!Loaded, E!kpke_encrypt!Forward!Poly, EncE!Forward!Poly,
       E!kpke_encrypt!Forward!Indices, EncE!Forward!Indices,
       E!kpke_encrypt!Forward!Coefficient, EncE!Forward!Coefficient

LEMMA EncapsInstanceClock ==
  ASSUME NEW go \in BOOLEAN, E!kpke_encrypt!Clock(go)
  PROVE  EncE!Clock(go)
BY DEF E!kpke_encrypt!Units, EncE!Units, E!kpke_encrypt!Quiet, EncE!Quiet,
       E!kpke_encrypt!Stores, EncE!Stores, E!kpke_encrypt!Calls, EncE!Calls,
       E!kpke_encrypt!Begin, EncE!Begin, E!kpke_encrypt!SampleMatrix, EncE!SampleMatrix,
       E!kpke_encrypt!SampleVectors, EncE!SampleVectors, E!kpke_encrypt!SampleLast,
       EncE!SampleLast, E!kpke_encrypt!Transform, EncE!Transform,
       E!kpke_encrypt!NextTransform, EncE!NextTransform, E!kpke_encrypt!Product,
       EncE!Product, E!kpke_encrypt!Sum, EncE!Sum, E!kpke_encrypt!Adds, EncE!Adds,
       E!kpke_encrypt!MultiplyMatrix, EncE!MultiplyMatrix, E!kpke_encrypt!FirstInverse,
       EncE!FirstInverse, E!kpke_encrypt!InvertU, EncE!InvertU, E!kpke_encrypt!AddError,
       EncE!AddError, E!kpke_encrypt!NextInverse, EncE!NextInverse, E!kpke_encrypt!InvertV,
       EncE!InvertV, E!kpke_encrypt!DecodeMessage, EncE!DecodeMessage,
       E!kpke_encrypt!AddMessage, EncE!AddMessage, E!kpke_encrypt!EncodeCiphertext,
       EncE!EncodeCiphertext, E!kpke_encrypt!SelectSecret, EncE!SelectSecret,
       E!kpke_encrypt!Complete, EncE!Complete, E!kpke_encrypt!Waiting, EncE!Waiting,
       E!kpke_encrypt!Fsm, EncE!Fsm, E!kpke_encrypt!Result, EncE!Result,
       E!kpke_encrypt!UnitsEdge, EncE!UnitsEdge, E!kpke_encrypt!ReadingOf, EncE!ReadingOf,
       E!kpke_encrypt!Inverting, EncE!Inverting, E!kpke_encrypt!Reading, EncE!Reading,
       E!kpke_encrypt!Clock, EncE!Clock, E!kpke_encrypt!UnitAfter, EncE!UnitAfter,
       E!kpke_encrypt!K, EncE!K, E!kpke_encrypt!Vec, EncE!Vec, E!kpke_encrypt!Indices,
       EncE!Indices, E!kpke_encrypt!J, EncE!J, E!kpke_encrypt!SampleNTT, EncE!SampleNTT,
       E!kpke_encrypt!SampleCBD, EncE!SampleCBD, E!kpke_encrypt!Zero, EncE!Zero,
       E!kpke_encrypt!Plus, EncE!Plus, E!kpke_encrypt!Multiply, EncE!Multiply,
       E!kpke_encrypt!Scale, EncE!Scale, E!kpke_encrypt!Compress, EncE!Compress,
       E!kpke_encrypt!ByteEncode, EncE!ByteEncode, E!kpke_encrypt!ByteDecode,
       EncE!ByteDecode, E!kpke_encrypt!Coefficient, EncE!Coefficient, E!kpke_encrypt!Poly,
       EncE!Poly, E!kpke_encrypt!Gather, EncE!Gather, E!kpke_encrypt!Part, EncE!Part,
       E!kpke_encrypt!Forward!Low, EncE!Forward!Low, E!kpke_encrypt!Forward!FWD,
       EncE!Forward!FWD, E!kpke_encrypt!Forward!Load, EncE!Forward!Load,
       E!kpke_encrypt!Forward!SetUp, EncE!Forward!SetUp, E!kpke_encrypt!Forward!StartStage,
       EncE!Forward!StartStage, E!kpke_encrypt!Forward!EndStage, EncE!Forward!EndStage,
       E!kpke_encrypt!Forward!Fetch, EncE!Forward!Fetch, E!kpke_encrypt!Forward!Arrives,
       EncE!Forward!Arrives, E!kpke_encrypt!Forward!Take, EncE!Forward!Take,
       E!kpke_encrypt!Forward!Wait, EncE!Forward!Wait, E!kpke_encrypt!Forward!Pass,
       EncE!Forward!Pass, E!kpke_encrypt!Forward!Written, EncE!Forward!Written,
       E!kpke_encrypt!Forward!NttEdge, EncE!Forward!NttEdge,
       E!kpke_encrypt!Forward!Indices, EncE!Forward!Indices,
       E!kpke_encrypt!Forward!Coefficient, EncE!Forward!Coefficient,
       E!kpke_encrypt!Forward!Poly, EncE!Forward!Poly, E!kpke_encrypt!Forward!Loaded,
       EncE!Forward!Loaded, E!kpke_encrypt!Forward!Stage, EncE!Forward!Stage,
       E!kpke_encrypt!Inverse!Low, EncE!Inverse!Low, E!kpke_encrypt!Inverse!INV_U,
       EncE!Inverse!INV_U, E!kpke_encrypt!Inverse!INV_V, EncE!Inverse!INV_V,
       E!kpke_encrypt!Inverse!Load, EncE!Inverse!Load, E!kpke_encrypt!Inverse!SetUp,
       EncE!Inverse!SetUp, E!kpke_encrypt!Inverse!StartStage, EncE!Inverse!StartStage,
       E!kpke_encrypt!Inverse!EndStage, EncE!Inverse!EndStage,
       E!kpke_encrypt!Inverse!Fetch, EncE!Inverse!Fetch, E!kpke_encrypt!Inverse!Arrives,
       EncE!Inverse!Arrives, E!kpke_encrypt!Inverse!Take, EncE!Inverse!Take,
       E!kpke_encrypt!Inverse!Wait, EncE!Inverse!Wait, E!kpke_encrypt!Inverse!Pass,
       EncE!Inverse!Pass, E!kpke_encrypt!Inverse!Coefficient, EncE!Inverse!Coefficient

LEMMA EncapsInstanceReset == E!kpke_encrypt!Reset => EncE!Reset
BY DEF E!kpke_encrypt!Reset, EncE!Reset, E!kpke_encrypt!Quiet, EncE!Quiet,
       E!kpke_encrypt!Units, EncE!Units, E!kpke_encrypt!UnitReset, EncE!UnitReset,
       E!kpke_encrypt!Forward!Low, EncE!Forward!Low, E!kpke_encrypt!Forward!NttReset,
       EncE!Forward!NttReset, E!kpke_encrypt!Forward!Written, EncE!Forward!Written,
       E!kpke_encrypt!Forward!Stage, EncE!Forward!Stage, E!kpke_encrypt!Forward!Poly,
       EncE!Forward!Poly, E!kpke_encrypt!Forward!Loaded, EncE!Forward!Loaded,
       E!kpke_encrypt!Forward!Indices, EncE!Forward!Indices,
       E!kpke_encrypt!Forward!Coefficient, EncE!Forward!Coefficient

LEMMA DecapsInstanceClock ==
  ASSUME NEW go \in BOOLEAN, decaps_b!Clock(go)
  PROVE  DecE!Clock(go)
BY DEF decaps_b!Units, DecE!Units, decaps_b!Quiet, DecE!Quiet, decaps_b!Stores,
       DecE!Stores, decaps_b!Calls, DecE!Calls, decaps_b!Begin, DecE!Begin,
       decaps_b!SampleMatrix, DecE!SampleMatrix, decaps_b!SampleVectors,
       DecE!SampleVectors, decaps_b!SampleLast, DecE!SampleLast, decaps_b!Transform,
       DecE!Transform, decaps_b!NextTransform, DecE!NextTransform, decaps_b!Product,
       DecE!Product, decaps_b!Sum, DecE!Sum, decaps_b!Adds, DecE!Adds,
       decaps_b!MultiplyMatrix, DecE!MultiplyMatrix, decaps_b!FirstInverse,
       DecE!FirstInverse, decaps_b!InvertU, DecE!InvertU, decaps_b!AddError, DecE!AddError,
       decaps_b!NextInverse, DecE!NextInverse, decaps_b!InvertV, DecE!InvertV,
       decaps_b!DecodeMessage, DecE!DecodeMessage, decaps_b!AddMessage, DecE!AddMessage,
       decaps_b!EncodeCiphertext, DecE!EncodeCiphertext, decaps_b!SelectSecret,
       DecE!SelectSecret, decaps_b!Complete, DecE!Complete, decaps_b!Waiting, DecE!Waiting,
       decaps_b!Fsm, DecE!Fsm, decaps_b!Result, DecE!Result, decaps_b!UnitsEdge,
       DecE!UnitsEdge, decaps_b!ReadingOf, DecE!ReadingOf, decaps_b!Inverting,
       DecE!Inverting, decaps_b!Reading, DecE!Reading, decaps_b!Clock, DecE!Clock,
       decaps_b!UnitAfter, DecE!UnitAfter, decaps_b!K, DecE!K, decaps_b!Vec, DecE!Vec,
       decaps_b!Indices, DecE!Indices, decaps_b!J, DecE!J, decaps_b!SampleNTT,
       DecE!SampleNTT, decaps_b!SampleCBD, DecE!SampleCBD, decaps_b!Zero, DecE!Zero,
       decaps_b!Plus, DecE!Plus, decaps_b!Multiply, DecE!Multiply, decaps_b!Scale,
       DecE!Scale, decaps_b!Compress, DecE!Compress, decaps_b!ByteEncode, DecE!ByteEncode,
       decaps_b!ByteDecode, DecE!ByteDecode, decaps_b!Coefficient, DecE!Coefficient,
       decaps_b!Poly, DecE!Poly, decaps_b!Gather, DecE!Gather, decaps_b!Part, DecE!Part,
       decaps_b!Forward!Low, DecE!Forward!Low, decaps_b!Forward!FWD, DecE!Forward!FWD,
       decaps_b!Forward!Load, DecE!Forward!Load, decaps_b!Forward!SetUp,
       DecE!Forward!SetUp, decaps_b!Forward!StartStage, DecE!Forward!StartStage,
       decaps_b!Forward!EndStage, DecE!Forward!EndStage, decaps_b!Forward!Fetch,
       DecE!Forward!Fetch, decaps_b!Forward!Arrives, DecE!Forward!Arrives,
       decaps_b!Forward!Take, DecE!Forward!Take, decaps_b!Forward!Wait, DecE!Forward!Wait,
       decaps_b!Forward!Pass, DecE!Forward!Pass, decaps_b!Forward!Written,
       DecE!Forward!Written, decaps_b!Forward!NttEdge, DecE!Forward!NttEdge,
       decaps_b!Forward!Indices, DecE!Forward!Indices, decaps_b!Forward!Coefficient,
       DecE!Forward!Coefficient, decaps_b!Forward!Poly, DecE!Forward!Poly,
       decaps_b!Forward!Loaded, DecE!Forward!Loaded, decaps_b!Forward!Stage,
       DecE!Forward!Stage, decaps_b!Inverse!Low, DecE!Inverse!Low, decaps_b!Inverse!INV_U,
       DecE!Inverse!INV_U, decaps_b!Inverse!INV_V, DecE!Inverse!INV_V,
       decaps_b!Inverse!Load, DecE!Inverse!Load, decaps_b!Inverse!SetUp,
       DecE!Inverse!SetUp, decaps_b!Inverse!StartStage, DecE!Inverse!StartStage,
       decaps_b!Inverse!EndStage, DecE!Inverse!EndStage, decaps_b!Inverse!Fetch,
       DecE!Inverse!Fetch, decaps_b!Inverse!Arrives, DecE!Inverse!Arrives,
       decaps_b!Inverse!Take, DecE!Inverse!Take, decaps_b!Inverse!Wait, DecE!Inverse!Wait,
       decaps_b!Inverse!Pass, DecE!Inverse!Pass, decaps_b!Inverse!Coefficient,
       DecE!Inverse!Coefficient

LEMMA DecapsInstanceReset == decaps_b!Reset => DecE!Reset
BY DEF decaps_b!Reset, DecE!Reset, decaps_b!Quiet, DecE!Quiet, decaps_b!Units, DecE!Units,
       decaps_b!UnitReset, DecE!UnitReset, decaps_b!Forward!Low, DecE!Forward!Low,
       decaps_b!Forward!NttReset, DecE!Forward!NttReset, decaps_b!Forward!Written,
       DecE!Forward!Written, decaps_b!Forward!Stage, DecE!Forward!Stage,
       decaps_b!Forward!Poly, DecE!Forward!Poly, decaps_b!Forward!Loaded,
       DecE!Forward!Loaded, decaps_b!Forward!Indices, DecE!Forward!Indices,
       decaps_b!Forward!Coefficient, DecE!Forward!Coefficient

\* What is said of the calls does not mention the inputs of the core.
LEMMA RestIsOne ==
  /\ DecE!RestInv <=> EncE!RestInv
  /\ DecE!RestInv' <=> EncE!RestInv'
BY DEF DecE!RestInv, EncE!RestInv, DecE!CallInv, EncE!CallInv, DecE!IsUnit, EncE!IsUnit,
       DecE!WaitOf, EncE!WaitOf, DecE!Called, EncE!Called, DecE!Resting, EncE!Resting,
       DecE!Units, EncE!Units, DecE!StageInv, EncE!StageInv, DecE!Setups, EncE!Setups,
       DecE!Starts, EncE!Starts, DecE!Waits, EncE!Waits, DecE!Reads, EncE!Reads

LEMMA AtRestIsOne ==
  /\ DecE!AtRest => E!kpke_encrypt!AtRest
  /\ EncE!AtRest => E!kpke_encrypt!AtRest
BY DEF DecE!AtRest, DecE!Units, EncE!AtRest, EncE!Units, E!kpke_encrypt!AtRest,
       E!kpke_encrypt!Units

-----------------------------------------------------------------------------
\* Every step of either operation starts and ends with the calls in order.
LEMMA CallsInit == MCInit => EncE!RestInv
<1>1. MCInit => EncE!Init
  BY EncapsInstanceInit DEF MCInit, E!Init
<1>2. EncE!Init => EncE!RestInv
  BY EncE!RestInit, SizeAssumption DEF EncE!SizeAssumption
<1> QED
  BY <1>1, <1>2

LEMMA CallsStep ==
  ASSUME EncE!RestInv, [MCNext]_mcVars
  PROVE  EncE!RestInv' /\ [E!kpke_encrypt!AtRest]_(E!vars)
<1>1. CASE EncapsReset \/ \E go \in BOOLEAN : Encaps(go)
  <2>1. EncE!Reset \/ \E go \in BOOLEAN : EncE!Clock(go)
    BY <1>1, EncapsInstanceClock, EncapsInstanceReset
       DEF EncapsReset, Encaps, E!Clock, E!Reset
  <2>2. EncE!RestInv' /\ EncE!AtRest
    BY <2>1, EncE!RestStep, EncE!StepInOrder, SizeAssumption DEF EncE!SizeAssumption
  <2> QED
    BY <2>2, AtRestIsOne
<1>2. CASE DecapsReset \/ \E go \in BOOLEAN : Decaps(go)
  <2>1. DecE!Reset \/ \E go \in BOOLEAN : DecE!Clock(go)
    BY <1>2, DecapsInstanceClock, DecapsInstanceReset DEF DecapsReset, Decaps, Clock, Reset
  <2>2. DecE!RestInv
    BY RestIsOne
  <2>3. DecE!RestInv' /\ DecE!AtRest
    BY <2>1, <2>2, DecE!RestStep, DecE!StepInOrder, SizeAssumption DEF DecE!SizeAssumption
  <2> QED
    BY <2>3, AtRestIsOne, RestIsOne
<1>3. CASE UNCHANGED mcVars
  <2>1. UNCHANGED <<b_state, b_call, b_in, b_unit, b_drive, b_ntt>> /\ UNCHANGED E!vars
    BY <1>3 DEF mcVars, vars, encapsVars, bVars, ecuVars, E!vars, E!topVars, E!bVars, E!ecuVars
  <2> QED
    BY <2>1 DEF EncE!RestInv, EncE!CallInv, EncE!StageInv, EncE!Called, EncE!Resting
<1> QED
  BY <1>1, <1>2, <1>3 DEF MCNext

-----------------------------------------------------------------------------
(***************************************************************************)
(* The calls of the encryption core find their unit at rest and leave its  *)
(* input alone, in encapsulation and in decapsulation, over any number of  *)
(* runs and resets: what FIPS 203 asks of the order of the calls needs no  *)
(* bound on the latency of a unit or on the number of coefficients.        *)
(***************************************************************************)
THEOREM CallsAtRest == MCSpec => CallsFindRest
<1>1. MCInit => EncE!RestInv
  BY CallsInit
<1>2. EncE!RestInv /\ [MCNext]_mcVars => EncE!RestInv' /\ [E!kpke_encrypt!AtRest]_(E!vars)
  BY CallsStep
<1> QED
  BY <1>1, <1>2, PTL DEF MCSpec, CallsFindRest, E!CallsFindRest

(***************************************************************************)
(* To the wrapper each of the two is an operation: a START that finds it   *)
(* idle gives one run, which ends with one edge of done, and there is no   *)
(* done that does not end a run, whatever the cores below answer.          *)
(***************************************************************************)
THEOREM CoresAreOperations == MCSpec => AreOperations
<1>1. MCInit => Op!Init /\ E!Op!Init
  BY DecapsInit, EncapsInit DEF MCInit
<1>2. [MCNext]_mcVars => [Op!Next]_(Op!vars) /\ [E!Op!Next]_(E!Op!vars)
  <2>1. ASSUME NEW go \in BOOLEAN, Decaps(go) PROVE Clock(go) /\ UNCHANGED E!Op!vars
    BY <2>1 DEF Decaps, encapsVars, E!Op!vars
  <2>2. ASSUME NEW go \in BOOLEAN, Encaps(go) PROVE E!Clock(go) /\ UNCHANGED Op!vars
    BY <2>2 DEF Encaps, decapsVars, topVars, Op!vars
  <2>3. CASE DecapsReset
    BY <2>3, DecapsStep DEF DecapsReset, Next, encapsVars, E!Op!vars
  <2>4. CASE EncapsReset
    BY <2>4, EncapsStep DEF EncapsReset, E!Next, decapsVars, topVars, Op!vars
  <2>5. CASE UNCHANGED mcVars
    BY <2>5 DEF mcVars, vars, topVars, encapsVars, Op!vars, E!Op!vars
  <2> QED
    BY <2>1, <2>2, <2>3, <2>4, <2>5, DecapsStep, EncapsStep DEF MCNext, Next, E!Next
<1> QED
  BY <1>1, <1>2, PTL
     DEF MCSpec, AreOperations, ImplementsOperation, E!ImplementsOperation, Op!Spec, E!Op!Spec

-----------------------------------------------------------------------------
(***************************************************************************)
(* Encapsulation.  A hash unit runs in its wait state only, on the input   *)
(* that gives x.                                                           *)
(***************************************************************************)
Hashed(u, wait, x) ==
  /\ EncE!IsUnit(unit[u])
  /\ e_state # wait => e_call # u /\ unit[u].fsm = "IDLE" /\ ~unit[u].done
  /\ e_state = wait =>
       /\ \/ e_call = u /\ unit[u].fsm = "IDLE" /\ ~unit[u].done
          \/ e_call # u /\ unit[u].fsm \in {"ABSORB", "SQUEEZE"} /\ ~unit[u].done
          \/ e_call # u /\ unit[u].fsm = "IDLE" /\ unit[u].done
       /\ (unit[u].fsm = "SQUEEZE" \/ unit[u].done) => unit[u].out = x

\* What G derives from the buffers.
EDerived == E!G(m_in, E!H(ek_in))

\* The top module: what it has hashed, of the buffers as they were at START.
EncapsTop ==
  /\ DOMAIN msg = E!Hashes
  /\ Hashed("sha256", "WAIT_H", E!H(msg["sha256"]))
  /\ Hashed("sha512", "WAIT_G", E!G(msg["sha512"][1], msg["sha512"][2]))
  /\ e_state # "IDLE" => e_used = <<ek_in, m_in>>
  /\ e_state \in {"START_H", "WAIT_H"} => msg["sha256"] = ek_in
  /\ e_state \in {"START_G", "WAIT_G"} => msg["sha512"] = <<m_in, E!H(ek_in)>>
  /\ e_state \in {"START_ENC", "WAIT_ENC", "DONE"} =>
       K_val = EDerived[1] /\ r_val = EDerived[2]

\* What the wires of the core carry while it runs.
EWires == [ek |-> ek_in, r |-> r_val, m |-> m_in, c |-> <<E!Low, E!Low, E!Low>>,
           z |-> E!Low, k |-> E!Low]

\* The core runs in WAIT_ENC only, from the edge after the call to its done.
EncapsCore ==
  /\ EncE!RestInv /\ EncE!ResultInv /\ EncE!ShapeInv
  /\ e_state # "WAIT_ENC" => b_state = "IDLE" /\ ~b_done /\ e_call # "encrypt"
  /\ e_state = "WAIT_ENC" =>
       /\ \E w : w = EWires /\ EncE!DataInv(w)
       /\ IF e_call = "encrypt" THEN b_state = "IDLE" /\ ~b_done ELSE b_state # "IDLE" \/ b_done
  /\ e_state = "DONE" => b_reg.c_prime = EncE!KpkeEncrypt(ek_in, m_in, r_val)

EncapsInv == /\ EncapsTop /\ EncapsCore /\ E!EncapsulationCorrect
             /\ e_done => e_state = "IDLE"

LEMMA EncryptIsOne ==
  ASSUME NEW ek, NEW m, NEW r
  PROVE  EncE!KpkeEncrypt(ek, m, r) = E!KpkeEncrypt(ek, m, r)
BY DEF EncE!KpkeEncrypt, E!KpkeEncrypt, EncE!K, E!K, EncE!Part, E!Part, EncE!NTT, E!NTT,
       EncE!SampleCBD, E!SampleCBD, EncE!SampleNTT, E!SampleNTT, EncE!Plus, E!Plus,
       EncE!InverseNTT, E!InverseNTT, EncE!Scale, E!Scale, EncE!Zero, E!Zero,
       EncE!Multiply, E!Multiply, EncE!ByteDecode, E!ByteDecode, EncE!Mu, E!Mu,
       EncE!ByteEncode, E!ByteEncode, EncE!Compress, E!Compress

LEMMA EncapsTopStep ==
  ASSUME EncapsTop, NEW go \in BOOLEAN, E!Clock(go)
  PROVE  EncapsTop'
<1>1. /\ e_state # "IDLE" => e_used' = e_used /\ UNCHANGED <<ek_in, m_in>>
      /\ e_state = "IDLE" /\ e_start => e_used' = <<ek_in, m_in>> /\ UNCHANGED <<ek_in, m_in>>
  BY DEF E!Clock, E!Ecu
<1>2. E!Fsm
  BY DEF E!Clock
<1>3. Hashed("sha256", "WAIT_H", E!H(msg["sha256"]))'
  <2> DEFINE r == unit["sha256"]  s == unit'["sha256"]
             x == IF r.fsm # "ABSORB" THEN Undefined ELSE E!H(msg["sha256"])
  <2>1. s = E!UnitAfter(r, e_call = "sha256", x, go)
    BY DEF E!Clock, E!UnitsEdge, E!Hashes
  <2>2. EncE!IsUnit(r)
    BY DEF EncapsTop, Hashed
  <2>3. r.fsm = "ABSORB" => x = E!H(msg["sha256"])
    OBVIOUS
  <2> HIDE DEF r, s, x
  <2>4. /\ EncE!IsUnit(s)
        /\ r.fsm = "IDLE" => s.fsm = (IF e_call = "sha256" THEN "ABSORB" ELSE "IDLE") /\ ~s.done
        /\ r.fsm = "ABSORB" => /\ s.fsm = (IF go THEN "SQUEEZE" ELSE "ABSORB") /\ s.done = r.done
                               /\ go => s.out = x
        /\ r.fsm = "SQUEEZE" => IF go THEN s.fsm = "IDLE" /\ s.done /\ s.out = r.out ELSE s = r
    BY <2>1, <2>2 DEF EncE!IsUnit, E!UnitAfter
  <2>5. CASE e_state = "WAIT_H"
    <3>1. \/ msg' = msg /\ e_state' = e_state /\ e_call' = "none" /\ ~r.done
          \/ r.done /\ e_state' = "START_G" /\ e_call' = "none"
      BY <1>2, <2>5 DEF r, E!Fsm, E!Begin, E!HashKey, E!DeriveSecret, E!Encrypt, E!Complete,
              E!Waiting, E!Goes, E!Kept
    <3> QED
      BY <2>3, <2>4, <2>5, <3>1 DEF EncapsTop, Hashed, r, s
  <2>6. CASE e_state # "WAIT_H"
    <3>1. \/ e_state = "START_H" /\ e_state' = "WAIT_H" /\ e_call' = "sha256"
          \/ e_state' # "WAIT_H" /\ e_call' # "sha256"
      BY <1>2, <2>6 DEF E!Fsm, E!Begin, E!HashKey, E!DeriveSecret, E!Encrypt, E!Complete,
              E!Waiting, E!Goes
    <3> QED
      BY <2>4, <2>6, <3>1 DEF EncapsTop, Hashed, r, s
  <2> QED
    BY <2>5, <2>6
<1>4. Hashed("sha512", "WAIT_G", E!G(msg["sha512"][1], msg["sha512"][2]))'
  <2> DEFINE r == unit["sha512"]  s == unit'["sha512"]
             x == IF r.fsm # "ABSORB" THEN Undefined
                  ELSE E!G(msg["sha512"][1], msg["sha512"][2])
  <2>1. s = E!UnitAfter(r, e_call = "sha512", x, go)
    BY DEF E!Clock, E!UnitsEdge, E!Hashes
  <2>2. EncE!IsUnit(r)
    BY DEF EncapsTop, Hashed
  <2>3. r.fsm = "ABSORB" => x = E!G(msg["sha512"][1], msg["sha512"][2])
    OBVIOUS
  <2> HIDE DEF r, s, x
  <2>4. /\ EncE!IsUnit(s)
        /\ r.fsm = "IDLE" => s.fsm = (IF e_call = "sha512" THEN "ABSORB" ELSE "IDLE") /\ ~s.done
        /\ r.fsm = "ABSORB" => /\ s.fsm = (IF go THEN "SQUEEZE" ELSE "ABSORB") /\ s.done = r.done
                               /\ go => s.out = x
        /\ r.fsm = "SQUEEZE" => IF go THEN s.fsm = "IDLE" /\ s.done /\ s.out = r.out ELSE s = r
    BY <2>1, <2>2 DEF EncE!IsUnit, E!UnitAfter
  <2>5. CASE e_state = "WAIT_G"
    <3>1. \/ msg' = msg /\ e_state' = e_state /\ e_call' = "none" /\ ~r.done
          \/ r.done /\ e_state' = "START_ENC" /\ e_call' = "none"
      BY <1>2, <2>5 DEF r, E!Fsm, E!Begin, E!HashKey, E!DeriveSecret, E!Encrypt, E!Complete,
              E!Waiting, E!Goes, E!Kept
    <3> QED
      BY <2>3, <2>4, <2>5, <3>1 DEF EncapsTop, Hashed, r, s
  <2>6. CASE e_state # "WAIT_G"
    <3>1. \/ e_state = "START_G" /\ e_state' = "WAIT_G" /\ e_call' = "sha512"
          \/ e_state' # "WAIT_G" /\ e_call' # "sha512"
      BY <1>2, <2>6 DEF E!Fsm, E!Begin, E!HashKey, E!DeriveSecret, E!Encrypt, E!Complete,
              E!Waiting, E!Goes
    <3> QED
      BY <2>4, <2>6, <3>1 DEF EncapsTop, Hashed, r, s
  <2> QED
    BY <2>5, <2>6
<1>5. /\ e_state' # "IDLE" => e_used' = <<ek_in, m_in>>' /\ UNCHANGED <<ek_in, m_in>>
      /\ DOMAIN msg' = E!Hashes
  BY <1>1, <1>2 DEF EncapsTop, E!Fsm, E!Begin, E!HashKey, E!DeriveSecret, E!Encrypt, E!Complete,
              E!Waiting, E!Goes, E!Kept
<1>6. e_state' \in {"START_H", "WAIT_H"} => msg'["sha256"] = ek_in'
  BY <1>2, <1>5 DEF EncapsTop, E!Fsm, E!Begin, E!HashKey, E!DeriveSecret, E!Encrypt, E!Complete,
              E!Waiting, E!Goes, E!Kept, E!Hashes
<1>7. e_state' \in {"START_G", "WAIT_G"} => msg'["sha512"] = <<m_in', E!H(ek_in')>>
  <2>1. CASE e_state = "WAIT_H" /\ e_state' = "START_G"
    <3>1. msg'["sha512"] = <<m_in, unit["sha256"].out>> /\ unit["sha256"].done
      BY <1>2, <2>1 DEF EncapsTop, E!Fsm, E!Begin, E!HashKey, E!DeriveSecret, E!Encrypt,
              E!Complete, E!Waiting, E!Goes, E!Kept, E!Hashes
    <3>2. unit["sha256"].out = E!H(ek_in)
      BY <2>1, <3>1 DEF EncapsTop, Hashed
    <3> QED
      BY <1>5, <2>1, <3>1, <3>2
  <2>2. CASE ~(e_state = "WAIT_H" /\ e_state' = "START_G") /\ e_state' \in {"START_G", "WAIT_G"}
    <3>1. msg' = msg /\ e_state \in {"START_G", "WAIT_G"}
      BY <1>2, <2>2 DEF E!Fsm, E!Begin, E!HashKey, E!DeriveSecret, E!Encrypt,
              E!Complete, E!Waiting, E!Goes, E!Kept
    <3> QED
      BY <1>5, <2>2, <3>1 DEF EncapsTop
  <2> QED
    BY <2>1, <2>2
<1>8. e_state' \in {"START_ENC", "WAIT_ENC", "DONE"} =>
        K_val' = EDerived[1]' /\ r_val' = EDerived[2]'
  <2>0. e_state' # "IDLE" => EDerived' = EDerived
    BY <1>5 DEF EDerived
  <2>1. CASE e_state = "WAIT_G" /\ e_state' = "START_ENC"
    <3>1. K_val' = unit["sha512"].out[1] /\ r_val' = unit["sha512"].out[2] /\ unit["sha512"].done
      BY <1>2, <2>1 DEF E!Fsm, E!Begin, E!HashKey, E!DeriveSecret, E!Encrypt,
              E!Complete, E!Waiting, E!Goes, E!Kept
    <3>2. unit["sha512"].out = EDerived
      BY <2>1, <3>1 DEF EncapsTop, Hashed, EDerived
    <3> QED
      BY <2>0, <2>1, <3>1, <3>2
  <2>2. CASE /\ ~(e_state = "WAIT_G" /\ e_state' = "START_ENC")
             /\ e_state' \in {"START_ENC", "WAIT_ENC", "DONE"}
    <3>1. K_val' = K_val /\ r_val' = r_val /\ e_state \in {"START_ENC", "WAIT_ENC", "DONE"}
      BY <1>2, <2>2 DEF E!Fsm, E!Begin, E!HashKey, E!DeriveSecret, E!Encrypt,
              E!Complete, E!Waiting, E!Goes, E!Kept
    <3> QED
      BY <2>0, <2>2, <3>1 DEF EncapsTop
  <2> QED
    BY <2>1, <2>2
<1> QED
  BY <1>3, <1>4, <1>5, <1>6, <1>7, <1>8 DEF EncapsTop

LEMMA EncapsCoreStep ==
  ASSUME EncapsTop, EncapsCore, NEW go \in BOOLEAN, E!Clock(go)
  PROVE  EncapsCore'
<1> USE SizeAssumption DEF EncE!SizeAssumption
<1>1. EncE!Clock(go) /\ EncE!Fsm
  BY EncapsInstanceClock DEF E!Clock, EncE!Clock
<1>2. E!Fsm /\ (e_state # "IDLE" => UNCHANGED <<ek_in, m_in>>)
  BY DEF E!Clock, E!Ecu
<1>3. EncE!RestInv /\ EncE!ResultInv /\ EncE!ShapeInv /\ EncE!CallInv
  BY DEF EncapsCore, EncE!RestInv
<1>4. EncE!RestInv' /\ EncE!ResultInv' /\ EncE!ShapeInv'
  BY <1>1, <1>3, EncE!RestStep, EncE!ResultStep, EncE!ShapeStep
<1>5. ASSUME b_state = "IDLE", e_call # "encrypt"
      PROVE  b_reg' = b_reg /\ b_state' = "IDLE" /\ ~b_done'
  BY <1>1, <1>5, EncE!RegistersStay
<1>6. CASE e_state \notin {"START_ENC", "WAIT_ENC", "DONE"}
  <2>1. e_state' \notin {"WAIT_ENC", "DONE"} /\ e_call' # "encrypt"
    BY <1>2, <1>6 DEF E!Fsm, E!Begin, E!HashKey, E!DeriveSecret, E!Encrypt,
            E!Complete, E!Waiting, E!Goes
  <2>2. b_state = "IDLE" /\ e_call # "encrypt"
    BY <1>6 DEF EncapsCore
  <2> QED
    BY <1>4, <1>5, <2>1, <2>2 DEF EncapsCore
<1>7. CASE e_state = "START_ENC"
  <2>1. e_state' = "WAIT_ENC" /\ e_call' = "encrypt"
    BY <1>2, <1>7 DEF E!Fsm, E!Begin, E!HashKey, E!DeriveSecret, E!Encrypt,
            E!Complete, E!Waiting, E!Goes
  <2>2. b_state' = "IDLE" /\ ~b_done'
    BY <1>5, <1>7 DEF EncapsCore
  <2>3. (\E w : w = EWires /\ EncE!DataInv(w))'
    <3>1. PICK w : w = EWires'
      OBVIOUS
    <3>2. EncE!DataInv(w)'
      BY <1>4, <2>2 DEF EncE!DataInv, EncE!PhaseInv, EncE!StartInv, EncE!SampleInv, EncE!DrawInv,
         EncE!ForwardInv, EncE!MultiplyUInv, EncE!MultiplyVInv, EncE!InvertUInv,
         EncE!InvertVInv, EncE!DecodeInv, EncE!AddInv, EncE!EncodeInv, EncE!ChooseInv,
         EncE!EndInv, EncE!Sampling, EncE!Drawing, EncE!Forwarding, EncE!MultiplyingU,
         EncE!MultiplyingV, EncE!InvertingU, EncE!InvertingV, EncE!DecodingMu, EncE!Adding,
         EncE!Encoding, EncE!Choosing
    <3> QED
      BY <3>1, <3>2
  <2> QED
    BY <1>4, <2>1, <2>2, <2>3 DEF EncapsCore
<1>8. CASE e_state = "WAIT_ENC"
  <2>1. PICK w : w = EWires /\ EncE!DataInv(w)
    BY <1>8 DEF EncapsCore
  <2>2. EncE!WiresAre(w)
    BY <2>1 DEF EncE!WiresAre, EWires
  <2>3. EncE!DataInv(w)'
    BY <1>1, <1>3, <2>1, <2>2, EncE!DataStep
  <2>4. CASE b_done
    <3>1. e_state' = "DONE" /\ e_call' = "none" /\ r_val' = r_val
      BY <1>2, <1>8, <2>4 DEF E!Fsm, E!Begin, E!HashKey, E!DeriveSecret, E!Encrypt,
            E!Complete, E!Waiting, E!Goes, E!Kept
    <3>2. b_state = "IDLE" /\ EncE!Encrypted(w)
      BY <2>1, <2>4 DEF EncE!DataInv, EncE!PhaseInv, EncE!EndInv
    <3>3. b_reg.c_prime = EncE!KpkeEncrypt(ek_in, m_in, r_val)
      BY <2>1, <3>2 DEF EncE!Encrypted, EWires
    <3>4. e_call # "encrypt"
      BY <1>8, <2>4 DEF EncapsCore
    <3>5. b_reg' = b_reg /\ b_state' = "IDLE" /\ ~b_done'
      BY <1>5, <3>2, <3>4
    <3> QED
      BY <1>2, <1>4, <1>8, <3>1, <3>3, <3>5 DEF EncapsCore
  <2>5. CASE ~b_done
    <3>1. e_state' = "WAIT_ENC" /\ e_call' = "none" /\ r_val' = r_val
      BY <1>2, <1>8, <2>5 DEF E!Fsm, E!Begin, E!HashKey, E!DeriveSecret, E!Encrypt,
            E!Complete, E!Waiting, E!Goes, E!Kept
    <3>2. b_state' # "IDLE" \/ b_done'
      <4>1. e_call = "encrypt" \/ b_state # "IDLE"
        BY <1>8, <2>5 DEF EncapsCore
      <4> QED
        BY <1>1, <4>1, EncE!RunGoesOn
    <3>3. EWires' = EWires
      BY <1>2, <1>8, <3>1 DEF EWires
    <3> QED
      BY <1>4, <2>1, <2>3, <3>1, <3>2, <3>3 DEF EncapsCore
  <2> QED
    BY <2>4, <2>5
<1>9. CASE e_state = "DONE"
  <2>1. e_state' = "IDLE" /\ e_call' = "none"
    BY <1>2, <1>9 DEF E!Fsm, E!Begin, E!HashKey, E!DeriveSecret, E!Encrypt,
            E!Complete, E!Waiting, E!Goes, E!Kept
  <2>2. b_state' = "IDLE" /\ ~b_done'
    BY <1>5, <1>9 DEF EncapsCore
  <2> QED
    BY <1>4, <2>1, <2>2 DEF EncapsCore
<1> QED
  BY <1>6, <1>7, <1>8, <1>9

LEMMA EncapsStepData ==
  ASSUME EncapsInv, E!Reset \/ \E go \in BOOLEAN : E!Clock(go)
  PROVE  EncapsInv'
<1> USE SizeAssumption DEF EncE!SizeAssumption
<1>1. ASSUME NEW go \in BOOLEAN, E!Clock(go) PROVE EncapsInv'
  <2>1. EncapsTop' /\ EncapsCore'
    BY <1>1, EncapsTopStep, EncapsCoreStep DEF EncapsInv
  <2>2. E!Fsm
    BY <1>1 DEF E!Clock
  <2>3. e_done' => e_state = "DONE" /\ e_state' = "IDLE" /\ UNCHANGED <<K_val, r_val>>
    BY <2>2 DEF E!Fsm, E!Begin, E!HashKey, E!DeriveSecret, E!Encrypt,
            E!Complete, E!Waiting, E!Goes, E!Kept
  <2>4. ASSUME e_done' PROVE E!EncapsulationCorrect'
    <3>1. e_used' = <<ek_in, m_in>>
      BY <1>1, <2>3, <2>4 DEF E!Clock, E!Ecu, EncapsInv, EncapsTop
    <3>2. /\ b_state = "IDLE" /\ e_call # "encrypt"
          /\ b_reg.c_prime = EncE!KpkeEncrypt(ek_in, m_in, r_val)
          /\ K_val = EDerived[1] /\ r_val = EDerived[2]
      BY <2>3, <2>4 DEF EncapsInv, EncapsTop, EncapsCore
    <3>3. b_reg' = b_reg
      <4>1. EncE!Fsm
        BY <1>1, EncapsInstanceClock DEF E!Clock, EncE!Clock
      <4> QED
        BY <3>2, <4>1, EncE!RegistersStay
    <3>4. K_val' = EDerived[1] /\ b_reg'.c_prime = E!KpkeEncrypt(ek_in, m_in, EDerived[2])
      BY <2>3, <2>4, <3>2, <3>3, EncryptIsOne
    <3>5. e_used'[1] = ek_in /\ e_used'[2] = m_in
      BY <3>1
    <3> QED
      BY <3>4, <3>5 DEF E!EncapsulationCorrect, E!Encapsulated, EDerived
  <2> QED
    BY <2>1, <2>3, <2>4 DEF EncapsInv, E!EncapsulationCorrect
<1>2. CASE E!Reset
  <2>1. EncE!Reset
    BY <1>2, EncapsInstanceReset DEF E!Reset
  <2>2. EncE!RestInv' /\ EncE!ResultInv' /\ EncE!ShapeInv'
    BY <2>1, EncE!RestStep, EncE!ShapeReset DEF EncapsInv, EncapsCore
  <2>3. b_state' = "IDLE" /\ ~b_done'
    BY <2>1 DEF EncE!Reset, EncE!Quiet
  <2>4. e_state' = "IDLE" /\ e_call' = "none" /\ ~e_done' /\ msg' = msg
    BY <1>2 DEF E!Reset, E!Goes, E!Kept
  <2>5. ASSUME NEW u \in E!Hashes, EncE!IsUnit(unit[u])
        PROVE  EncE!IsUnit(unit'[u]) /\ unit'[u].fsm = "IDLE" /\ ~unit'[u].done
    <3>1. unit'[u] = E!UnitReset(unit[u])
      BY <1>2, <2>5 DEF E!Reset
    <3> QED
      BY <2>5, <3>1 DEF E!UnitReset, EncE!IsUnit
  <2>6. EncapsTop'
    BY <2>4, <2>5 DEF EncapsInv, EncapsTop, Hashed, E!Hashes
  <2> QED
    BY <2>2, <2>3, <2>4, <2>6 DEF EncapsInv, EncapsCore, E!EncapsulationCorrect
<1> QED
  BY <1>1, <1>2

LEMMA EncapsDataInit == E!Init => EncapsInv
<1> SUFFICES ASSUME E!Init PROVE EncapsInv
  OBVIOUS
<1> USE SizeAssumption DEF EncE!SizeAssumption
<1>1. EncE!Init
  BY EncapsInstanceInit DEF E!Init
<1>2. EncE!RestInv /\ EncE!ResultInv /\ EncE!ShapeInv /\ b_state = "IDLE" /\ ~b_done
  BY <1>1, EncE!RestInit, EncE!ShapeInit DEF EncE!Init
<1>3. EncapsTop
  BY DEF E!Init, EncapsTop, Hashed, EncE!IsUnit, E!IdleUnit, E!Hashes
<1> QED
  BY <1>2, <1>3 DEF E!Init, EncapsInv, EncapsCore, E!EncapsulationCorrect

-----------------------------------------------------------------------------
(***************************************************************************)
(* The decryption core.  As in the encryption core, the unit runs in its   *)
(* wait state only, and the NTT core in the wait states of the schedules.  *)
(***************************************************************************)
ACallInv ==
  /\ DecE!IsUnit(a_unit) /\ a_call \in BOOLEAN
  /\ a_state # "WAIT_SHA512" => ~a_call /\ a_unit.fsm = "IDLE" /\ ~a_unit.done
  /\ a_state = "WAIT_SHA512" =>
       /\ \/ a_call /\ a_unit.fsm = "IDLE" /\ ~a_unit.done
          \/ ~a_call /\ a_unit.fsm \in {"ABSORB", "SQUEEZE"} /\ ~a_unit.done
          \/ ~a_call /\ a_unit.fsm = "IDLE" /\ a_unit.done
       /\ (a_unit.fsm = "SQUEEZE" \/ a_unit.done) => a_unit.out = G(a_in[1], a_in[2])

ASetups == {"FWD_SCHED_SETUP", "INV_SCHED_SETUP"}
AStarts == {"FWD_SCHED_START", "INV_SCHED_START"}
AWaits  == {"FWD_SCHED_WAIT", "INV_SCHED_WAIT"}
AReads  == {"FWD_READ", "INV_READ"}

AStageInv ==
  /\ a_state \in AWaits => \/ a_drive.start /\ a_ntt.fsm = "IDLE" /\ ~a_ntt.stage_done
                           \/ ~a_drive.start /\ a_ntt.fsm = "RUN" /\ ~a_ntt.stage_done
                           \/ ~a_drive.start /\ a_ntt.fsm = "DONE" /\ a_ntt.stage_done
  /\ a_state \notin AWaits =>
       /\ ~a_drive.start /\ a_ntt.fsm = "IDLE"
       /\ a_ntt.stage_done => a_state \in ASetups \cup AReads
  /\ a_state \in AStarts \cup AWaits => ~a_drive.load

ARegisters == {"c", "dkPKE", "decompU_in", "decompV_in", "u_prime", "v_prime", "s_hat", "u_hat",
               "acc", "inner_raw", "inner", "w", "c1_x_in", "m_bits", "K_prime", "r_prime"}

\* The registers filled coefficient by coefficient keep their indices.
AShapeInv ==
  /\ DOMAIN a_reg = ARegisters
  /\ DecE!IsOver(a_reg.u_hat, DecE!Vec)
  /\ \A i \in DecE!Vec : DecE!IsOver(a_reg.u_hat[i], DecE!Indices)
  /\ DecE!IsOver(a_reg.inner_raw, DecE!Indices) /\ DecE!IsOver(a_reg.m_bits, DecE!Indices)
  /\ DOMAIN a_ctr = {"fwd", "mi", "bit"}
  /\ DOMAIN a_ntt = {"fsm", "bank", "stage_done", "read_valid", "read_data"}
  /\ DecE!Shape(a_idx, a_drive, a_ntt.bank)

ARestInv == ACallInv /\ AStageInv /\ AShapeInv

\* The edge of the FSM at the unit and at the NTT core.
AFsmToUnit ==
  /\ a_state = "START_SHA512" => a_call' = TRUE /\ a_state' = "WAIT_SHA512"
  /\ a_state # "START_SHA512" => a_call' = FALSE /\ a_in' = a_in
  /\ a_state = "WAIT_SHA512" => (a_state' = a_state <=> ~a_unit.done)
  /\ a_state \notin {"START_SHA512", "WAIT_SHA512"} => a_state' # "WAIT_SHA512"

APassing == {"FWD_LOAD", "FWD_SCHED_SETUP", "FWD_SCHED_START", "FWD_SCHED_WAIT", "FWD_READ",
             "FWD_READ_WAIT", "INV_LOAD", "INV_SCHED_SETUP", "INV_SCHED_START",
             "INV_SCHED_WAIT", "INV_READ", "INV_READ_WAIT"}

LEMMA APassKeeps ==
  ASSUME decaps_a!Transform \/ decaps_a!Invert
  PROVE  /\ a_state \in APassing /\ a_state' \in APassing \cup {"FWD_NEXT", "SCALE"}
         /\ decaps_a!Quiet
<1>1. CASE decaps_a!Transform
  BY <1>1 DEF decaps_a!Transform, APassing, decaps_a!Quiet, decaps_a!Transforms!Pass,
              decaps_a!Transforms!Load, decaps_a!Transforms!SetUp,
              decaps_a!Transforms!StartStage, decaps_a!Transforms!EndStage,
              decaps_a!Transforms!Fetch, decaps_a!Transforms!Take, decaps_a!Transforms!Wait,
              decaps_a!Transforms!Arrives, decaps_a!Transforms!FWD
<1>2. CASE decaps_a!Invert
  BY <1>2 DEF decaps_a!Invert, APassing, decaps_a!Quiet, decaps_a!Transforms!Pass,
              decaps_a!Transforms!Load, decaps_a!Transforms!SetUp,
              decaps_a!Transforms!StartStage, decaps_a!Transforms!EndStage,
              decaps_a!Transforms!Fetch, decaps_a!Transforms!Take, decaps_a!Transforms!Wait,
              decaps_a!Transforms!Arrives, decaps_a!Transforms!INV
<1> QED
  BY <1>1, <1>2

LEMMA AFsmUnit ==
  ASSUME decaps_a!Fsm
  PROVE  AFsmToUnit
<1> USE DEF AFsmToUnit, decaps_a!Stores, decaps_a!Quiet
<1>1. CASE decaps_a!Begin \/ decaps_a!Complete \/ decaps_a!Waiting
  BY <1>1 DEF decaps_a!Begin, decaps_a!Complete, decaps_a!Waiting
<1>2. CASE decaps_a!FirstTransform \/ decaps_a!NextTransform \/ decaps_a!LastProduct
  BY <1>2 DEF decaps_a!FirstTransform, decaps_a!NextTransform, decaps_a!LastProduct
<1>3. CASE decaps_a!Transform \/ decaps_a!Invert
  BY <1>3, APassKeeps DEF APassing
<1>4. CASE decaps_a!MultiplyVectors
  BY <1>4 DEF decaps_a!MultiplyVectors
<1>5. CASE decaps_a!EncodeMessage
  BY <1>5 DEF decaps_a!EncodeMessage
<1>6. CASE decaps_a!DeriveSecret
  BY <1>6 DEF decaps_a!DeriveSecret
<1> QED
  BY <1>1, <1>2, <1>3, <1>4, <1>5, <1>6 DEF decaps_a!Fsm

LEMMA ACallStep ==
  ASSUME ACallInv, NEW go \in BOOLEAN, decaps_a!Clock(go)
  PROVE  ACallInv'
<1>1. AFsmToUnit
  BY AFsmUnit DEF decaps_a!Clock
<1> DEFINE x == IF a_unit.fsm = "ABSORB" THEN decaps_a!G(a_in[1], a_in[2]) ELSE Undefined
<1>2. a_unit' = decaps_a!UnitAfter(a_unit, a_call, x, go)
  BY DEF decaps_a!Clock
<1>3. a_unit.fsm = "ABSORB" => x = G(a_in[1], a_in[2])
  BY DEF decaps_a!G, G
<1> HIDE DEF x
<1>4. /\ DecE!IsUnit(a_unit')
      /\ a_unit.fsm = "IDLE" => a_unit'.fsm = (IF a_call THEN "ABSORB" ELSE "IDLE") /\ ~a_unit'.done
      /\ a_unit.fsm = "ABSORB" => /\ a_unit'.fsm = (IF go THEN "SQUEEZE" ELSE "ABSORB")
                                  /\ a_unit'.done = a_unit.done
                                  /\ go => a_unit'.out = x
      /\ a_unit.fsm = "SQUEEZE" =>
           IF go THEN a_unit'.fsm = "IDLE" /\ a_unit'.done /\ a_unit'.out = a_unit.out
           ELSE a_unit' = a_unit
  BY <1>2 DEF DecE!IsUnit, decaps_a!UnitAfter, ACallInv
<1>5. CASE a_state = "WAIT_SHA512"
  BY <1>1, <1>3, <1>4, <1>5 DEF ACallInv, AFsmToUnit
<1>6. CASE a_state # "WAIT_SHA512"
  BY <1>1, <1>4, <1>6 DEF ACallInv, AFsmToUnit
<1> QED
  BY <1>5, <1>6

AFsmToStage ==
  /\ a_state \in AStarts => a_drive'.start /\ a_state' \in AWaits /\ ~a_drive'.load
  /\ a_state \notin AStarts => ~a_drive'.start
  /\ a_state \in AWaits =>
       /\ ~a_drive'.load
       /\ IF a_ntt.stage_done THEN a_state' \in ASetups \cup AReads ELSE a_state' = a_state
  /\ a_state \notin AStarts \cup AWaits => a_state' \notin AWaits
  /\ a_state \in ASetups => ~a_drive'.load
  /\ a_state \notin ASetups => a_state' \notin AStarts

LEMMA AFsmStage ==
  ASSUME decaps_a!Fsm, {"start", "load"} \subseteq DOMAIN a_drive
  PROVE  AFsmToStage
<1> USE DEF AFsmToStage, decaps_a!Stores, ASetups, AStarts, AWaits, AReads,
            decaps_a!Transforms!Low
<1>1. CASE decaps_a!Begin \/ decaps_a!Complete \/ decaps_a!Waiting
  BY <1>1 DEF decaps_a!Begin, decaps_a!Complete, decaps_a!Waiting
<1>2. CASE decaps_a!FirstTransform \/ decaps_a!NextTransform \/ decaps_a!LastProduct
  BY <1>2 DEF decaps_a!FirstTransform, decaps_a!NextTransform, decaps_a!LastProduct
<1>3. CASE decaps_a!Transform
  BY <1>3 DEF decaps_a!Transform, decaps_a!Transforms!Pass, decaps_a!Transforms!Load,
              decaps_a!Transforms!SetUp, decaps_a!Transforms!StartStage,
              decaps_a!Transforms!EndStage, decaps_a!Transforms!Fetch,
              decaps_a!Transforms!Take, decaps_a!Transforms!Wait,
              decaps_a!Transforms!Arrives, decaps_a!Transforms!FWD
<1>4. CASE decaps_a!Invert
  BY <1>4 DEF decaps_a!Invert, decaps_a!Transforms!Pass, decaps_a!Transforms!Load,
              decaps_a!Transforms!SetUp, decaps_a!Transforms!StartStage,
              decaps_a!Transforms!EndStage, decaps_a!Transforms!Fetch,
              decaps_a!Transforms!Take, decaps_a!Transforms!Wait,
              decaps_a!Transforms!Arrives, decaps_a!Transforms!INV
<1>5. CASE decaps_a!MultiplyVectors
  BY <1>5 DEF decaps_a!MultiplyVectors
<1>6. CASE decaps_a!EncodeMessage
  BY <1>6 DEF decaps_a!EncodeMessage
<1>7. CASE decaps_a!DeriveSecret
  BY <1>7 DEF decaps_a!DeriveSecret
<1> QED
  BY <1>1, <1>2, <1>3, <1>4, <1>5, <1>6, <1>7 DEF decaps_a!Fsm

LEMMA AStageStep ==
  ASSUME AStageInv, AShapeInv, NEW go \in BOOLEAN, decaps_a!Clock(go)
  PROVE  AStageInv'
<1>0. {"start", "load"} \subseteq DOMAIN a_drive
  BY DEF AShapeInv, DecE!Shape
<1>1. AFsmToStage
  BY <1>0, AFsmStage DEF decaps_a!Clock
<1>2. /\ a_ntt'.fsm = CASE a_ntt.fsm = "IDLE" -> IF a_drive.start THEN "RUN" ELSE "IDLE"
                        [] a_ntt.fsm = "RUN"  -> IF go THEN "DONE" ELSE "RUN"
                        [] OTHER              -> "IDLE"
      /\ a_ntt'.stage_done = ((a_ntt.fsm = "RUN" /\ go) \/ a_ntt.fsm = "DONE")
  BY DEF decaps_a!Clock, decaps_a!Transforms!NttEdge
<1>3. CASE a_state \in AWaits
  BY <1>1, <1>2, <1>3 DEF AStageInv, AFsmToStage, ASetups, AStarts, AWaits, AReads
<1>4. CASE a_state \notin AWaits
  BY <1>1, <1>2, <1>4 DEF AStageInv, AFsmToStage
<1> QED
  BY <1>3, <1>4

\* The operators of the core's own instance of KemTerms and NttPass.
LEMMA ATermsAreOne ==
  /\ decaps_a!K = K /\ decaps_a!Vec = Vec /\ DecE!Vec = Vec /\ DecE!Indices = Indices
  /\ decaps_a!Indices = Indices
  /\ \A o, e, f, c : decaps_a!Coefficient(o, e, f, c) = DecE!Coefficient(o, e, f, c)
  /\ \A o, e, f, c : Coefficient(o, e, f, c) = DecE!Coefficient(o, e, f, c)
  /\ \A o, e, f : Poly(o, e, f) = DecE!Poly(o, e, f)
  /\ \A p : decaps_a!Gather(p) = DecE!Gather(p)
BY DEF decaps_a!K, K, decaps_a!Vec, Vec, DecE!Vec, DecE!K, decaps_a!Indices, Indices, DecE!Indices,
       decaps_a!Coefficient, DecE!Coefficient, Coefficient, Poly, DecE!Poly, decaps_a!Poly,
       decaps_a!Gather, DecE!Gather

AWrites(r, r1, X) == DOMAIN r1 = ARegisters /\ \A x \in ARegisters \ X : r1[x] = r[x]

\* The edge of the NTT core, on its values.
LEMMA ANttIsMoves ==
  ASSUME NEW go \in BOOLEAN, decaps_a!Clock(go), AShapeInv
  PROVE  /\ DecE!NttMoves(a_drive, a_ntt, a_ntt', go)
         /\ a_ntt'.read_valid = decaps_a!Reading
         /\ decaps_a!Reading => a_ntt'.read_data = a_ntt.bank[a_idx.read]
         /\ DOMAIN a_ntt' = DOMAIN a_ntt
<1>1. decaps_a!Transforms!NttEdge(decaps_a!Reading, a_idx.read, go)
  BY DEF decaps_a!Clock
<1> QED
  BY <1>1 DEF AShapeInv, decaps_a!Transforms!NttEdge, decaps_a!Transforms!Written,
       DecE!NttMoves, DecE!Pending, DecE!Stage, decaps_a!Transforms!Stage, DecE!Loaded, DecE!Poly,
       decaps_a!Transforms!Loaded, decaps_a!Transforms!Poly, DecE!Indices,
       decaps_a!Transforms!Indices, DecE!Coefficient, decaps_a!Transforms!Coefficient

LEMMA AArraysStep ==
  ASSUME AShapeInv, decaps_a!Fsm
  PROVE  /\ DOMAIN a_reg' = ARegisters /\ DOMAIN a_ctr' = DOMAIN a_ctr
         /\ DecE!IsOver(a_reg'.u_hat, DecE!Vec)
         /\ \A i \in DecE!Vec : DecE!IsOver(a_reg'.u_hat[i], DecE!Indices)
         /\ DecE!IsOver(a_reg'.inner_raw, DecE!Indices) /\ DecE!IsOver(a_reg'.m_bits, DecE!Indices)
         /\ DecE!IsDrive(a_drive') /\ DecE!IsIdx(a_idx')
<1> USE DEF decaps_a!Stores
<1>0. DOMAIN a_reg = ARegisters
  BY DEF AShapeInv
<1>1. /\ DOMAIN a_reg' = ARegisters
      /\ a_reg'.u_hat = a_reg.u_hat
           \/ a_reg'.u_hat = DecE!Put(a_reg.u_hat, a_ctr.fwd, a_idx.read, a_ntt.read_data)
      /\ a_reg'.inner_raw = a_reg.inner_raw
           \/ a_reg'.inner_raw = [a_reg.inner_raw EXCEPT ![a_idx.read] = a_ntt.read_data]
      /\ a_reg'.m_bits = a_reg.m_bits
           \/ a_reg'.m_bits = [a_reg.m_bits EXCEPT ![a_ctr.bit] = a_reg.c1_x_in]
  <2>1. CASE decaps_a!Begin \/ decaps_a!FirstTransform
    BY <1>0, <2>1 DEF decaps_a!Begin, decaps_a!FirstTransform, ARegisters
  <2>2. CASE decaps_a!Transform
    BY <1>0, <2>2 DEF decaps_a!Transform, ARegisters, DecE!Put
  <2>3. CASE decaps_a!Invert
    BY <1>0, <2>3 DEF decaps_a!Invert, ARegisters
  <2>4. CASE decaps_a!EncodeMessage
    BY <1>0, <2>4 DEF decaps_a!EncodeMessage, ARegisters
  <2>5. CASE decaps_a!NextTransform \/ decaps_a!MultiplyVectors \/ decaps_a!LastProduct
    BY <1>0, <2>5 DEF decaps_a!NextTransform, decaps_a!MultiplyVectors, decaps_a!LastProduct,
                      ARegisters
  <2>6. CASE decaps_a!DeriveSecret \/ decaps_a!Complete \/ decaps_a!Waiting
    BY <1>0, <2>6 DEF decaps_a!DeriveSecret, decaps_a!Complete, decaps_a!Waiting, ARegisters
  <2> QED
    BY <2>1, <2>2, <2>3, <2>4, <2>5, <2>6 DEF decaps_a!Fsm
<1>2. /\ DecE!IsOver(a_reg'.u_hat, DecE!Vec)
      /\ \A i \in DecE!Vec : DecE!IsOver(a_reg'.u_hat[i], DecE!Indices)
  <2> DEFINE g == DecE!Put(a_reg.u_hat, a_ctr.fwd, a_idx.read, a_ntt.read_data)
  <2>1. DecE!IsOver(g, DecE!Vec) /\ \A i \in DecE!Vec : DecE!IsOver(g[i], DecE!Indices)
    BY DecE!StoreOverOver, SizeAssumption DEF AShapeInv, DecE!SizeAssumption
  <2> HIDE DEF g
  <2> QED
    BY <1>1, <2>1 DEF g, AShapeInv
<1>3. DecE!IsOver(a_reg'.inner_raw, DecE!Indices) /\ DecE!IsOver(a_reg'.m_bits, DecE!Indices)
  BY <1>1 DEF AShapeInv, DecE!IsOver
<1>4. DecE!IsDrive(a_drive') /\ DecE!IsIdx(a_idx') /\ DOMAIN a_ctr' = DOMAIN a_ctr
  <2> USE DEF DecE!IsDrive, DecE!IsIdx, AShapeInv, DecE!Shape, decaps_a!Transforms!Low
  <2>2. CASE decaps_a!Transform
    BY <2>2 DEF decaps_a!Transform, decaps_a!Transforms!Pass, decaps_a!Transforms!Load,
                decaps_a!Transforms!SetUp, decaps_a!Transforms!StartStage,
                decaps_a!Transforms!EndStage, decaps_a!Transforms!Fetch,
                decaps_a!Transforms!Take, decaps_a!Transforms!Wait
  <2>3. CASE decaps_a!Invert
    BY <2>3 DEF decaps_a!Invert, decaps_a!Transforms!Pass, decaps_a!Transforms!Load,
                decaps_a!Transforms!SetUp, decaps_a!Transforms!StartStage,
                decaps_a!Transforms!EndStage, decaps_a!Transforms!Fetch,
                decaps_a!Transforms!Take, decaps_a!Transforms!Wait
  <2>4. ASSUME decaps_a!Begin \/ decaps_a!MultiplyVectors \/ decaps_a!EncodeMessage
                 \/ decaps_a!DeriveSecret \/ decaps_a!Complete \/ decaps_a!Waiting,
               UNCHANGED a_idx
        PROVE  DecE!IsDrive(a_drive') /\ DecE!IsIdx(a_idx') /\ DOMAIN a_ctr' = DOMAIN a_ctr
    BY <2>4 DEF decaps_a!Begin, decaps_a!MultiplyVectors, decaps_a!EncodeMessage,
                decaps_a!DeriveSecret, decaps_a!Complete, decaps_a!Waiting
  <2>5. CASE decaps_a!NextTransform \/ decaps_a!LastProduct
    BY <2>5 DEF decaps_a!NextTransform, decaps_a!LastProduct
  <2>6. CASE decaps_a!FirstTransform
    BY <2>6 DEF decaps_a!FirstTransform
  <2> QED
    BY <2>2, <2>3, <2>4, <2>5, <2>6 DEF decaps_a!Fsm
<1> QED
  BY <1>1, <1>2, <1>3, <1>4

LEMMA AShapeStep ==
  ASSUME AShapeInv, NEW go \in BOOLEAN, decaps_a!Clock(go)
  PROVE  AShapeInv'
<1>1. decaps_a!Fsm
  BY DEF decaps_a!Clock
<1>2. DecE!NttMoves(a_drive, a_ntt, a_ntt', go) /\ DOMAIN a_ntt' = DOMAIN a_ntt
  BY ANttIsMoves
<1>3. a_ntt'.bank = [c \in DecE!Indices |-> a_ntt'.bank[c]]
  <2> DEFINE b == IF a_ntt.fsm = "RUN" /\ go
                  THEN DecE!Stage(a_drive.op, a_drive.entry, a_ntt.bank) ELSE a_ntt.bank
  <2>1. b = [c \in DecE!Indices |-> b[c]]
    BY DEF DecE!Stage, DecE!Poly, DecE!Shape, AShapeInv
  <2>2. a_ntt'.bank = DecE!Pending(a_drive, b)
    BY <1>2 DEF DecE!NttMoves
  <2> HIDE DEF b
  <2> QED
    BY <2>1, <2>2 DEF DecE!Pending
<1> QED
  BY <1>1, <1>2, <1>3, AArraysStep DEF AShapeInv, DecE!Shape, DecE!IsDrive, DecE!IsIdx

-----------------------------------------------------------------------------
(***************************************************************************)
(* The data of the decryption core.  v is what its wires carry in a run:   *)
(* the ciphertext c, the decryption key sk and h = H(ek).                  *)
(***************************************************************************)
AWiresAre(v) == c_in = v.c /\ dk_in.pke = v.sk /\ dk_in.h = v.h

\* What Algorithm 15 makes of them, up to the n-th product of the sum.
UPrimeOf(v, i) == Decompress(10, ByteDecode(10, v.c[i + 1]))
VPrimeOf(v)    == Decompress(4, ByteDecode(4, v.c[3]))
SHatOf(v, i)   == ByteDecode(12, Part(v.sk, i))
ProductOf(v, i) == Multiply(SHatOf(v, i), NTT(UPrimeOf(v, i)))
SumOf(v, n) == CASE n = 0 -> Zero
                 [] n = 1 -> Plus(Zero, ProductOf(v, 0))
                 [] OTHER -> Plus(Plus(Zero, ProductOf(v, 0)), ProductOf(v, 1))
WOf(v) == Minus(VPrimeOf(v), InverseNTT(SumOf(v, K)))
MOf(v) == KpkeDecrypt(v.sk, v.c)

AForwarding == {"FWD_LOAD", "FWD_SCHED_SETUP", "FWD_SCHED_START", "FWD_SCHED_WAIT", "FWD_READ",
                "FWD_READ_WAIT", "FWD_NEXT"}
AInverting  == {"INV_LOAD", "INV_SCHED_SETUP", "INV_SCHED_START", "INV_SCHED_WAIT", "INV_READ",
                "INV_READ_WAIT"}
AEncoding   == {"ENCODE_M_SETUP", "ENCODE_M"}

AStartInv(v) ==
  /\ a_state = "DECODE_U_V" => a_reg.c = v.c /\ a_reg.dkPKE = v.sk
  /\ a_state = "DECODE_S" =>
       /\ \A i \in Vec : a_reg.decompU_in[i] = ByteDecode(10, v.c[i + 1])
       /\ a_reg.decompV_in = ByteDecode(4, v.c[3]) /\ a_reg.dkPKE = v.sk

AHasParts(v, r) ==
  r.v_prime = VPrimeOf(v) /\ \A i \in Vec : r.s_hat[i] = SHatOf(v, i)

AForwardInv(v) == a_state \in AForwarding =>
  /\ AHasParts(v, a_reg) /\ \A i \in Vec : a_reg.u_prime[i] = UPrimeOf(v, i)
  /\ a_ctr.fwd \in Vec
  /\ \A i \in Vec : i < a_ctr.fwd => a_reg.u_hat[i] = DecE!Poly("ntt", Entries, UPrimeOf(v, i))
  /\ DecE!PassInv(decaps_a!Transforms!FWD, UPrimeOf(v, a_ctr.fwd), "ntt", a_state, a_idx,
                  a_drive, a_ntt, a_reg.u_hat[a_ctr.fwd])
  /\ a_state = "FWD_NEXT" =>
       a_reg.u_hat[a_ctr.fwd] = DecE!Poly("ntt", Entries, UPrimeOf(v, a_ctr.fwd))

AMultiplyInv(v) == a_state = "MATMUL" =>
  /\ AHasParts(v, a_reg)
  /\ \A i \in Vec : a_reg.u_hat[i] = DecE!Poly("ntt", Entries, UPrimeOf(v, i))
  /\ a_ctr.mi \in Vec /\ a_reg.acc = SumOf(v, a_ctr.mi)

AInvertInv(v) ==
  /\ a_state \in AInverting =>
       /\ a_reg.v_prime = VPrimeOf(v) /\ a_reg.acc = SumOf(v, K)
       /\ DecE!PassInv(decaps_a!Transforms!INV, SumOf(v, K), "inverse", a_state, a_idx,
                       a_drive, a_ntt, a_reg.inner_raw)
  /\ a_state = "SCALE" => /\ a_reg.v_prime = VPrimeOf(v)
                          /\ a_reg.inner_raw = DecE!Poly("inverse", Entries, SumOf(v, K))
  /\ a_state = "SUB" => a_reg.v_prime = VPrimeOf(v) /\ a_reg.inner = InverseNTT(SumOf(v, K))

AEncodeInv(v) == a_state \in AEncoding =>
  /\ a_reg.w = WOf(v) /\ a_ctr.bit \in Indices
  /\ \A c \in Indices : c < a_ctr.bit => a_reg.m_bits[c] = DecE!Coefficient("bit", 0, WOf(v), c)
  /\ a_state = "ENCODE_M" => a_reg.c1_x_in = DecE!Coefficient("bit", 0, WOf(v), a_ctr.bit)

\* The message, and with it the secret and the coins, from DONE on.
Decrypted(v) ==
  /\ decaps_a!m_prime_out = MOf(v)
  /\ a_reg.K_prime = G(MOf(v), v.h)[1] /\ a_reg.r_prime = G(MOf(v), v.h)[2]

AEndInv(v) ==
  /\ a_state \in {"START_SHA512", "WAIT_SHA512"} => decaps_a!m_prime_out = MOf(v)
  /\ a_state = "WAIT_SHA512" => a_in = <<MOf(v), v.h>>
  /\ a_state = "DONE" \/ a_done => Decrypted(v)
  /\ a_done => a_state = "IDLE"

APhaseInv(v) == /\ AStartInv(v) /\ AForwardInv(v) /\ AMultiplyInv(v) /\ AInvertInv(v)
                /\ AEncodeInv(v) /\ AEndInv(v)

-----------------------------------------------------------------------------
LEMMA AForwardPass ==
  ASSUME ARestInv, NEW go \in BOOLEAN, decaps_a!Clock(go), decaps_a!Transform, NEW f,
         a_ctr.fwd \in Vec, f = a_reg.u_prime[a_ctr.fwd],
         DecE!PassInv(decaps_a!Transforms!FWD, f, "ntt", a_state, a_idx, a_drive, a_ntt,
                      a_reg.u_hat[a_ctr.fwd])
  PROVE  /\ a_state \in AForwarding \ {"FWD_NEXT"} /\ a_state' \in AForwarding
         /\ AWrites(a_reg, a_reg', {"u_hat"}) /\ a_ctr' = a_ctr /\ ~a_done'
         /\ \A i \in Vec : i # a_ctr.fwd => a_reg'.u_hat[i] = a_reg.u_hat[i]
         /\ DecE!PassInv(decaps_a!Transforms!FWD, f, "ntt", a_state', a_idx', a_drive', a_ntt',
                         a_reg'.u_hat[a_ctr.fwd])
         /\ a_state' = "FWD_NEXT" => a_reg'.u_hat[a_ctr.fwd] = DecE!Poly("ntt", Entries, f)
<1> DEFINE p == decaps_a!Transforms!FWD
           dest == a_reg.u_hat[a_ctr.fwd]  dest1 == a_reg'.u_hat[a_ctr.fwd]
<1>0. a_ctr' = a_ctr /\ ~a_done'
  BY DEF decaps_a!Transform, decaps_a!Quiet
<1>1. DecE!PassMoves(p, f, "ntt", "FWD_NEXT", a_state, a_idx, a_drive, a_ntt,
                     a_state', a_idx', a_drive')
  BY DEF decaps_a!Transform, decaps_a!Transforms!Pass, decaps_a!Transforms!Load,
         decaps_a!Transforms!SetUp, decaps_a!Transforms!StartStage,
         decaps_a!Transforms!EndStage, decaps_a!Transforms!Fetch, decaps_a!Transforms!Take,
         decaps_a!Transforms!Arrives, decaps_a!Transforms!Wait, decaps_a!Transforms!Low,
         DecE!PassMoves, DecE!Coefficient, decaps_a!Transforms!Coefficient
<1>2. a_state \in DecE!Passes(p) /\ a_state' \in DecE!Passes(p) \cup {"FWD_NEXT"}
  BY <1>1 DEF DecE!PassMoves, DecE!Passes
<1>3. DecE!Names(p, "FWD_NEXT")
  BY DEF DecE!Names, decaps_a!Transforms!FWD
<1>4. DecE!InPass(p, a_state, a_drive, a_ntt)
  BY <1>2 DEF ARestInv, AStageInv, DecE!InPass, DecE!Passes, decaps_a!Transforms!FWD, AWaits,
              ASetups, AReads
<1>5. /\ DecE!Shape(a_idx, a_drive, a_ntt.bank) /\ DOMAIN a_reg = ARegisters
      /\ DecE!IsOver(a_reg.u_hat, Vec) /\ DecE!IsOver(dest, DecE!Indices)
  BY ATermsAreOne DEF ARestInv, AShapeInv
<1>6. /\ DecE!NttMoves(a_drive, a_ntt, a_ntt', go)
      /\ a_state \in {p.read, p.fetched} =>
           a_ntt'.read_valid /\ a_ntt'.read_data = a_ntt.bank[a_idx.read]
  <2>1. a_state \in {p.read, p.fetched} => decaps_a!Reading
    BY DEF decaps_a!Reading
  <2> QED
    BY <2>1, ANttIsMoves DEF ARestInv
<1>7. /\ AWrites(a_reg, a_reg', {"u_hat"})
      /\ a_reg'.u_hat = IF a_state = p.fetched /\ a_ntt.read_valid
                        THEN DecE!Put(a_reg.u_hat, a_ctr.fwd, a_idx.read, a_ntt.read_data)
                        ELSE a_reg.u_hat
  BY <1>5 DEF decaps_a!Transform, decaps_a!Transforms!Arrives, AWrites, ARegisters, DecE!Put
<1>8. /\ dest1 = IF a_state = p.fetched /\ a_ntt.read_valid
                 THEN [dest EXCEPT ![a_idx.read] = a_ntt.read_data] ELSE dest
      /\ \A i \in Vec : i # a_ctr.fwd => a_reg'.u_hat[i] = a_reg.u_hat[i]
  BY <1>5, <1>7 DEF DecE!Put, DecE!IsOver
<1>10. a_state \in AForwarding \ {"FWD_NEXT"} /\ a_state' \in AForwarding
  BY <1>2 DEF DecE!Passes, AForwarding, decaps_a!Transforms!FWD
<1> HIDE DEF p, dest, dest1
<1>9. /\ DecE!PassInv(p, f, "ntt", a_state', a_idx', a_drive', a_ntt', dest1)
      /\ a_state' = "FWD_NEXT" => dest1 = DecE!Poly("ntt", Entries, f)
  <2>1. a_state \in {p.load, p.setup, p.start, p.wait, p.read, p.fetched}
    BY <1>2 DEF DecE!Passes
  <2>2. DecE!PassInv(p, f, "ntt", a_state, a_idx, a_drive, a_ntt, dest)
    BY DEF p, dest
  <2> QED
    BY <1>1, <1>3, <1>4, <1>5, <1>6, <1>8, <2>1, <2>2, DecE!PassKeepsInv, SizeAssumption
       DEF DecE!SizeAssumption
<1> QED
  BY <1>0, <1>7, <1>8, <1>9, <1>10 DEF p, dest1

LEMMA AInversePass ==
  ASSUME ARestInv, NEW go \in BOOLEAN, decaps_a!Clock(go), decaps_a!Invert, NEW f, f = a_reg.acc,
         DecE!PassInv(decaps_a!Transforms!INV, f, "inverse", a_state, a_idx, a_drive, a_ntt,
                      a_reg.inner_raw)
  PROVE  /\ a_state \in AInverting /\ a_state' \in AInverting \cup {"SCALE"}
         /\ AWrites(a_reg, a_reg', {"inner_raw"}) /\ a_ctr' = a_ctr /\ ~a_done'
         /\ DecE!PassInv(decaps_a!Transforms!INV, f, "inverse", a_state', a_idx', a_drive',
                         a_ntt', a_reg'.inner_raw)
         /\ a_state' = "SCALE" => a_reg'.inner_raw = DecE!Poly("inverse", Entries, f)
<1> DEFINE p == decaps_a!Transforms!INV  dest == a_reg.inner_raw  dest1 == a_reg'.inner_raw
<1>0. a_ctr' = a_ctr /\ ~a_done'
  BY DEF decaps_a!Invert, decaps_a!Quiet
<1>1. DecE!PassMoves(p, f, "inverse", "SCALE", a_state, a_idx, a_drive, a_ntt,
                     a_state', a_idx', a_drive')
  BY DEF decaps_a!Invert, decaps_a!Transforms!Pass, decaps_a!Transforms!Load,
         decaps_a!Transforms!SetUp, decaps_a!Transforms!StartStage,
         decaps_a!Transforms!EndStage, decaps_a!Transforms!Fetch, decaps_a!Transforms!Take,
         decaps_a!Transforms!Arrives, decaps_a!Transforms!Wait, decaps_a!Transforms!Low,
         DecE!PassMoves, DecE!Coefficient, decaps_a!Transforms!Coefficient
<1>2. a_state \in DecE!Passes(p) /\ a_state' \in DecE!Passes(p) \cup {"SCALE"}
  BY <1>1 DEF DecE!PassMoves, DecE!Passes
<1>3. DecE!Names(p, "SCALE")
  BY DEF DecE!Names, decaps_a!Transforms!INV
<1>4. DecE!InPass(p, a_state, a_drive, a_ntt)
  BY <1>2 DEF ARestInv, AStageInv, DecE!InPass, DecE!Passes, decaps_a!Transforms!INV, AWaits,
              ASetups, AReads
<1>5. /\ DecE!Shape(a_idx, a_drive, a_ntt.bank) /\ DOMAIN a_reg = ARegisters
      /\ DecE!IsOver(dest, DecE!Indices)
  BY DEF ARestInv, AShapeInv
<1>6. /\ DecE!NttMoves(a_drive, a_ntt, a_ntt', go)
      /\ a_state \in {p.read, p.fetched} =>
           a_ntt'.read_valid /\ a_ntt'.read_data = a_ntt.bank[a_idx.read]
  <2>1. a_state \in {p.read, p.fetched} => decaps_a!Reading
    BY DEF decaps_a!Reading
  <2> QED
    BY <2>1, ANttIsMoves DEF ARestInv
<1>7. /\ AWrites(a_reg, a_reg', {"inner_raw"})
      /\ dest1 = IF a_state = p.fetched /\ a_ntt.read_valid
                 THEN [dest EXCEPT ![a_idx.read] = a_ntt.read_data] ELSE dest
  BY <1>5 DEF decaps_a!Invert, decaps_a!Transforms!Arrives, AWrites, ARegisters
<1>10. a_state \in AInverting /\ a_state' \in AInverting \cup {"SCALE"}
  BY <1>2 DEF DecE!Passes, AInverting, decaps_a!Transforms!INV
<1> HIDE DEF p, dest, dest1
<1>9. /\ DecE!PassInv(p, f, "inverse", a_state', a_idx', a_drive', a_ntt', dest1)
      /\ a_state' = "SCALE" => dest1 = DecE!Poly("inverse", Entries, f)
  <2>1. a_state \in {p.load, p.setup, p.start, p.wait, p.read, p.fetched}
    BY <1>2 DEF DecE!Passes
  <2>2. DecE!PassInv(p, f, "inverse", a_state, a_idx, a_drive, a_ntt, dest)
    BY DEF p, dest
  <2> QED
    BY <1>1, <1>3, <1>4, <1>5, <1>6, <1>7, <2>1, <2>2, DecE!PassKeepsInv, SizeAssumption
       DEF DecE!SizeAssumption
<1> QED
  BY <1>0, <1>7, <1>9, <1>10 DEF p, dest1

LEMMA ABlocksAreOne ==
  /\ \A sk, c : decaps_a!Rounded(sk, c) = Rounded(sk, c)
  /\ \A ek, m, r : decaps_a!KpkeEncrypt(ek, m, r) = KpkeEncrypt(ek, m, r)
  /\ \A k : decaps_a!SecretKey(k) = SecretKey(k) /\ decaps_a!PublicKey(k) = PublicKey(k)
  /\ \A m, h : decaps_a!G(m, h) = G(m, h)
  /\ \A k : decaps_a!H(k) = H(k)
  /\ \A b : decaps_a!Gather(b) = Gather(b)
<1>1. \A sk, c : decaps_a!Rounded(sk, c) = Rounded(sk, c)
  BY DEF decaps_a!Rounded, Rounded, decaps_a!Decompress, Decompress, decaps_a!ByteDecode,
         ByteDecode, decaps_a!Part, Part, decaps_a!Minus, Minus, decaps_a!InverseNTT,
         InverseNTT, decaps_a!Plus, Plus, decaps_a!Zero, Zero, decaps_a!Multiply, Multiply,
         decaps_a!NTT, NTT, decaps_a!Scale, Scale
<1>2. \A ek, m, r : decaps_a!KpkeEncrypt(ek, m, r) = KpkeEncrypt(ek, m, r)
  BY DEF decaps_a!KpkeEncrypt, KpkeEncrypt, decaps_a!K, K, decaps_a!Part, Part, decaps_a!NTT,
         NTT, decaps_a!SampleCBD, SampleCBD, decaps_a!SampleNTT, SampleNTT, decaps_a!Plus, Plus,
         decaps_a!InverseNTT, InverseNTT, decaps_a!Scale, Scale, decaps_a!Zero, Zero,
         decaps_a!Multiply, Multiply, decaps_a!ByteDecode, ByteDecode, decaps_a!Mu, Mu,
         decaps_a!ByteEncode, ByteEncode, decaps_a!Compress, Compress
<1>3. \A k : decaps_a!SecretKey(k) = SecretKey(k) /\ decaps_a!PublicKey(k) = PublicKey(k)
  BY DEF decaps_a!SecretKey, SecretKey, decaps_a!PublicKey, PublicKey, decaps_a!H, H
<1>4. (\A m, h : decaps_a!G(m, h) = G(m, h)) /\ (\A k : decaps_a!H(k) = H(k))
  BY DEF decaps_a!G, G, decaps_a!H, H
<1>5. \A b : decaps_a!Gather(b) = Gather(b)
  BY DEF decaps_a!Gather, Gather, decaps_a!Poly, Poly, decaps_a!Indices, Indices,
         decaps_a!Coefficient, Coefficient
<1> QED
  BY <1>1, <1>2, <1>3, <1>4, <1>5

LEMMA AMessageIsOne == ASSUME NEW b PROVE decaps_a!Message(b) = Message(b)
<1> DEFINE Coins  == {G(n, H(PublicKey(l)))[2] : n \in Messages, l \in Keys}
           ACoins == {decaps_a!G(n, decaps_a!H(decaps_a!PublicKey(l)))[2] :
                        n \in Messages, l \in Keys}
           Of(k, m, r)  == [of |-> Rounded(SecretKey(k).pke, KpkeEncrypt(PublicKey(k), m, r)),
                            m |-> m]
           AOf(k, m, r) == [of |-> decaps_a!Rounded(decaps_a!SecretKey(k).pke,
                                     decaps_a!KpkeEncrypt(decaps_a!PublicKey(k), m, r)),
                            m |-> m]
           Known(w, D) == {d \in D : w = <<"bit", 0, d.of>>}
           Pick(w, D)  == IF Known(w, D) = {} THEN Mixed ELSE (CHOOSE d \in Known(w, D) : TRUE).m
<1>1. (\A r : r \in ACoins <=> r \in Coins) /\ \A k, m, r : AOf(k, m, r) = Of(k, m, r)
  BY ABlocksAreOne
<1>2. \A d : d \in decaps_a!Decryptions
               <=> \E k \in Keys, m \in Messages, r \in ACoins : d = AOf(k, m, r)
  BY DEF decaps_a!Decryptions
<1>3. \A d : d \in Decryptions <=> \E k \in Keys, m \in Messages, r \in Coins : d = Of(k, m, r)
  BY DEF Decryptions
<1>4. decaps_a!Message(b) = Pick(decaps_a!Gather(b), decaps_a!Decryptions)
  BY DEF decaps_a!Message
<1>5. Message(b) = Pick(Gather(b), Decryptions)
  BY DEF Message
<1> HIDE DEF Pick, Coins, ACoins, Of, AOf
<1>6. \A d : d \in decaps_a!Decryptions <=> d \in Decryptions
  BY <1>1, <1>2, <1>3
<1>7. decaps_a!Decryptions = Decryptions
  BY <1>6
<1> QED
  BY <1>4, <1>5, <1>7, ABlocksAreOne

LEMMA ARoundedIs == ASSUME NEW v PROVE WOf(v) = Rounded(v.sk, v.c)
<1>1. SumOf(v, K) = Plus(Plus(Zero, ProductOf(v, 0)), ProductOf(v, 1))
  BY DEF SumOf, K
<1> QED
  BY <1>1, Zenon DEF WOf, Rounded, ProductOf, SHatOf, UPrimeOf, VPrimeOf

LEMMA ASumsGrow ==
  ASSUME NEW v, NEW n \in Vec
  PROVE  SumOf(v, 0) = Zero /\ SumOf(v, n + 1) = Plus(SumOf(v, n), ProductOf(v, n))
<1>1. n = 0 \/ n = 1
  BY DEF Vec, K
<1> QED
  BY <1>1 DEF SumOf

LEMMA AGatherPoly == ASSUME NEW o, NEW e, NEW f
  PROVE decaps_a!Gather(DecE!Poly(o, e, f)) = <<o, e, f>>
BY ATermsAreOne, DecE!GatherPoly, SizeAssumption DEF DecE!SizeAssumption

LEMMA ABeginData ==
  ASSUME NEW v, APhaseInv(v), AShapeInv, decaps_a!Begin, AWiresAre(v) \/ a_state # "IDLE"
  PROVE  APhaseInv(v)'
<1>0. DOMAIN a_reg = ARegisters
  BY DEF AShapeInv
<1>1. ASSUME AStartInv(v)', a_state' \in {"DECODE_U_V", "DECODE_S"}, ~a_done'
      PROVE  APhaseInv(v)'
  BY <1>1 DEF APhaseInv, AForwardInv, AMultiplyInv, AInvertInv, AEncodeInv, AEndInv,
              AForwarding, AInverting, AEncoding
<1>2. CASE a_state = "IDLE"
  <2>1. /\ a_state' = "DECODE_U_V" /\ ~a_done'
        /\ a_reg'.c = c_in /\ a_reg'.dkPKE = dk_in.pke
    BY <1>0, <1>2 DEF decaps_a!Begin, decaps_a!Stores, decaps_a!Quiet, ARegisters
  <2> QED
    BY <1>1, <1>2, <2>1 DEF AStartInv, AWiresAre
<1>3. CASE a_state = "DECODE_U_V"
  <2>1. /\ a_state' = "DECODE_S" /\ ~a_done' /\ a_reg'.dkPKE = a_reg.dkPKE
        /\ a_reg'.decompU_in = [i \in Vec |-> ByteDecode(10, a_reg.c[i + 1])]
        /\ a_reg'.decompV_in = ByteDecode(4, a_reg.c[3])
    BY <1>0, <1>3, ATermsAreOne
       DEF decaps_a!Begin, decaps_a!Stores, decaps_a!Quiet, ARegisters, decaps_a!ByteDecode,
           ByteDecode
  <2> QED
    BY <1>1, <1>3, <2>1 DEF AStartInv, APhaseInv
<1> QED
  BY <1>2, <1>3 DEF decaps_a!Begin

\* What ends a phase of transforms and begins the next
LEMMA AForwardOnly ==
  ASSUME NEW v, AForwardInv(v)', a_state' \in AForwarding, ~a_done'
  PROVE  APhaseInv(v)'
BY DEF APhaseInv, AStartInv, AMultiplyInv, AInvertInv, AEncodeInv, AEndInv,
       AForwarding, AInverting, AEncoding

LEMMA AFirstTransformData ==
  ASSUME NEW v, APhaseInv(v), AShapeInv, decaps_a!FirstTransform
  PROVE  APhaseInv(v)'
<1>0. /\ DOMAIN a_reg = ARegisters /\ DOMAIN a_ctr = {"fwd", "mi", "bit"}
      /\ DOMAIN a_idx = {"load", "sched", "read"}
  BY DEF AShapeInv, DecE!Shape
<1>1. /\ a_state = "DECODE_S" /\ a_state' = "FWD_LOAD" /\ ~a_done'
      /\ a_ctr'.fwd = 0 /\ a_idx'.load = 0
      /\ a_reg'.u_prime = [i \in Vec |-> Decompress(10, a_reg.decompU_in[i])]
      /\ a_reg'.v_prime = Decompress(4, a_reg.decompV_in)
      /\ a_reg'.s_hat = [i \in Vec |-> ByteDecode(12, Part(a_reg.dkPKE, i))]
  BY <1>0, ATermsAreOne
     DEF decaps_a!FirstTransform, decaps_a!Stores, decaps_a!Quiet, ARegisters,
         decaps_a!Decompress, Decompress, decaps_a!ByteDecode, ByteDecode, decaps_a!Part, Part
<1>2. AHasParts(v, a_reg') /\ \A i \in Vec : a_reg'.u_prime[i] = UPrimeOf(v, i)
  BY <1>1 DEF APhaseInv, AStartInv, AHasParts, UPrimeOf, VPrimeOf, SHatOf
<1>3. 0 \in Vec /\ \A i \in Vec : ~(i < 0)
  BY DEF Vec, K
<1>4. DecE!PassInv(decaps_a!Transforms!FWD, UPrimeOf(v, 0), "ntt", a_state', a_idx', a_drive',
                   a_ntt', a_reg'.u_hat[0])
  <2>1. /\ DecE!Names(decaps_a!Transforms!FWD, "FWD_NEXT")
        /\ a_state' = decaps_a!Transforms!FWD.load
    BY <1>1 DEF DecE!Names, decaps_a!Transforms!FWD
  <2> QED
    BY <1>1, <2>1, DecE!PassStarts, SizeAssumption DEF DecE!SizeAssumption
<1>5. AForwardInv(v)'
  BY <1>1, <1>2, <1>3, <1>4 DEF AForwardInv, AHasParts
<1> QED
  BY <1>1, <1>5, AForwardOnly DEF AForwarding

LEMMA ATransformData ==
  ASSUME NEW v, APhaseInv(v), ARestInv, NEW go \in BOOLEAN, decaps_a!Clock(go),
         decaps_a!Transform
  PROVE  APhaseInv(v)'
<1> DEFINE i == a_ctr.fwd
<1>1. a_state \in AForwarding
  BY DEF AForwarding, decaps_a!Transform, decaps_a!Transforms!Pass, decaps_a!Transforms!Load,
         decaps_a!Transforms!SetUp, decaps_a!Transforms!StartStage,
         decaps_a!Transforms!EndStage, decaps_a!Transforms!Fetch, decaps_a!Transforms!Take,
         decaps_a!Transforms!Arrives, decaps_a!Transforms!Wait, decaps_a!Transforms!FWD
<1>2. /\ AHasParts(v, a_reg) /\ \A a \in Vec : a_reg.u_prime[a] = UPrimeOf(v, a)
      /\ i \in Vec
      /\ \A a \in Vec : a < i => a_reg.u_hat[a] = DecE!Poly("ntt", Entries, UPrimeOf(v, a))
      /\ DecE!PassInv(decaps_a!Transforms!FWD, UPrimeOf(v, i), "ntt", a_state, a_idx,
                      a_drive, a_ntt, a_reg.u_hat[i])
  BY <1>1 DEF APhaseInv, AForwardInv
<1>3. /\ a_state' \in AForwarding
      /\ AWrites(a_reg, a_reg', {"u_hat"}) /\ a_ctr' = a_ctr /\ ~a_done'
      /\ \A a \in Vec : a # i => a_reg'.u_hat[a] = a_reg.u_hat[a]
      /\ DecE!PassInv(decaps_a!Transforms!FWD, UPrimeOf(v, i), "ntt", a_state', a_idx', a_drive',
                      a_ntt', a_reg'.u_hat[i])
      /\ a_state' = "FWD_NEXT" => a_reg'.u_hat[i] = DecE!Poly("ntt", Entries, UPrimeOf(v, i))
  BY <1>2, AForwardPass
<1>4. AHasParts(v, a_reg') /\ a_reg'.u_prime = a_reg.u_prime
  BY <1>2, <1>3 DEF AHasParts, AWrites, ARegisters
<1>5. \A a \in Vec : a < i => a_reg'.u_hat[a] = DecE!Poly("ntt", Entries, UPrimeOf(v, a))
  BY <1>2, <1>3 DEF Vec, K
<1>6. AForwardInv(v)'
  BY <1>2, <1>3, <1>4, <1>5 DEF AForwardInv, AHasParts
<1> QED
  BY <1>3, <1>6, AForwardOnly

LEMMA ANextTransformData ==
  ASSUME NEW v, APhaseInv(v), AShapeInv, decaps_a!NextTransform
  PROVE  APhaseInv(v)'
<1>0. /\ DOMAIN a_ctr = {"fwd", "mi", "bit"} /\ DOMAIN a_idx = {"load", "sched", "read"}
  BY DEF AShapeInv, DecE!Shape
<1>1. /\ a_state = "FWD_NEXT" /\ a_state' = "FWD_LOAD" /\ ~a_done' /\ a_ctr.fwd < K - 1
      /\ a_reg' = a_reg /\ a_ctr'.fwd = a_ctr.fwd + 1 /\ a_idx'.load = 0
  BY <1>0 DEF decaps_a!NextTransform, decaps_a!Stores, decaps_a!Quiet, decaps_a!K, K
<1>2. /\ AHasParts(v, a_reg) /\ \A a \in Vec : a_reg.u_prime[a] = UPrimeOf(v, a)
      /\ a_ctr.fwd \in Vec
      /\ \A a \in Vec : a < a_ctr.fwd => a_reg.u_hat[a] = DecE!Poly("ntt", Entries, UPrimeOf(v, a))
      /\ a_reg.u_hat[a_ctr.fwd] = DecE!Poly("ntt", Entries, UPrimeOf(v, a_ctr.fwd))
  BY <1>1 DEF APhaseInv, AForwardInv, AForwarding
<1>3. a_ctr'.fwd \in Vec /\ \A a \in Vec : a < a_ctr'.fwd => a = a_ctr.fwd \/ a < a_ctr.fwd
  BY <1>1, <1>2 DEF Vec, K
<1>4. DecE!PassInv(decaps_a!Transforms!FWD, UPrimeOf(v, a_ctr'.fwd), "ntt", a_state', a_idx',
                   a_drive', a_ntt', a_reg'.u_hat[a_ctr'.fwd])
  <2>1. /\ DecE!Names(decaps_a!Transforms!FWD, "FWD_NEXT")
        /\ a_state' = decaps_a!Transforms!FWD.load
    BY <1>1 DEF DecE!Names, decaps_a!Transforms!FWD
  <2> QED
    BY <1>1, <2>1, DecE!PassStarts, SizeAssumption DEF DecE!SizeAssumption
<1>5. \A a \in Vec : a < a_ctr'.fwd => a_reg'.u_hat[a] = DecE!Poly("ntt", Entries, UPrimeOf(v, a))
  BY <1>1, <1>2, <1>3
<1>6. AForwardInv(v)'
  BY <1>1, <1>2, <1>3, <1>4, <1>5 DEF AForwardInv, AHasParts
<1> QED
  BY <1>1, <1>6, AForwardOnly DEF AForwarding

\* The combinational sum adds the next product.
LEMMA ASumIs ==
  ASSUME NEW v, AHasParts(v, a_reg), a_ctr.mi \in Vec, a_reg.acc = SumOf(v, a_ctr.mi),
         \A i \in Vec : a_reg.u_hat[i] = DecE!Poly("ntt", Entries, UPrimeOf(v, i))
  PROVE  decaps_a!Sum = SumOf(v, a_ctr.mi + 1)
<1>1. decaps_a!Gather(a_reg.u_hat[a_ctr.mi]) = NTT(UPrimeOf(v, a_ctr.mi))
  BY AGatherPoly DEF NTT
<1>2. a_reg.s_hat[a_ctr.mi] = SHatOf(v, a_ctr.mi)
  BY DEF AHasParts
<1>3. decaps_a!Sum = Plus(SumOf(v, a_ctr.mi), ProductOf(v, a_ctr.mi))
  BY <1>1, <1>2 DEF decaps_a!Sum, decaps_a!Plus, Plus, decaps_a!Multiply, Multiply, ProductOf
<1> QED
  BY <1>3, ASumsGrow

LEMMA AMultiplyData ==
  ASSUME NEW v, APhaseInv(v), AShapeInv, decaps_a!MultiplyVectors
  PROVE  APhaseInv(v)'
<1>0. DOMAIN a_reg = ARegisters /\ DOMAIN a_ctr = {"fwd", "mi", "bit"}
  BY DEF AShapeInv
<1>1. /\ a_state' = "MATMUL" /\ ~a_done'
      /\ \/ /\ a_state = "FWD_NEXT" /\ a_ctr.fwd = K - 1 /\ a_ctr'.mi = 0
            /\ a_reg'.acc = Zero
         \/ /\ a_state = "MATMUL" /\ a_ctr.mi < K - 1 /\ a_ctr'.mi = a_ctr.mi + 1
            /\ a_reg'.acc = decaps_a!Sum
      /\ AWrites(a_reg, a_reg', {"acc"})
  BY <1>0 DEF decaps_a!MultiplyVectors, decaps_a!Stores, decaps_a!Quiet, AWrites, ARegisters,
              decaps_a!K, K, decaps_a!Zero, Zero
<1>2. ASSUME AMultiplyInv(v)' PROVE APhaseInv(v)'
  BY <1>1, <1>2 DEF APhaseInv, AStartInv, AForwardInv, AInvertInv, AEncodeInv, AEndInv,
                    AForwarding, AInverting, AEncoding
<1>3. a_reg'.v_prime = a_reg.v_prime /\ a_reg'.s_hat = a_reg.s_hat /\ a_reg'.u_hat = a_reg.u_hat
  BY <1>1 DEF AWrites, ARegisters
<1>4. CASE a_state = "FWD_NEXT"
  <2>1. /\ AHasParts(v, a_reg) /\ a_ctr.fwd = K - 1
        /\ \A a \in Vec : a < a_ctr.fwd
             => a_reg.u_hat[a] = DecE!Poly("ntt", Entries, UPrimeOf(v, a))
        /\ a_reg.u_hat[a_ctr.fwd] = DecE!Poly("ntt", Entries, UPrimeOf(v, a_ctr.fwd))
    BY <1>1, <1>4 DEF APhaseInv, AForwardInv, AForwarding
  <2>2. \A a \in Vec : a = K - 1 \/ a < K - 1
    BY DEF Vec, K
  <2>3. \A a \in Vec : a_reg.u_hat[a] = DecE!Poly("ntt", Entries, UPrimeOf(v, a))
    BY <2>1, <2>2
  <2>4. a_ctr'.mi = 0 /\ 0 \in Vec /\ a_reg'.acc = SumOf(v, 0)
    BY <1>1, <1>4, ASumsGrow DEF Vec, K
  <2> QED
    BY <1>2, <1>3, <2>1, <2>3, <2>4 DEF AMultiplyInv, AHasParts
<1>5. CASE a_state = "MATMUL"
  <2>1. /\ AHasParts(v, a_reg)
        /\ \A i \in Vec : a_reg.u_hat[i] = DecE!Poly("ntt", Entries, UPrimeOf(v, i))
        /\ a_ctr.mi \in Vec /\ a_reg.acc = SumOf(v, a_ctr.mi)
    BY <1>5 DEF APhaseInv, AMultiplyInv
  <2>2. decaps_a!Sum = SumOf(v, a_ctr.mi + 1)
    BY <2>1, ASumIs
  <2>3. a_ctr'.mi \in Vec /\ a_reg'.acc = SumOf(v, a_ctr'.mi)
    BY <1>1, <1>5, <2>1, <2>2 DEF Vec, K
  <2> QED
    BY <1>2, <1>3, <2>1, <2>3 DEF AMultiplyInv, AHasParts
<1> QED
  BY <1>1, <1>4, <1>5

LEMMA ALastProductData ==
  ASSUME NEW v, APhaseInv(v), AShapeInv, decaps_a!LastProduct
  PROVE  APhaseInv(v)'
<1>0. /\ DOMAIN a_reg = ARegisters /\ DOMAIN a_ctr = {"fwd", "mi", "bit"}
      /\ DOMAIN a_idx = {"load", "sched", "read"}
  BY DEF AShapeInv, DecE!Shape
<1>1. /\ a_state = "MATMUL" /\ a_state' = "INV_LOAD" /\ ~a_done' /\ a_ctr.mi = K - 1
      /\ a_idx'.load = 0 /\ a_reg'.acc = decaps_a!Sum /\ a_reg'.v_prime = a_reg.v_prime
  BY <1>0 DEF decaps_a!LastProduct, decaps_a!Stores, decaps_a!Quiet, ARegisters, decaps_a!K, K
<1>2. /\ AHasParts(v, a_reg)
      /\ \A i \in Vec : a_reg.u_hat[i] = DecE!Poly("ntt", Entries, UPrimeOf(v, i))
      /\ a_ctr.mi \in Vec /\ a_reg.acc = SumOf(v, a_ctr.mi)
  BY <1>1 DEF APhaseInv, AMultiplyInv
<1>3. a_reg'.acc = SumOf(v, K)
  <2>1. decaps_a!Sum = SumOf(v, a_ctr.mi + 1)
    BY <1>2, ASumIs
  <2> QED
    BY <1>1, <2>1 DEF K
<1>4. DecE!PassInv(decaps_a!Transforms!INV, SumOf(v, K), "inverse", a_state', a_idx', a_drive',
                   a_ntt', a_reg'.inner_raw)
  <2>1. /\ DecE!Names(decaps_a!Transforms!INV, "SCALE")
        /\ a_state' = decaps_a!Transforms!INV.load
    BY <1>1 DEF DecE!Names, decaps_a!Transforms!INV
  <2> QED
    BY <1>1, <2>1, DecE!PassStarts, SizeAssumption DEF DecE!SizeAssumption
<1>5. AInvertInv(v)'
  BY <1>1, <1>2, <1>3, <1>4 DEF AInvertInv, AHasParts
<1> QED
  BY <1>1, <1>5 DEF APhaseInv, AStartInv, AForwardInv, AMultiplyInv, AEncodeInv, AEndInv,
                    AForwarding, AInverting, AEncoding

LEMMA AInvertData ==
  ASSUME NEW v, APhaseInv(v), ARestInv, NEW go \in BOOLEAN, decaps_a!Clock(go), decaps_a!Invert
  PROVE  APhaseInv(v)'
<1>1. a_state \in AInverting
  BY DEF AInverting, decaps_a!Invert, decaps_a!Transforms!Pass, decaps_a!Transforms!Load,
         decaps_a!Transforms!SetUp, decaps_a!Transforms!StartStage,
         decaps_a!Transforms!EndStage, decaps_a!Transforms!Fetch, decaps_a!Transforms!Take,
         decaps_a!Transforms!Arrives, decaps_a!Transforms!Wait, decaps_a!Transforms!INV
<1>2. /\ a_reg.v_prime = VPrimeOf(v) /\ a_reg.acc = SumOf(v, K)
      /\ DecE!PassInv(decaps_a!Transforms!INV, SumOf(v, K), "inverse", a_state, a_idx,
                      a_drive, a_ntt, a_reg.inner_raw)
  BY <1>1 DEF APhaseInv, AInvertInv
<1>3. /\ a_state' \in AInverting \cup {"SCALE"}
      /\ AWrites(a_reg, a_reg', {"inner_raw"}) /\ ~a_done'
      /\ DecE!PassInv(decaps_a!Transforms!INV, SumOf(v, K), "inverse", a_state', a_idx', a_drive',
                      a_ntt', a_reg'.inner_raw)
      /\ a_state' = "SCALE" => a_reg'.inner_raw = DecE!Poly("inverse", Entries, SumOf(v, K))
  BY <1>2, AInversePass
<1>4. a_reg'.v_prime = VPrimeOf(v) /\ a_reg'.acc = SumOf(v, K)
  BY <1>2, <1>3 DEF AWrites, ARegisters
<1>5. AInvertInv(v)'
  BY <1>3, <1>4 DEF AInvertInv, AInverting
<1> QED
  BY <1>3, <1>5 DEF APhaseInv, AStartInv, AForwardInv, AMultiplyInv, AEncodeInv, AEndInv,
                    AForwarding, AInverting, AEncoding

\* All the bits of one polynomial make up its message.
LEMMA AMessageOf ==
  ASSUME NEW v, a_reg'.m_bits = DecE!Poly("bit", 0, WOf(v))
  PROVE  decaps_a!m_prime_out' = MOf(v)
<1>1. decaps_a!m_prime_out' = decaps_a!Message(a_reg'.m_bits)
  BY DEF decaps_a!m_prime_out
<1>2. decaps_a!m_prime_out' = Message(Poly("bit", 0, WOf(v)))
  BY <1>1, AMessageIsOne, ATermsAreOne
<1> QED
  BY <1>2, ARoundedIs DEF MOf, KpkeDecrypt

LEMMA AEncodeData ==
  ASSUME NEW v, APhaseInv(v), AShapeInv, decaps_a!EncodeMessage
  PROVE  APhaseInv(v)'
<1>0. DOMAIN a_reg = ARegisters /\ DOMAIN a_ctr = {"fwd", "mi", "bit"}
  BY DEF AShapeInv
<1>1. ASSUME AInvertInv(v)', AEncodeInv(v)', AEndInv(v)',
             a_state' \in {"SUB", "ENCODE_M_SETUP", "ENCODE_M", "START_SHA512"}
      PROVE  APhaseInv(v)'
  BY <1>1 DEF APhaseInv, AStartInv, AForwardInv, AMultiplyInv, AForwarding
<1>2. CASE a_state = "SCALE"
  <2>1. /\ a_state' = "SUB" /\ ~a_done' /\ a_reg'.v_prime = a_reg.v_prime
        /\ a_reg'.inner = Scale(decaps_a!Gather(a_reg.inner_raw))
    BY <1>0, <1>2 DEF decaps_a!EncodeMessage, decaps_a!Stores, decaps_a!Quiet, ARegisters,
                      decaps_a!Scale, Scale
  <2>2. a_reg.v_prime = VPrimeOf(v) /\ a_reg.inner_raw = DecE!Poly("inverse", Entries, SumOf(v, K))
    BY <1>2 DEF APhaseInv, AInvertInv
  <2>3. a_reg'.inner = InverseNTT(SumOf(v, K))
    BY <2>1, <2>2, AGatherPoly DEF InverseNTT
  <2> QED
    BY <1>1, <2>1, <2>2, <2>3 DEF AInvertInv, AEncodeInv, AEndInv, AInverting, AEncoding
<1>3. CASE a_state = "SUB"
  <2>1. /\ a_state' = "ENCODE_M_SETUP" /\ ~a_done' /\ a_ctr'.bit = 0
        /\ a_reg'.w = Minus(a_reg.v_prime, a_reg.inner)
    BY <1>0, <1>3 DEF decaps_a!EncodeMessage, decaps_a!Stores, decaps_a!Quiet, ARegisters,
                      decaps_a!Minus, Minus
  <2>2. a_reg'.w = WOf(v)
    BY <1>3, <2>1 DEF APhaseInv, AInvertInv, WOf
  <2>3. 0 \in Indices /\ \A c \in Indices : ~(c < 0)
    BY SizeAssumption DEF Indices
  <2>4. AEncodeInv(v)'
    BY <2>1, <2>2, <2>3 DEF AEncodeInv
  <2> QED
    BY <1>1, <2>1, <2>4 DEF AInvertInv, AEndInv, AInverting
<1>4. CASE a_state = "ENCODE_M_SETUP"
  <2>1. /\ a_state' = "ENCODE_M" /\ ~a_done' /\ a_ctr' = a_ctr
        /\ a_reg'.w = a_reg.w /\ a_reg'.m_bits = a_reg.m_bits
        /\ a_reg'.c1_x_in = decaps_a!Coefficient("bit", 0, a_reg.w, a_ctr.bit)
    BY <1>0, <1>4 DEF decaps_a!EncodeMessage, decaps_a!Stores, decaps_a!Quiet, ARegisters
  <2>2. AEncodeInv(v)'
    BY <1>4, <2>1, ATermsAreOne DEF APhaseInv, AEncodeInv, AEncoding
  <2> QED
    BY <1>1, <2>1, <2>2 DEF AInvertInv, AEndInv, AInverting
<1>5. CASE a_state = "ENCODE_M"
  <2>1. /\ ~a_done' /\ a_reg'.w = a_reg.w
        /\ a_reg'.m_bits = [a_reg.m_bits EXCEPT ![a_ctr.bit] = a_reg.c1_x_in]
        /\ IF a_ctr.bit = Coeffs - 1 THEN a_state' = "START_SHA512"
           ELSE a_state' = "ENCODE_M_SETUP" /\ a_ctr'.bit = a_ctr.bit + 1
    BY <1>0, <1>5 DEF decaps_a!EncodeMessage, decaps_a!Stores, decaps_a!Quiet, ARegisters
  <2>2. /\ a_reg.w = WOf(v) /\ a_ctr.bit \in Indices
        /\ \A c \in Indices : c < a_ctr.bit
             => a_reg.m_bits[c] = DecE!Coefficient("bit", 0, WOf(v), c)
        /\ a_reg.c1_x_in = DecE!Coefficient("bit", 0, WOf(v), a_ctr.bit)
    BY <1>5 DEF APhaseInv, AEncodeInv, AEncoding
  <2>3. DecE!IsOver(a_reg.m_bits, Indices)
    BY ATermsAreOne DEF AShapeInv
  <2>4. /\ DecE!IsOver(a_reg'.m_bits, Indices)
        /\ \A c \in Indices :
             a_reg'.m_bits[c] = IF c = a_ctr.bit THEN a_reg.c1_x_in ELSE a_reg.m_bits[c]
    BY <2>1, <2>2, <2>3 DEF DecE!IsOver
  <2>5. \A c \in Indices : c <= a_ctr.bit
          => a_reg'.m_bits[c] = DecE!Coefficient("bit", 0, WOf(v), c)
    BY <2>2, <2>4 DEF Indices
  <2>6. CASE a_ctr.bit = Coeffs - 1
    <3>1. \A c \in Indices : a_reg'.m_bits[c] = DecE!Coefficient("bit", 0, WOf(v), c)
      BY <2>5, <2>6, SizeAssumption DEF Indices
    <3>2. a_reg'.m_bits = DecE!Poly("bit", 0, WOf(v))
      BY <2>4, <3>1, ATermsAreOne DEF DecE!IsOver, DecE!Poly
    <3>3. decaps_a!m_prime_out' = MOf(v)
      BY <3>2, AMessageOf
    <3> QED
      BY <1>1, <2>1, <2>6, <3>3 DEF AInvertInv, AEncodeInv, AEndInv, AInverting, AEncoding
  <2>7. CASE a_ctr.bit # Coeffs - 1
    <3>1. a_ctr'.bit \in Indices /\ \A c \in Indices : c < a_ctr'.bit => c <= a_ctr.bit
      BY <2>1, <2>2, <2>7, SizeAssumption DEF Indices
    <3>2. AEncodeInv(v)'
      BY <2>1, <2>2, <2>5, <2>7, <3>1 DEF AEncodeInv
    <3> QED
      BY <1>1, <2>1, <2>7, <3>2 DEF AInvertInv, AEndInv, AInverting
  <2> QED
    BY <2>6, <2>7
<1> QED
  BY <1>2, <1>3, <1>4, <1>5 DEF decaps_a!EncodeMessage

LEMMA ADeriveData ==
  ASSUME NEW v, APhaseInv(v), AShapeInv, ACallInv, decaps_a!DeriveSecret, AWiresAre(v)
  PROVE  APhaseInv(v)'
<1>0. DOMAIN a_reg = ARegisters
  BY DEF AShapeInv
<1>1. ASSUME AEndInv(v)', a_state' \in {"WAIT_SHA512", "DONE"} PROVE APhaseInv(v)'
  BY <1>1 DEF APhaseInv, AStartInv, AForwardInv, AMultiplyInv, AInvertInv, AEncodeInv,
              AForwarding, AInverting, AEncoding
<1>2. CASE a_state = "START_SHA512"
  <2>1. /\ a_state' = "WAIT_SHA512" /\ ~a_done' /\ a_reg' = a_reg
        /\ a_in' = <<decaps_a!m_prime_out, dk_in.h>>
    BY <1>2 DEF decaps_a!DeriveSecret
  <2>2. decaps_a!m_prime_out = MOf(v) /\ dk_in.h = v.h
    BY <1>2 DEF APhaseInv, AEndInv, AWiresAre
  <2>3. decaps_a!m_prime_out' = MOf(v)
    BY <2>1, <2>2 DEF decaps_a!m_prime_out
  <2> QED
    BY <1>1, <2>1, <2>2, <2>3 DEF AEndInv
<1>3. CASE a_state = "WAIT_SHA512"
  <2>1. /\ a_state' = "DONE" /\ ~a_done' /\ a_unit.done /\ a_reg'.m_bits = a_reg.m_bits
        /\ a_reg'.K_prime = a_unit.out[1] /\ a_reg'.r_prime = a_unit.out[2]
    BY <1>0, <1>3 DEF decaps_a!DeriveSecret, decaps_a!Stores, decaps_a!Quiet, ARegisters
  <2>2. decaps_a!m_prime_out = MOf(v) /\ a_in = <<MOf(v), v.h>>
    BY <1>3 DEF APhaseInv, AEndInv
  <2>3. decaps_a!m_prime_out' = MOf(v)
    BY <2>1, <2>2 DEF decaps_a!m_prime_out
  <2>4. a_unit.out = G(MOf(v), v.h)
    BY <1>3, <2>1, <2>2 DEF ACallInv
  <2>5. Decrypted(v)'
    BY <2>1, <2>3, <2>4 DEF Decrypted
  <2> QED
    BY <1>1, <2>1, <2>5 DEF AEndInv
<1> QED
  BY <1>2, <1>3 DEF decaps_a!DeriveSecret

LEMMA AWaitingData ==
  ASSUME NEW v, APhaseInv(v), decaps_a!Complete \/ decaps_a!Waiting
  PROVE  APhaseInv(v)'
<1>1. CASE decaps_a!Complete
  <2>1. a_state = "DONE" /\ a_state' = "IDLE" /\ a_reg' = a_reg
    BY <1>1 DEF decaps_a!Complete
  <2>2. Decrypted(v)'
    BY <2>1 DEF APhaseInv, AEndInv, Decrypted, decaps_a!m_prime_out
  <2> QED
    BY <2>1, <2>2 DEF APhaseInv, AStartInv, AForwardInv, AMultiplyInv, AInvertInv, AEncodeInv,
              AEndInv, AForwarding, AInverting, AEncoding
<1>2. CASE decaps_a!Waiting
  <2>1. /\ a_state \in {"IDLE", "WAIT_SHA512"} /\ a_state' = a_state /\ ~a_done'
        /\ a_reg' = a_reg /\ a_in' = a_in
    BY <1>2 DEF decaps_a!Waiting, decaps_a!Stores, decaps_a!Quiet
  <2>2. decaps_a!m_prime_out' = decaps_a!m_prime_out
    BY <2>1 DEF decaps_a!m_prime_out
  <2> QED
    BY <2>1, <2>2 DEF APhaseInv, AStartInv, AForwardInv, AMultiplyInv, AInvertInv, AEncodeInv,
              AEndInv, AForwarding, AInverting, AEncoding
<1> QED
  BY <1>1, <1>2

\* An edge of the core, while the wires carry v in a run.
LEMMA ADataStep ==
  ASSUME NEW v, ARestInv, APhaseInv(v), call = "A" \/ a_state # "IDLE" => AWiresAre(v),
         NEW go \in BOOLEAN, decaps_a!Clock(go)
  PROVE  APhaseInv(v)'
<1>1. AShapeInv /\ ACallInv
  BY DEF ARestInv
<1>2. CASE decaps_a!Begin
  <2>1. AWiresAre(v) \/ a_state # "IDLE"
    BY <1>2 DEF decaps_a!Begin
  <2> QED
    BY <1>1, <1>2, <2>1, ABeginData
<1>3. CASE decaps_a!FirstTransform
  BY <1>1, <1>3, AFirstTransformData
<1>4. CASE decaps_a!Transform
  BY <1>4, ATransformData
<1>5. CASE decaps_a!NextTransform
  BY <1>1, <1>5, ANextTransformData
<1>6. CASE decaps_a!MultiplyVectors
  BY <1>1, <1>6, AMultiplyData
<1>7. CASE decaps_a!LastProduct
  BY <1>1, <1>7, ALastProductData
<1>8. CASE decaps_a!Invert
  BY <1>8, AInvertData
<1>9. CASE decaps_a!EncodeMessage
  BY <1>1, <1>9, AEncodeData
<1>10. CASE decaps_a!DeriveSecret
  <2>1. AWiresAre(v)
    BY <1>10 DEF decaps_a!DeriveSecret
  <2> QED
    BY <1>1, <1>10, <2>1, ADeriveData
<1>11. CASE decaps_a!Complete \/ decaps_a!Waiting
  BY <1>11, AWaitingData
<1> QED
  BY <1>2, <1>3, <1>4, <1>5, <1>6, <1>7, <1>8, <1>9, <1>10, <1>11 DEF decaps_a!Clock, decaps_a!Fsm

LEMMA AAtRest ==
  ASSUME NEW v, a_state = "IDLE", ~a_done
  PROVE  APhaseInv(v)
BY DEF APhaseInv, AStartInv, AForwardInv, AMultiplyInv, AInvertInv, AEncodeInv, AEndInv,
       AForwarding, AInverting, AEncoding

LEMMA ARestStep ==
  ASSUME ARestInv, NEW go \in BOOLEAN, decaps_a!Clock(go)
  PROVE  ARestInv'
BY ACallStep, AStageStep, AShapeStep DEF ARestInv

LEMMA ARestInit == decaps_a!Init => ARestInv
<1> SUFFICES ASSUME decaps_a!Init PROVE ARestInv
  OBVIOUS
<1>1. ACallInv /\ AStageInv
  BY DEF decaps_a!Init, ACallInv, AStageInv, DecE!IsUnit, decaps_a!IdleUnit, AWaits, AStarts,
         decaps_a!Transforms!IdleDrive, decaps_a!Transforms!IdleNtt
<1>2. /\ DOMAIN a_ctr = {"fwd", "mi", "bit"}
      /\ DOMAIN a_ntt = {"fsm", "bank", "stage_done", "read_valid", "read_data"}
      /\ DecE!IsIdx(a_idx) /\ DecE!IsDrive(a_drive)
  BY DEF decaps_a!Init, DecE!IsIdx, DecE!IsDrive, decaps_a!Transforms!IdleDrive,
         decaps_a!Transforms!IdleNtt
<1>3. a_ntt.bank = [c \in DecE!Indices |-> a_ntt.bank[c]]
  BY DEF decaps_a!Init, decaps_a!Transforms!IdleNtt, decaps_a!Transforms!Loaded,
         decaps_a!Transforms!Poly, decaps_a!Transforms!Indices, DecE!Indices
<1>4. /\ DOMAIN a_reg = ARegisters
      /\ DecE!IsOver(a_reg.u_hat, DecE!Vec)
      /\ \A i \in DecE!Vec : DecE!IsOver(a_reg.u_hat[i], DecE!Indices)
      /\ DecE!IsOver(a_reg.inner_raw, DecE!Indices) /\ DecE!IsOver(a_reg.m_bits, DecE!Indices)
  <2> DEFINE blank == decaps_a!Loaded(Undefined)
  <2>1. DecE!IsOver(blank, DecE!Indices)
    BY DEF DecE!IsOver, decaps_a!Loaded, decaps_a!Poly, decaps_a!Indices, DecE!Indices
  <2>2. /\ DOMAIN a_reg = ARegisters /\ a_reg.u_hat = [i \in DecE!Vec |-> blank]
        /\ a_reg.inner_raw = blank /\ a_reg.m_bits = blank
    BY ATermsAreOne DEF decaps_a!Init, ARegisters
  <2> HIDE DEF blank
  <2> QED
    BY <2>1, <2>2 DEF DecE!IsOver
<1> QED
  BY <1>1, <1>2, <1>3, <1>4 DEF ARestInv, AShapeInv, DecE!Shape, DecE!IsIdx, DecE!IsDrive

LEMMA ARestReset ==
  ASSUME ARestInv, decaps_a!Reset
  PROVE  ARestInv' /\ a_state' = "IDLE" /\ ~a_done'
<1>1. /\ a_drive' = [a_drive EXCEPT !.start = FALSE, !.load = FALSE] /\ a_state' = "IDLE"
      /\ ~a_done' /\ ~a_call' /\ a_call' \in BOOLEAN /\ UNCHANGED <<a_ctr, a_idx, a_reg>>
      /\ a_unit' = [a_unit EXCEPT !.fsm = "IDLE", !.done = FALSE]
  BY DEF decaps_a!Reset, decaps_a!Quiet, decaps_a!Transforms!Low, decaps_a!UnitReset
<1>2. PICK b : /\ a_ntt' = [a_ntt EXCEPT !.fsm = "IDLE", !.bank = decaps_a!Transforms!Written(b),
                                         !.stage_done = FALSE, !.read_valid = FALSE]
               /\ b = [c \in DecE!Indices |-> b[c]]
  <2> DEFINE staged == decaps_a!Transforms!Stage(a_drive.op, a_drive.entry, a_ntt.bank)
             partly(cut) == [c \in DecE!Indices |-> IF c \in cut THEN staged[c] ELSE a_ntt.bank[c]]
  <2>1. PICK cut : a_ntt' = [a_ntt EXCEPT !.fsm = "IDLE",
                                          !.bank = decaps_a!Transforms!Written(partly(cut)),
                                          !.stage_done = FALSE, !.read_valid = FALSE]
    BY Zenon DEF decaps_a!Reset, decaps_a!Transforms!NttReset, decaps_a!Transforms!Indices,
                 DecE!Indices
  <2>2. partly(cut) = [c \in DecE!Indices |-> partly(cut)[c]]
    OBVIOUS
  <2> QED
    BY <2>1, <2>2
<1>3. DecE!IsDrive(a_drive') /\ ~a_drive'.start
  BY <1>1 DEF ARestInv, AShapeInv, DecE!Shape, DecE!IsDrive
<1>4. DOMAIN a_ntt' = DOMAIN a_ntt /\ a_ntt'.bank = [c \in DecE!Indices |-> a_ntt'.bank[c]]
  BY <1>2 DEF ARestInv, AShapeInv, decaps_a!Transforms!Written
<1>5. AShapeInv'
  BY <1>1, <1>3, <1>4 DEF ARestInv, AShapeInv, DecE!Shape, DecE!IsDrive
<1>6. ACallInv'
  BY <1>1 DEF ARestInv, ACallInv, DecE!IsUnit
<1>7. a_ntt'.fsm = "IDLE" /\ ~a_ntt'.stage_done
  BY <1>2 DEF ARestInv, AShapeInv
<1>8. AStageInv'
  BY <1>1, <1>3, <1>7 DEF AStageInv, AWaits, AStarts
<1> QED
  BY <1>1, <1>5, <1>6, <1>8 DEF ARestInv

\* The registers stay as they are while nothing runs.
LEMMA ARegistersStay ==
  ASSUME decaps_a!Fsm, a_state = "IDLE", call # "A"
  PROVE  a_reg' = a_reg /\ a_state' = "IDLE" /\ ~a_done'
<1>1. decaps_a!Waiting
  BY APassKeeps
     DEF APassing, decaps_a!Fsm, decaps_a!Begin, decaps_a!FirstTransform,
         decaps_a!NextTransform, decaps_a!MultiplyVectors, decaps_a!LastProduct,
         decaps_a!EncodeMessage, decaps_a!DeriveSecret, decaps_a!Complete
<1> QED
  BY <1>1 DEF decaps_a!Waiting, decaps_a!Stores, decaps_a!Quiet

\* A run goes on until it says that it has ended.
LEMMA ARunGoesOn ==
  ASSUME decaps_a!Fsm, call = "A" \/ a_state # "IDLE"
  PROVE  a_state' # "IDLE" \/ a_done'
<1> USE DEF decaps_a!Stores
<1>1. CASE decaps_a!Begin \/ decaps_a!Complete \/ decaps_a!Waiting
  BY <1>1 DEF decaps_a!Begin, decaps_a!Complete, decaps_a!Waiting
<1>2. CASE decaps_a!Transform \/ decaps_a!Invert
  BY <1>2, APassKeeps DEF APassing
<1>3. CASE decaps_a!FirstTransform \/ decaps_a!NextTransform \/ decaps_a!LastProduct
  BY <1>3 DEF decaps_a!FirstTransform, decaps_a!NextTransform, decaps_a!LastProduct
<1>4. CASE decaps_a!MultiplyVectors \/ decaps_a!EncodeMessage \/ decaps_a!DeriveSecret
  BY <1>4 DEF decaps_a!MultiplyVectors, decaps_a!EncodeMessage, decaps_a!DeriveSecret
<1> QED
  BY <1>1, <1>2, <1>3, <1>4 DEF decaps_a!Fsm

-----------------------------------------------------------------------------
(***************************************************************************)
(* Decapsulation.  Each core runs in its own state of the top module, on   *)
(* wires that stay as they are while it runs: the buffers are not          *)
(* rewritten in a run, and the decryption core rests while the other runs. *)
(***************************************************************************)
AWires == [c |-> c_in, sk |-> dk_in.pke, h |-> dk_in.h]
DWires == [ek |-> dk_in.ek, r |-> a_reg.r_prime, m |-> decaps_a!m_prime_out, c |-> c_in,
           z |-> dk_in.z, k |-> a_reg.K_prime]

DecapsTop ==
  /\ state \in {"IDLE", "WAIT_A", "WAIT_B", "DONE"} /\ call \in {"none", "A", "B"}
  /\ state # "IDLE" => used = <<dk_in, c_in>>

DecryptCore ==
  /\ ARestInv
  /\ state # "WAIT_A" => a_state = "IDLE" /\ ~a_done /\ call # "A"
  /\ state = "WAIT_A" =>
       /\ \E v : v = AWires /\ APhaseInv(v)
       /\ IF call = "A" THEN a_state = "IDLE" /\ ~a_done ELSE a_state # "IDLE" \/ a_done
  /\ state \in {"WAIT_B", "DONE"} => \E v : v = AWires /\ Decrypted(v)

EncryptCore ==
  /\ DecE!RestInv /\ DecE!ResultInv /\ DecE!ShapeInv
  /\ state # "WAIT_B" => b_state = "IDLE" /\ ~b_done /\ call # "B"
  /\ state = "WAIT_B" =>
       /\ \E w : w = DWires /\ DecE!DataInv(w)
       /\ IF call = "B" THEN b_state = "IDLE" /\ ~b_done ELSE b_state # "IDLE" \/ b_done
  /\ state = "DONE" => \E w : w = DWires /\ DecE!Encrypted(w)

DecapsInv == /\ DecapsTop /\ DecryptCore /\ EncryptCore /\ DecapsulationCorrect
             /\ done => state = "IDLE"

\* The top module's edge, seen from the cores.
LEMMA DecapsMoves ==
  ASSUME DecapsTop, NEW go \in BOOLEAN, Clock(go)
  PROVE  /\ state # "IDLE" => c_in' = c_in /\ dk_in' = dk_in /\ used' = used
         /\ state = "IDLE" /\ state' # "IDLE" =>
              c_in' = c_in /\ dk_in' = dk_in /\ used' = <<dk_in, c_in>>
         /\ \/ state = "IDLE" /\ state' = "IDLE" /\ call' = "none" /\ ~done'
            \/ state = "IDLE" /\ state' = "WAIT_A" /\ call' = "A" /\ ~done'
            \/ state = "WAIT_A" /\ ~a_done /\ state' = "WAIT_A" /\ call' = "none" /\ ~done'
            \/ state = "WAIT_A" /\ a_done /\ state' = "WAIT_B" /\ call' = "B" /\ ~done'
            \/ state = "WAIT_B" /\ ~b_done /\ state' = "WAIT_B" /\ call' = "none" /\ ~done'
            \/ state = "WAIT_B" /\ b_done /\ state' = "DONE" /\ call' = "none" /\ ~done'
            \/ state = "DONE" /\ state' = "IDLE" /\ call' = "none" /\ done'
BY DEF Clock, Ecu, Fsm, Begin, Continue, Finish, Complete, Waiting, Goes

LEMMA DecapsTopStep ==
  ASSUME DecapsTop, NEW go \in BOOLEAN, Clock(go)
  PROVE  DecapsTop'
BY DecapsMoves DEF DecapsTop

LEMMA DecryptCoreStep ==
  ASSUME DecapsTop, DecryptCore, NEW go \in BOOLEAN, Clock(go)
  PROVE  /\ DecryptCore'
         /\ state \in {"WAIT_B", "DONE"} => a_reg' = a_reg
<1>1. decaps_a!Clock(go) /\ decaps_a!Fsm
  BY DEF Clock, decaps_a!Clock
<1>2. ARestInv'
  BY <1>1, ARestStep DEF DecryptCore
<1>3. ASSUME a_state = "IDLE", call # "A"
      PROVE  a_reg' = a_reg /\ a_state' = "IDLE" /\ ~a_done'
  BY <1>1, <1>3, ARegistersStay
<1>4. state # "IDLE" => c_in' = c_in /\ dk_in' = dk_in /\ AWires' = AWires
  BY DecapsMoves DEF AWires
<1>5. CASE state = "IDLE"
  <2>1. a_state' = "IDLE" /\ ~a_done'
    BY <1>3, <1>5 DEF DecryptCore
  <2>2. (\E v : v = AWires /\ APhaseInv(v))'
    <3>1. PICK v : v = AWires'
      OBVIOUS
    <3>2. APhaseInv(v)'
      BY <2>1 DEF APhaseInv, AStartInv, AForwardInv, AMultiplyInv, AInvertInv, AEncodeInv,
              AEndInv, AForwarding, AInverting, AEncoding
    <3> QED
      BY <3>1, <3>2
  <2>3. \/ state' = "IDLE" /\ call' = "none"
        \/ state' = "WAIT_A" /\ call' = "A"
    BY <1>5, DecapsMoves
  <2> QED
    BY <1>2, <1>5, <2>1, <2>2, <2>3 DEF DecryptCore
<1>6. CASE state = "WAIT_A" /\ ~a_done
  <2>1. state' = "WAIT_A" /\ call' = "none"
    BY <1>6, DecapsMoves
  <2>2. PICK v : v = AWires /\ APhaseInv(v)
    BY <1>6 DEF DecryptCore
  <2>3. AWiresAre(v)
    BY <2>2 DEF AWiresAre, AWires
  <2>4. APhaseInv(v)'
    BY <1>1, <2>2, <2>3, ADataStep DEF DecryptCore
  <2>5. a_state' # "IDLE" \/ a_done'
    <3>1. call = "A" \/ a_state # "IDLE"
      BY <1>6 DEF DecryptCore
    <3> QED
      BY <1>1, <3>1, ARunGoesOn
  <2> QED
    BY <1>2, <1>4, <1>6, <2>1, <2>2, <2>4, <2>5 DEF DecryptCore
<1>7. CASE state = "WAIT_A" /\ a_done
  <2>1. state' = "WAIT_B" /\ call' = "B"
    BY <1>7, DecapsMoves
  <2>2. PICK v : v = AWires /\ APhaseInv(v)
    BY <1>7 DEF DecryptCore
  <2>3. a_state = "IDLE" /\ Decrypted(v) /\ call # "A"
    BY <1>7, <2>2 DEF APhaseInv, AEndInv, DecryptCore
  <2>4. a_reg' = a_reg /\ a_state' = "IDLE" /\ ~a_done'
    BY <1>3, <2>3
  <2>5. Decrypted(v)'
    BY <2>3, <2>4 DEF Decrypted, decaps_a!m_prime_out
  <2> QED
    BY <1>2, <1>4, <1>7, <2>1, <2>2, <2>4, <2>5 DEF DecryptCore
<1>8. CASE state \in {"WAIT_B", "DONE"}
  <2>1. state' \in {"WAIT_B", "DONE", "IDLE"} /\ call' = "none"
    BY <1>8, DecapsMoves
  <2>2. a_reg' = a_reg /\ a_state' = "IDLE" /\ ~a_done'
    BY <1>3, <1>8 DEF DecryptCore
  <2>3. PICK v : v = AWires /\ Decrypted(v)
    BY <1>8 DEF DecryptCore
  <2>4. Decrypted(v)'
    BY <2>2, <2>3 DEF Decrypted, decaps_a!m_prime_out
  <2> QED
    BY <1>2, <1>4, <1>8, <2>1, <2>2, <2>3, <2>4 DEF DecryptCore
<1> QED
  BY <1>5, <1>6, <1>7, <1>8 DEF DecapsTop

LEMMA EncryptCoreStep ==
  ASSUME DecapsTop, DecryptCore, EncryptCore, NEW go \in BOOLEAN, Clock(go)
  PROVE  /\ EncryptCore'
         /\ state = "DONE" => b_reg' = b_reg
<1> USE SizeAssumption DEF DecE!SizeAssumption
<1>1. DecE!Clock(go) /\ DecE!Fsm
  BY DecapsInstanceClock DEF Clock, DecE!Clock
<1>2. DecE!RestInv /\ DecE!ResultInv /\ DecE!ShapeInv /\ DecE!CallInv
  BY DEF EncryptCore, DecE!RestInv
<1>3. DecE!RestInv' /\ DecE!ResultInv' /\ DecE!ShapeInv'
  BY <1>1, <1>2, DecE!RestStep, DecE!ResultStep, DecE!ShapeStep
<1>4. ASSUME b_state = "IDLE", call # "B"
      PROVE  b_reg' = b_reg /\ b_state' = "IDLE" /\ ~b_done'
  BY <1>1, <1>4, DecE!RegistersStay
<1>5. state \in {"WAIT_B", "DONE"} => DWires' = DWires
  <2>1. state \in {"WAIT_B", "DONE"} => a_reg' = a_reg /\ c_in' = c_in /\ dk_in' = dk_in
    BY DecryptCoreStep, DecapsMoves
  <2> QED
    BY <2>1 DEF DWires, decaps_a!m_prime_out
<1>6. CASE state \in {"IDLE", "WAIT_A"}
  <2>1. b_state' = "IDLE" /\ ~b_done'
    BY <1>4, <1>6 DEF EncryptCore
  <2>2. \/ state' \in {"IDLE", "WAIT_A"} /\ call' # "B"
        \/ state' = "WAIT_B" /\ call' = "B"
    BY <1>6, DecapsMoves
  <2>3. (\E w : w = DWires /\ DecE!DataInv(w))'
    <3>1. PICK w : w = DWires'
      OBVIOUS
    <3>2. DecE!DataInv(w)'
      BY <1>3, <2>1 DEF DecE!DataInv, DecE!PhaseInv, DecE!StartInv, DecE!SampleInv, DecE!DrawInv,
         DecE!ForwardInv, DecE!MultiplyUInv, DecE!MultiplyVInv, DecE!InvertUInv,
         DecE!InvertVInv, DecE!DecodeInv, DecE!AddInv, DecE!EncodeInv, DecE!ChooseInv,
         DecE!EndInv, DecE!Sampling, DecE!Drawing, DecE!Forwarding, DecE!MultiplyingU,
         DecE!MultiplyingV, DecE!InvertingU, DecE!InvertingV, DecE!DecodingMu, DecE!Adding,
         DecE!Encoding, DecE!Choosing
    <3> QED
      BY <3>1, <3>2
  <2> QED
    BY <1>3, <1>6, <2>1, <2>2, <2>3 DEF EncryptCore
<1>7. CASE state = "WAIT_B" /\ ~b_done
  <2>1. state' = "WAIT_B" /\ call' = "none"
    BY <1>7, DecapsMoves
  <2>2. PICK w : w = DWires /\ DecE!DataInv(w)
    BY <1>7 DEF EncryptCore
  <2>3. DecE!WiresAre(w)
    BY <2>2 DEF DecE!WiresAre, DWires
  <2>4. DecE!DataInv(w)'
    BY <1>1, <1>2, <2>2, <2>3, DecE!DataStep
  <2>5. b_state' # "IDLE" \/ b_done'
    <3>1. call = "B" \/ b_state # "IDLE"
      BY <1>7 DEF EncryptCore
    <3> QED
      BY <1>1, <3>1, DecE!RunGoesOn
  <2> QED
    BY <1>3, <1>5, <1>7, <2>1, <2>2, <2>4, <2>5 DEF EncryptCore
<1>8. CASE state = "WAIT_B" /\ b_done
  <2>1. state' = "DONE" /\ call' = "none"
    BY <1>8, DecapsMoves
  <2>2. PICK w : w = DWires /\ DecE!DataInv(w)
    BY <1>8 DEF EncryptCore
  <2>3. b_state = "IDLE" /\ DecE!Encrypted(w) /\ call # "B"
    BY <1>8, <2>2 DEF DecE!DataInv, DecE!PhaseInv, DecE!EndInv, EncryptCore
  <2>4. b_reg' = b_reg /\ b_state' = "IDLE" /\ ~b_done'
    BY <1>4, <2>3
  <2>5. DecE!Encrypted(w)'
    BY <2>3, <2>4 DEF DecE!Encrypted
  <2> QED
    BY <1>3, <1>5, <1>8, <2>1, <2>2, <2>4, <2>5 DEF EncryptCore
<1>9. CASE state = "DONE"
  <2>1. state' = "IDLE" /\ call' = "none"
    BY <1>9, DecapsMoves
  <2>2. b_reg' = b_reg /\ b_state' = "IDLE" /\ ~b_done'
    BY <1>4, <1>9 DEF EncryptCore
  <2> QED
    BY <1>3, <1>9, <2>1, <2>2 DEF EncryptCore
<1> QED
  BY <1>6, <1>7, <1>8, <1>9 DEF DecapsTop

LEMMA DecryptThenEncrypt ==
  ASSUME NEW ek, NEW m, NEW r
  PROVE  DecE!KpkeEncrypt(ek, m, r) = KpkeEncrypt(ek, m, r)
BY DEF DecE!KpkeEncrypt, KpkeEncrypt, DecE!K, K, DecE!Part, Part, DecE!NTT, NTT,
       DecE!SampleCBD, SampleCBD, DecE!SampleNTT, SampleNTT, DecE!Plus, Plus,
       DecE!InverseNTT, InverseNTT, DecE!Scale, Scale, DecE!Zero, Zero,
       DecE!Multiply, Multiply, DecE!ByteDecode, ByteDecode, DecE!Mu, Mu,
       DecE!ByteEncode, ByteEncode, DecE!Compress, Compress

\* What the two cores have computed is what Algorithm 18 computes.
LEMMA DecapsResult ==
  ASSUME DecapsInv, state = "DONE"
  PROVE  LET d == Decapsulated(dk_in, c_in)
         IN  b_reg.match = d.match /\ b_reg.K_final = d.secret
<1> DEFINE m == KpkeDecrypt(dk_in.pke, c_in)
           g == G(m, dk_in.h)
           c == KpkeEncrypt(dk_in.ek, m, g[2])
<1>1. decaps_a!m_prime_out = m /\ a_reg.K_prime = g[1] /\ a_reg.r_prime = g[2]
  <2>1. PICK v : v = AWires /\ Decrypted(v)
    BY DEF DecapsInv, DecryptCore
  <2>2. v.c = c_in /\ v.sk = dk_in.pke /\ v.h = dk_in.h
    BY <2>1 DEF AWires
  <2> QED
    BY <2>1, <2>2 DEF Decrypted, MOf
<1>2. /\ b_reg.match = (c_in = c)
      /\ b_reg.K_final = IF c_in = c THEN g[1] ELSE J(dk_in.z, c_in)
  <2>1. PICK w : w = DWires /\ DecE!Encrypted(w)
    BY DEF DecapsInv, EncryptCore
  <2>2. /\ w.ek = dk_in.ek /\ w.r = g[2] /\ w.m = m /\ w.c = c_in /\ w.z = dk_in.z
        /\ w.k = g[1]
    BY <1>1, <2>1 DEF DWires
  <2>3. DecE!KpkeEncrypt(w.ek, w.m, w.r) = c
    BY <2>2, DecryptThenEncrypt
  <2>4. b_reg.match = (w.c = c) /\ b_reg.K_final = IF w.c = c THEN w.k ELSE DecE!J(w.z, w.c)
    BY <2>1, <2>3 DEF DecE!Encrypted
  <2> QED
    BY <2>2, <2>4 DEF DecE!J, J
<1> QED
  BY <1>2, Zenon DEF Decapsulated

LEMMA DecapsStepData ==
  ASSUME DecapsInv, Reset \/ \E go \in BOOLEAN : Clock(go)
  PROVE  DecapsInv'
<1> USE SizeAssumption DEF DecE!SizeAssumption
<1>1. ASSUME NEW go \in BOOLEAN, Clock(go) PROVE DecapsInv'
  <2>1. DecapsTop' /\ DecryptCore' /\ EncryptCore'
    BY <1>1, DecapsTopStep, DecryptCoreStep, EncryptCoreStep DEF DecapsInv
  <2>2. done' => state = "DONE" /\ state' = "IDLE"
    BY <1>1, DecapsMoves DEF DecapsInv
  <2>3. ASSUME done' PROVE DecapsulationCorrect'
    <3>1. used' = <<dk_in, c_in>>
      BY <1>1, <2>2, <2>3, DecapsMoves DEF DecapsInv, DecapsTop
    <3>2. b_reg' = b_reg
      BY <1>1, <2>2, <2>3, EncryptCoreStep DEF DecapsInv
    <3>3. used'[1] = dk_in /\ used'[2] = c_in
      BY <3>1
    <3> QED
      BY <2>2, <2>3, <3>2, <3>3, DecapsResult DEF DecapsulationCorrect
  <2> QED
    BY <2>1, <2>2, <2>3 DEF DecapsInv, DecapsulationCorrect
<1>2. CASE Reset
  <2>1. DecE!Reset /\ decaps_a!Reset
    BY <1>2, DecapsInstanceReset DEF Reset
  <2>2. DecE!RestInv' /\ DecE!ResultInv' /\ DecE!ShapeInv'
    BY <2>1, DecE!RestStep, DecE!ShapeReset DEF DecapsInv, EncryptCore
  <2>3. b_state' = "IDLE" /\ ~b_done'
    BY <2>1 DEF DecE!Reset, DecE!Quiet
  <2>4. ARestInv' /\ a_state' = "IDLE" /\ ~a_done'
    BY <2>1, ARestReset DEF DecapsInv, DecryptCore
  <2>5. state' = "IDLE" /\ call' = "none" /\ ~done'
    BY <1>2 DEF Reset, Goes
  <2> QED
    BY <2>2, <2>3, <2>4, <2>5
       DEF DecapsInv, DecapsTop, DecryptCore, EncryptCore, DecapsulationCorrect
<1> QED
  BY <1>1, <1>2

LEMMA DecapsInstanceInit == decaps_b!Init => DecE!Init
BY DEF decaps_b!Init, DecE!Init, decaps_b!Units, DecE!Units, decaps_b!IdleUnit, DecE!IdleUnit,
       decaps_b!Vec, DecE!Vec, decaps_b!K, DecE!K, decaps_b!Loaded, DecE!Loaded,
       decaps_b!Poly, DecE!Poly, decaps_b!Indices, DecE!Indices, decaps_b!Coefficient,
       DecE!Coefficient, decaps_b!Forward!IdleDrive, DecE!Forward!IdleDrive,
       decaps_b!Forward!IdleNtt, DecE!Forward!IdleNtt, decaps_b!Forward!Loaded,
       DecE!Forward!Loaded, decaps_b!Forward!Poly, DecE!Forward!Poly,
       decaps_b!Forward!Indices, DecE!Forward!Indices, decaps_b!Forward!Coefficient,
       DecE!Forward!Coefficient

LEMMA DecapsDataInit == Init => DecapsInv
<1> SUFFICES ASSUME Init PROVE DecapsInv
  OBVIOUS
<1> USE SizeAssumption DEF DecE!SizeAssumption
<1>1. DecE!Init
  BY DecapsInstanceInit DEF Init
<1>2. DecE!RestInv /\ DecE!ResultInv /\ DecE!ShapeInv /\ b_state = "IDLE" /\ ~b_done
  BY <1>1, DecE!RestInit, DecE!ShapeInit DEF DecE!Init
<1>3. ARestInv /\ a_state = "IDLE" /\ ~a_done
  BY ARestInit DEF Init, decaps_a!Init
<1> QED
  BY <1>2, <1>3
     DEF Init, DecapsInv, DecapsTop, DecryptCore, EncryptCore, DecapsulationCorrect

-----------------------------------------------------------------------------
(***************************************************************************)
(* The operation that is clocked keeps its invariant, and the other one    *)
(* never reports a result.                                                 *)
(***************************************************************************)
ResultsInv ==
  /\ op \in {"encaps", "decaps"}
  /\ op = "encaps" => EncapsInv /\ ~done
  /\ op = "decaps" => DecapsInv /\ ~e_done

LEMMA ResultsStep ==
  ASSUME ResultsInv, [MCNext]_mcVars
  PROVE  ResultsInv'
<1>1. CASE EncapsReset \/ \E go \in BOOLEAN : Encaps(go)
  <2>1. op = "encaps" /\ op' = op /\ done' = done
    BY <1>1 DEF EncapsReset, Encaps, decapsVars, topVars
  <2>2. E!Reset \/ \E go \in BOOLEAN : E!Clock(go)
    BY <1>1 DEF EncapsReset, Encaps
  <2> QED
    BY <2>1, <2>2, EncapsStepData DEF ResultsInv
<1>2. CASE DecapsReset \/ \E go \in BOOLEAN : Decaps(go)
  <2>1. op = "decaps" /\ op' = op /\ e_done' = e_done
    BY <1>2 DEF DecapsReset, Decaps, encapsVars
  <2>2. Reset \/ \E go \in BOOLEAN : Clock(go)
    BY <1>2 DEF DecapsReset, Decaps
  <2> QED
    BY <2>1, <2>2, DecapsStepData DEF ResultsInv
<1>3. CASE UNCHANGED mcVars
  <2>1. UNCHANGED <<op, vars, encapsVars>>
    BY <1>3 DEF mcVars
  <2>2. /\ UNCHANGED <<b_state, b_ctr, b_fwd, b_inv, b_reg, b_done, b_call, b_in, b_unit, b_drive,
                       b_ntt>>
        /\ UNCHANGED <<op, topVars, aVars, ecuVars, encapsVars>>
    BY <2>1 DEF vars, bVars
  <2>3. ASSUME EncapsInv PROVE EncapsInv'
    <3>1. UNCHANGED <<e_state, e_done, e_call, msg, K_val, r_val, unit, ek_in, m_in, e_used>>
      BY <2>2 DEF encapsVars
    <3>2. /\ EncE!RestInv' /\ EncE!ResultInv' /\ EncE!ShapeInv'
          /\ \A w : EncE!DataInv(w) => EncE!DataInv(w)'
      BY <2>2, <2>3, EncE!RestStays, EncE!DataStays, SizeAssumption
         DEF EncapsInv, EncapsCore, EncE!SizeAssumption
    <3>3. EncapsTop' /\ E!EncapsulationCorrect'
      BY <2>2, <2>3, <3>1 DEF EncapsInv, EncapsTop, Hashed, EDerived, E!EncapsulationCorrect
    <3>4. EncapsCore'
      BY <2>2, <2>3, <3>1, <3>2 DEF EncapsInv, EncapsCore, EWires
    <3> QED
      BY <2>3, <3>1, <3>3, <3>4 DEF EncapsInv
  <2>4. ASSUME DecapsInv PROVE DecapsInv'
    <3>1. /\ UNCHANGED <<state, done, call, c_in, dk_in, used>>
          /\ UNCHANGED <<a_state, a_ctr, a_idx, a_reg, a_done, a_call, a_in, a_unit, a_drive,
                         a_ntt>>
      BY <2>2 DEF topVars, aVars, ecuVars
    <3>2. /\ DecE!RestInv' /\ DecE!ResultInv' /\ DecE!ShapeInv'
          /\ \A w : /\ DecE!DataInv(w) => DecE!DataInv(w)'
                    /\ DecE!Encrypted(w) => DecE!Encrypted(w)'
      BY <2>2, <2>4, DecE!RestStays, DecE!DataStays, SizeAssumption
         DEF DecapsInv, EncryptCore, DecE!SizeAssumption
    <3>3. ARestInv' /\ \A v : (APhaseInv(v) => APhaseInv(v)') /\ (Decrypted(v) => Decrypted(v)')
      BY <2>4, <3>1 DEF DecapsInv, DecryptCore, ARestInv, ACallInv, AStageInv, AShapeInv,
            APhaseInv, AStartInv, AForwardInv, AMultiplyInv, AInvertInv, AEncodeInv, AEndInv,
            Decrypted, decaps_a!m_prime_out
    <3>4. DWires' = DWires /\ AWires' = AWires
      BY <3>1 DEF DWires, AWires, decaps_a!m_prime_out
    <3>5. DecapsTop' /\ DecapsulationCorrect'
      BY <2>2, <2>4, <3>1 DEF DecapsInv, DecapsTop, DecapsulationCorrect
    <3>6. DecryptCore' /\ EncryptCore'
      BY <2>2, <2>4, <3>1, <3>2, <3>3, <3>4 DEF DecapsInv, DecryptCore, EncryptCore
    <3> QED
      BY <2>4, <3>1, <3>5, <3>6 DEF DecapsInv
  <2> QED
    BY <2>2, <2>3, <2>4 DEF topVars, encapsVars, ResultsInv
<1> QED
  BY <1>1, <1>2, <1>3 DEF MCNext

(***************************************************************************)
(* Each of the two operations gives, at done, what FIPS 203 makes of the   *)
(* buffers at START: Algorithm 17 of a key and a message, Algorithm 18 of  *)
(* a key and any ciphertext, honest or not, whatever earlier runs or a     *)
(* reset in the middle of one left in registers, counters, units and the   *)
(* memories of the two NTT cores.                                          *)
(***************************************************************************)
THEOREM ResultsAreCorrect == MCSpec => []ResultsCorrect
<1>1. MCInit => ResultsInv
  BY EncapsDataInit, DecapsDataInit DEF MCInit, ResultsInv, Init, E!Init
<1>2. ResultsInv /\ [MCNext]_mcVars => ResultsInv'
  BY ResultsStep
<1>3. ResultsInv => ResultsCorrect
  BY DEF ResultsInv, ResultsCorrect, DecapsInv, EncapsInv, DecapsulationCorrect,
         E!EncapsulationCorrect
<1> QED
  BY <1>1, <1>2, <1>3, PTL DEF MCSpec
=============================================================================
