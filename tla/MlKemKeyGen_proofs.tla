------------------------- MODULE MlKemKeyGen_proofs -------------------------
(***************************************************************************)
(* Proofs about the key generation core, for every set of seeds, every     *)
(* size of a polynomial, every length of the schedule and every latency.   *)
(***************************************************************************)
EXTENDS MlKemKeyGen, WellFoundedInduction, SequenceTheorems, TLAPS

Running == state # "IDLE"

\* A step between two states that are not idle.
Inside == Running /\ Running' /\ done' = FALSE

\* Storing into a state other than idle is such a step.
LEMMA StoresInside ==
  ASSUME Running, NEW s, s # "IDLE", NEW c, NEW r, Stores(s, c, r)
  PROVE  Inside
  BY DEF Inside, Running, Stores, NoPulse

LEMMA CallsInside ==
  ASSUME Running, NEW u, NEW x, NEW s, s # "IDLE", Calls(u, x, s)
  PROVE  Inside
  BY DEF Inside, Running, Calls

\* Every action of the FSM but the first, the last and the waiting keeps it
\* inside the run, whatever the counters say.
LEMMA WorkInside ==
  ASSUME \/ HashSeed \/ SampleMatrix \/ SampleVectors
         \/ FirstTransform \/ LoadCoefficient \/ SetUp \/ StartStage \/ EndStage
         \/ ReadCoefficient \/ NextTransform
         \/ MultiplyMatrix \/ Encode \/ HashKey \/ Assemble
  PROVE  Inside
<1>1. CASE HashSeed \/ HashKey
  BY <1>1, StoresInside, CallsInside DEF HashSeed, HashKey, Running
<1>2. CASE SampleMatrix \/ SampleVectors
  BY <1>2, StoresInside, CallsInside DEF SampleMatrix, SampleVectors, Running
<1>3. CASE FirstTransform \/ NextTransform
  BY <1>3, StoresInside DEF FirstTransform, NextTransform, Running
<1>4. CASE LoadCoefficient \/ SetUp \/ StartStage
  BY <1>4 DEF LoadCoefficient, SetUp, StartStage, NoPulse, Inside, Running
<1>5. CASE EndStage
  BY <1>5, StoresInside DEF EndStage, Running
<1>6. CASE ReadCoefficient
  BY <1>6, StoresInside DEF ReadCoefficient, Running
<1>7. CASE MultiplyMatrix
  BY <1>7, StoresInside DEF MultiplyMatrix, Running
<1>8. CASE Encode
  <2>1. CASE state = "ENCODE_T"
    BY <1>8, <2>1, StoresInside DEF Encode, Running
  <2>2. CASE state = "ENCODE_S"
    BY <1>8, <2>2 DEF Encode, NoPulse, Inside, Running
  <2> QED
    BY <1>8, <2>1, <2>2 DEF Encode
<1>9. CASE Assemble
  BY <1>9, StoresInside DEF Assemble, Running
<1> QED
  BY <1>1, <1>2, <1>3, <1>4, <1>5, <1>6, <1>7, <1>8, <1>9

\* Every step of the core is a step of the abstract operation.
LEMMA OperationStep == [Next]_vars => [Op!Next]_(Op!vars)
<1> SUFFICES ASSUME [Next]_vars PROVE [Op!Next]_(Op!vars)
  OBVIOUS
<1>1. CASE UNCHANGED vars
  BY <1>1 DEF vars, fsmVars, Op!vars
<1>2. CASE Reset
  BY <1>2 DEF Reset, NoPulse, Op!Next, Op!Reset
<1>3. ASSUME NEW go \in BOOLEAN, Clock(go) PROVE Op!Next
  <2>1. Fsm
    BY <1>3 DEF Clock
  <2>2. CASE Begin
    BY <2>2 DEF Begin, NoPulse, Op!Next, Op!Begin
  <2>3. CASE Complete
    BY <2>3 DEF Complete, Op!Next, Op!Finish
  <2>4. CASE Waiting /\ Waits
    BY <2>4 DEF Waits, Stores, NoPulse, Op!Next, Op!Quiet
  <2>5. CASE Inside
    BY <2>5 DEF Inside, Running, Op!Next, Op!Quiet
  <2> QED
    BY <2>1, <2>2, <2>3, <2>4, <2>5, WorkInside DEF Fsm
<1> QED
  BY <1>1, <1>2, <1>3 DEF Next

(***************************************************************************)
(* The core implements the operation the wrapper relies on: one START that *)
(* finds it idle gives one run and one edge of done, and reset ends a run  *)
(* without one, whatever the units' latencies and the counters.            *)
(***************************************************************************)
THEOREM CoreIsOperation == Spec => ImplementsOperation
<1>1. Init => Op!Init
  BY DEF Init, Op!Init
<1> QED
  BY <1>1, OperationStep, PTL DEF Spec, ImplementsOperation, Op!Spec

-----------------------------------------------------------------------------
(***************************************************************************)
(* The calls.  A unit runs only in its own wait state, where it has been   *)
(* started, runs, or is done; everywhere else it rests.                    *)
(***************************************************************************)
StartOf(u) == CASE u = "sha512" -> "START_SHA512" [] u = "samplentt" -> "START_SNTT"
                [] u = "cbd1"   -> "START_CBD"    [] OTHER           -> "START_SHA256"
WaitOf(u)  == CASE u = "sha512" -> "WAIT_SHA512"  [] u = "samplentt" -> "WAIT_SNTT"
                [] u = "cbd1"   -> "WAIT_CBD"     [] OTHER           -> "WAIT_SHA256"

Resting(u) == ~unit_start[u] /\ unit_fsm[u] = "IDLE" /\ ~unit_done[u]
Called(u)  == \/ unit_start[u] /\ unit_fsm[u] = "IDLE" /\ ~unit_done[u]
              \/ ~unit_start[u] /\ unit_fsm[u] \in {"ABSORB", "SQUEEZE"} /\ ~unit_done[u]
              \/ ~unit_start[u] /\ unit_fsm[u] = "IDLE" /\ unit_done[u]

CallInv ==
  /\ DOMAIN unit_in = Units
  /\ \A u \in Units : IF state = WaitOf(u) THEN Called(u) ELSE Resting(u)

(***************************************************************************)
(* The NTT core runs only in SCHED_WAIT; its second done edge falls on the *)
(* state after it; and nothing is loaded from the set-up to the end of a   *)
(* stage.                                                                  *)
(***************************************************************************)
StageInv ==
  /\ state = "SCHED_WAIT" => \/ ntt_start /\ ntt_fsm = "IDLE" /\ ~stage_done
                             \/ ~ntt_start /\ ntt_fsm = "RUN" /\ ~stage_done
                             \/ ~ntt_start /\ ntt_fsm = "DONE" /\ stage_done
  /\ state # "SCHED_WAIT" =>
       /\ ~ntt_start /\ ntt_fsm = "IDLE"
       /\ stage_done => state \in {"SCHED_SETUP", "READ"}
  /\ state \in {"SCHED_START", "SCHED_WAIT"} => ~load.valid

LEMMA CallInit == Init => CallInv /\ StageInv
  BY DEF Init, CallInv, StageInv, Resting, WaitOf, Units

\* What an edge of the FSM does to unit u, in terms of its two states.
FsmToUnit(u) ==
  /\ DOMAIN unit_in' = Units
  /\ state = StartOf(u) => unit_start'[u] /\ state' = WaitOf(u)
  /\ state # StartOf(u) => ~unit_start'[u]
  /\ state = WaitOf(u) => unit_in' = unit_in /\ (state' = state <=> ~unit_done[u])
  /\ state \notin {StartOf(u), WaitOf(u)} => state' # WaitOf(u)

LEMMA FsmUnit ==
  ASSUME Fsm, DOMAIN unit_in = Units, NEW u \in Units
  PROVE  FsmToUnit(u)
<1> USE DEF FsmToUnit, StartOf, WaitOf, Units, Stores, NoPulse, NoStart
<1>1. CASE Begin \/ Complete
  BY <1>1 DEF Begin, Complete
<1>2. CASE HashSeed
  BY <1>2 DEF HashSeed, Calls, Raise
<1>3. CASE SampleMatrix
  BY <1>3 DEF SampleMatrix, Calls, Raise
<1>4. CASE SampleVectors
  BY <1>4 DEF SampleVectors, Calls, Raise
<1>5. CASE HashKey
  BY <1>5 DEF HashKey, Calls, Raise
<1>6. CASE FirstTransform \/ NextTransform
  BY <1>6 DEF FirstTransform, NextTransform
<1>7. CASE LoadCoefficient
  BY <1>7 DEF LoadCoefficient
<1>8. CASE SetUp \/ StartStage
  BY <1>8 DEF SetUp, StartStage
<1>9. CASE EndStage \/ ReadCoefficient
  BY <1>9 DEF EndStage, ReadCoefficient
<1>10. CASE MultiplyMatrix
  BY <1>10 DEF MultiplyMatrix
<1>11. CASE Encode
  BY <1>11 DEF Encode
<1>12. CASE Assemble
  BY <1>12 DEF Assemble
<1>13. CASE Waiting /\ Waits
  BY <1>13 DEF Waiting, Waits
<1> QED
  BY <1>1, <1>2, <1>3, <1>4, <1>5, <1>6, <1>7, <1>8, <1>9, <1>10, <1>11, <1>12, <1>13 DEF Fsm

LEMMA UnitStep ==
  ASSUME CallInv, NEW go \in BOOLEAN, Clock(go), NEW u \in Units
  PROVE  (IF state = WaitOf(u) THEN Called(u) ELSE Resting(u))'
<1>1. FsmToUnit(u)
  BY FsmUnit DEF Clock, CallInv
<1>2. /\ unit_fsm'[u] = UnitNext(u, go)
      /\ unit_done'[u] = (unit_fsm[u] = "SQUEEZE" /\ go)
  BY DEF Clock, UnitsEdge
<1>3. IF state = WaitOf(u) THEN Called(u) ELSE Resting(u)
  BY DEF CallInv
<1>4. StartOf(u) # WaitOf(u)
  BY DEF StartOf, WaitOf, Units
<1>5. CASE state = WaitOf(u)
  <2>0. WaitOf(u)' = WaitOf(u) /\ ~unit_start'[u]
    BY <1>1, <1>4, <1>5 DEF FsmToUnit, WaitOf
  <2>1. CASE unit_start[u] /\ unit_fsm[u] = "IDLE" /\ ~unit_done[u]
    <3>1. unit_fsm'[u] = "ABSORB" /\ ~unit_done'[u] /\ state' = state
      BY <1>1, <1>2, <1>5, <2>1 DEF FsmToUnit, UnitNext
    <3> QED
      BY <1>5, <2>0, <3>1 DEF Called
  <2>2. CASE ~unit_start[u] /\ unit_fsm[u] \in {"ABSORB", "SQUEEZE"} /\ ~unit_done[u]
    <3>1. state' = state
      BY <1>1, <1>5, <2>2 DEF FsmToUnit
    <3>2. \/ unit_fsm'[u] \in {"ABSORB", "SQUEEZE"} /\ ~unit_done'[u]
          \/ unit_fsm'[u] = "IDLE" /\ unit_done'[u]
      BY <1>2, <2>2 DEF UnitNext
    <3> QED
      BY <1>5, <2>0, <3>1, <3>2 DEF Called
  <2>3. CASE ~unit_start[u] /\ unit_fsm[u] = "IDLE" /\ unit_done[u]
    <3>1. unit_fsm'[u] = "IDLE" /\ ~unit_done'[u] /\ state' # WaitOf(u)
      BY <1>1, <1>2, <1>5, <2>3 DEF FsmToUnit, UnitNext
    <3> QED
      BY <2>0, <3>1 DEF Resting
  <2> QED
    BY <1>3, <1>5, <2>1, <2>2, <2>3 DEF Called
<1>6. CASE state # WaitOf(u)
  BY <1>1, <1>2, <1>3, <1>4, <1>6 DEF FsmToUnit, Called, Resting, UnitNext, WaitOf
<1> QED
  BY <1>5, <1>6

LEMMA CallStep ==
  ASSUME CallInv, NEW go \in BOOLEAN, Clock(go)
  PROVE  CallInv'
<1>1. DOMAIN unit_in' = Units
  <2>1. "sha256" \in Units
    BY DEF Units
  <2> QED
    BY <2>1, FsmUnit DEF FsmToUnit, Clock, CallInv
<1> QED
  BY <1>1, UnitStep DEF CallInv

\* What an edge of the FSM does to the NTT core.
FsmToStage ==
  /\ state = "SCHED_START" => ntt_start' /\ state' = "SCHED_WAIT" /\ load' = load
  /\ state # "SCHED_START" => ~ntt_start'
  /\ state = "SCHED_WAIT" =>
       /\ load' = load
       /\ IF stage_done THEN state' \in {"SCHED_SETUP", "READ"} ELSE state' = state
  /\ state \notin {"SCHED_START", "SCHED_WAIT"} => state' # "SCHED_WAIT"
  /\ state = "SCHED_SETUP" => ~load'.valid
  /\ state # "SCHED_SETUP" => state' # "SCHED_START"

LEMMA FsmStage ==
  ASSUME Fsm, "valid" \in DOMAIN load
  PROVE  FsmToStage
<1> USE DEF FsmToStage, Stores, NoPulse, Held
<1>1. CASE Begin \/ Complete
  BY <1>1 DEF Begin, Complete
<1>2. CASE HashSeed \/ HashKey
  BY <1>2 DEF HashSeed, HashKey, Calls
<1>3. CASE SampleMatrix
  BY <1>3 DEF SampleMatrix, Calls
<1>4. CASE SampleVectors
  BY <1>4 DEF SampleVectors, Calls
<1>5. CASE FirstTransform \/ NextTransform
  BY <1>5 DEF FirstTransform, NextTransform
<1>6. CASE LoadCoefficient
  BY <1>6 DEF LoadCoefficient
<1>7. CASE SetUp
  BY <1>7 DEF SetUp
<1>8. CASE StartStage
  BY <1>8 DEF StartStage
<1>9. CASE EndStage
  BY <1>9 DEF EndStage
<1>10. CASE ReadCoefficient
  BY <1>10 DEF ReadCoefficient
<1>11. CASE MultiplyMatrix
  BY <1>11 DEF MultiplyMatrix
<1>12. CASE Encode
  BY <1>12 DEF Encode
<1>13. CASE Assemble
  BY <1>13 DEF Assemble
<1>14. CASE Waiting /\ Waits
  BY <1>14 DEF Waiting, Waits
<1> QED
  BY <1>1, <1>2, <1>3, <1>4, <1>5, <1>6, <1>7, <1>8, <1>9, <1>10, <1>11, <1>12, <1>13, <1>14 DEF Fsm

LoadShape == "valid" \in DOMAIN load

LEMMA ShapeStep ==
  ASSUME LoadShape, [Next]_vars
  PROVE  LoadShape'
<1>1. CASE UNCHANGED vars
  BY <1>1 DEF LoadShape, vars, fsmVars
<1>2. CASE Reset
  BY <1>2 DEF LoadShape, Reset
<1>3. ASSUME NEW go \in BOOLEAN, Clock(go) PROVE LoadShape'
  <2>1. CASE LoadCoefficient \/ SetUp \/ StartStage
    BY <2>1 DEF LoadCoefficient, SetUp, StartStage, Held, LoadShape
  <2>2. CASE UNCHANGED load
    BY <2>2 DEF LoadShape
  <2>3. Fsm => LoadCoefficient \/ SetUp \/ StartStage \/ UNCHANGED load
    BY DEF Fsm, Begin, HashSeed, SampleMatrix, SampleVectors, FirstTransform, EndStage,
           ReadCoefficient, NextTransform, MultiplyMatrix, Encode, HashKey, Assemble, Complete,
           Waits, Stores, Calls, Held
  <2> QED
    BY <1>3, <2>1, <2>2, <2>3 DEF Clock
<1> QED
  BY <1>1, <1>2, <1>3 DEF Next

LEMMA StageStep ==
  ASSUME StageInv, LoadShape, NEW go \in BOOLEAN, Clock(go)
  PROVE  StageInv'
<1>1. FsmToStage
  BY FsmStage DEF Clock, LoadShape
<1>2. /\ ntt_fsm' = NttNext(go)
      /\ stage_done' = (StageEnds(go) \/ ntt_fsm = "DONE")
  BY DEF Clock, NttEdge
<1>3. CASE state = "SCHED_WAIT"
  BY <1>1, <1>2, <1>3 DEF StageInv, FsmToStage, NttNext, StageEnds
<1>4. CASE state # "SCHED_WAIT"
  BY <1>1, <1>2, <1>4 DEF StageInv, FsmToStage, NttNext, StageEnds
<1> QED
  BY <1>3, <1>4

AtRestInv == CallInv /\ StageInv /\ LoadShape

LEMMA AtRestStep == AtRestInv /\ [Next]_vars => AtRestInv'
<1> SUFFICES ASSUME AtRestInv, [Next]_vars PROVE AtRestInv'
  OBVIOUS
<1>1. LoadShape'
  BY ShapeStep DEF AtRestInv
<1>2. CASE UNCHANGED vars
  BY <1>2 DEF AtRestInv, CallInv, StageInv, LoadShape, Called, Resting,
              vars, fsmVars, unitVars, nttVars
<1>3. CASE Reset
  <2>1. CallInv'
    BY <1>3 DEF AtRestInv, Reset, CallInv, Resting, WaitOf, NoPulse, NoStart
  <2>2. StageInv'
    BY <1>3 DEF Reset, StageInv, NoPulse
  <2> QED
    BY <1>1, <2>1, <2>2 DEF AtRestInv
<1>4. ASSUME NEW go \in BOOLEAN, Clock(go) PROVE AtRestInv'
  BY <1>1, <1>4, CallStep, StageStep DEF AtRestInv
<1> QED
  BY <1>2, <1>3, <1>4 DEF Next

\* In a step that starts where the calls are in order, nothing is disturbed.
CallsInOrder ==
  /\ \A u \in Units :
       /\ unit_start[u] => unit_fsm[u] = "IDLE"
       /\ unit_fsm[u] # "IDLE" => unit_in'[u] = unit_in[u]
  /\ ntt_start => ntt_fsm = "IDLE" /\ ~stage_done
  /\ ntt_fsm # "IDLE" => ~load.valid

LEMMA StepInOrder == AtRestInv /\ [Next]_vars => CallsInOrder
<1> SUFFICES ASSUME AtRestInv, [Next]_vars PROVE CallsInOrder
  OBVIOUS
<1>1. ASSUME NEW u \in Units
      PROVE  /\ unit_start[u] => unit_fsm[u] = "IDLE"
             /\ unit_fsm[u] # "IDLE" => unit_in'[u] = unit_in[u]
  <2>1. unit_start[u] => unit_fsm[u] = "IDLE"
    BY <1>1 DEF AtRestInv, CallInv, Called, Resting
  <2>2. unit_fsm[u] # "IDLE" => state = WaitOf(u)
    BY <1>1 DEF AtRestInv, CallInv, Resting
  <2>3. CASE UNCHANGED vars
    BY <2>1, <2>3 DEF vars, fsmVars
  <2>4. CASE Reset
    BY <2>1, <2>4 DEF Reset
  <2>5. ASSUME NEW go \in BOOLEAN, Clock(go), state = WaitOf(u) PROVE unit_in' = unit_in
    BY <1>1, <2>5, FsmUnit DEF FsmToUnit, Clock, AtRestInv, CallInv
  <2> QED
    BY <2>1, <2>2, <2>3, <2>4, <2>5 DEF Next
<1>2. /\ ntt_start => ntt_fsm = "IDLE" /\ ~stage_done
      /\ ntt_fsm # "IDLE" => ~load.valid
  BY DEF AtRestInv, StageInv
<1> QED
  BY <1>1, <1>2 DEF CallsInOrder

(***************************************************************************)
(* No unit needs a reset between two calls: each call finds its unit at    *)
(* rest and keeps its input to the end, and no stage meets a load or the   *)
(* done of the stage before, whatever a reset in the middle of a run left  *)
(* behind.                                                                 *)
(***************************************************************************)
THEOREM CallsAtRest == Spec => UnitsAtRest
<1>1. Init => AtRestInv
  BY CallInit DEF AtRestInv, LoadShape, Init
<1> QED
  BY <1>1, AtRestStep, StepInOrder, PTL DEF Spec, UnitsAtRest, CallsInOrder
-----------------------------------------------------------------------------
(***************************************************************************)
(* The keys.  What the registers hold in each state, in terms of the seed  *)
(* used.d of the run: the matrix, the vectors, their transforms, the       *)
(* products and the two keys, each up to where its counter has come.       *)
(***************************************************************************)
Hashing      == {"START_SHA512", "WAIT_SHA512"}
Sampling     == {"START_SNTT", "WAIT_SNTT", "SNTT_NEXT"}
Drawing      == {"START_CBD", "WAIT_CBD", "CBD_NEXT"}
Transforming == {"NTT_FWD_LOAD", "SCHED_SETUP", "SCHED_START", "SCHED_WAIT",
                 "READ", "READ_WAIT", "NTT_FWD_NEXT"}
Multiplying  == {"MATMUL", "MATMUL_NEXT"}
Encoding     == {"ENCODE_T", "ENCODE_S"}
Finishing    == {"START_SHA256", "WAIT_SHA256", "ASSEMBLE", "DONE"}

Counters == [i : Vec, j : Vec, n : 0 .. 3, fwd : 0 .. 3, mi : Vec, mj : Vec,
             load : Indices, read : Indices, sched : 0 .. Entries - 1]
Registers == {"rho", "sigma", "A", "s_vec", "e_vec", "s_hat", "e_hat", "t_hat", "acc", "poly",
              "H_ek", "ek", "dk"}

IsOver(f, S) == f = [x \in S |-> f[x]]

\* The counters keep their ranges, and the arrays their indices.
RegisterInv ==
  /\ ctr \in Counters
  /\ DOMAIN reg = Registers
  /\ IsOver(reg.A, Vec) /\ \A i \in Vec : IsOver(reg.A[i], Vec)
  /\ IsOver(reg.s_vec, Vec) /\ IsOver(reg.e_vec, Vec) /\ IsOver(reg.t_hat, Vec)
  /\ IsOver(reg.s_hat, Vec) /\ \A i \in Vec : IsOver(reg.s_hat[i], Indices)
  /\ IsOver(reg.e_hat, Vec) /\ \A i \in Vec : IsOver(reg.e_hat[i], Indices)
  /\ reg.dk = [pke |-> reg.dk.pke, ek |-> reg.dk.ek, h |-> reg.dk.h, z |-> reg.dk.z]

\* The m-th polynomial drawn, s_vec before e_vec, and where the code keeps it.
Sampled(m) == SampleCBD(Sigma(used.d), m)
Drawn(m)   == IF m < K THEN reg.s_vec[m] ELSE reg.e_vec[m - K]
Hat(m)     == IF m < K THEN reg.s_hat[m] ELSE reg.e_hat[m - K]

MatrixUpTo(n)   == \A i, j \in Vec : K * i + j < n => reg.A[i][j] = AHat(used.d, i, j)
VectorsUpTo(n)  == \A m \in 0 .. 3 : m < n => Drawn(m) = Sampled(m)
HatsUpTo(n)     == \A m \in 0 .. 3 : m < n => Hat(m) = Transform(Sampled(m))
HatUpTo(m, n)   == \A c \in Indices : c < n => Hat(m)[c] = Transform(Sampled(m))[c]
ProductsUpTo(n) == \A i \in Vec : i < n => reg.t_hat[i] = THat(used.d, i)

Product(i, j) == Multiply(AHat(used.d, i, j), SHat(used.d, j))

SeedInv ==
  /\ state # "IDLE" => z_seed = used.z
  /\ state \in Hashing => unit_in["sha512"] = used.d
  /\ state \notin Hashing \cup {"IDLE"} => reg.rho = Rho(used.d) /\ reg.sigma = Sigma(used.d)

MatrixInv ==
  /\ state \in {"START_SNTT", "WAIT_SNTT"} => MatrixUpTo(K * ctr.i + ctr.j)
  /\ state = "WAIT_SNTT" => unit_in["samplentt"] = <<reg.rho, ctr.j, ctr.i>>
  /\ state = "SNTT_NEXT" => MatrixUpTo(K * ctr.i + ctr.j + 1)
  /\ state \in Drawing \cup Transforming \cup Multiplying => MatrixUpTo(K * K)

VectorInv ==
  /\ state \in {"START_CBD", "WAIT_CBD"} => VectorsUpTo(ctr.n)
  /\ state = "WAIT_CBD" => unit_in["cbd1"] = <<reg.sigma, ctr.n>>
  /\ state = "CBD_NEXT" => VectorsUpTo(ctr.n + 1)
  /\ state \in Transforming => VectorsUpTo(2 * K)

TransformInv ==
  /\ state \in Transforming => reg.poly = Sampled(ctr.fwd) /\ HatsUpTo(ctr.fwd)
  /\ state \in {"READ", "READ_WAIT"} => HatUpTo(ctr.fwd, ctr.read)
  /\ state = "NTT_FWD_NEXT" => HatsUpTo(ctr.fwd + 1)
  /\ state \in Multiplying \cup Encoding => HatsUpTo(2 * K)

ProductInv ==
  /\ state \in Multiplying => ProductsUpTo(ctr.mi)
  /\ state = "MATMUL" => reg.acc = IF ctr.mj = 0 THEN Zero ELSE <<Product(ctr.mi, 0)>>
  /\ state = "MATMUL_NEXT" =>
       ctr.mj = 0 /\ reg.acc = <<Product(ctr.mi, 0), Product(ctr.mi, 1)>>
  /\ state \in Encoding => ProductsUpTo(K)

KeyInv ==
  /\ state \in {"ENCODE_S"} \cup Finishing => reg.ek = EncapsulationKey(used.d)
  /\ state \in Finishing => reg.dk.pke = [i \in Vec |-> ByteEncode12(SHat(used.d, i))]
  /\ state \in {"START_SHA256", "WAIT_SHA256"} => unit_in["sha256"] = reg.ek
  /\ state = "ASSEMBLE" => reg.H_ek = H(reg.ek)
  /\ state = "DONE" => reg.dk = DecapsulationKey(used.d, used.z)
  /\ done => state = "IDLE"
  /\ KeyPairCorrect

\* A unit that has absorbed its input holds the result for it.
ResultInv ==
  \A u \in Units : state = WaitOf(u) /\ (unit_fsm[u] = "SQUEEZE" \/ unit_done[u])
                     => unit_out[u] = Result(u, unit_in[u])

(***************************************************************************)
(* The NTT memory: poly up to the coefficient loaded, then poly after the  *)
(* stages that have ended, then the transform that is read back.           *)
(***************************************************************************)
Memory(f) ==
  LET memory[e \in 0 .. Entries] ==
        IF e = 0 THEN [c \in Indices |-> Coefficient(f, c)]
        ELSE Stage(e - 1, memory[e - 1])
  IN  memory

BankShape ==
  /\ load = [valid |-> load.valid, addr |-> load.addr, data |-> load.data]
  /\ load.addr \in Indices
  /\ IsOver(bank, Indices)

BankInv ==
  /\ state = "NTT_FWD_LOAD" =>
       \A c \in Indices : c < ctr.load => Loaded(bank)[c] = Coefficient(reg.poly, c)
  /\ state = "SCHED_SETUP" => Loaded(bank) = Memory(reg.poly)[ctr.sched]
  /\ state \in {"SCHED_START", "SCHED_WAIT"} => ntt_entry = ctr.sched
  /\ state = "SCHED_START" => bank = Memory(reg.poly)[ctr.sched]
  /\ state = "SCHED_WAIT" =>
       bank = Memory(reg.poly)[IF ntt_fsm = "DONE" THEN ctr.sched + 1 ELSE ctr.sched]
  /\ state \in {"READ", "READ_WAIT"} => ~load.valid /\ bank = Memory(reg.poly)[Entries]
  /\ state = "READ_WAIT" => read_data = bank[ctr.read]

DataInv ==
  RegisterInv /\ SeedInv /\ MatrixInv /\ VectorInv /\ TransformInv /\ ProductInv /\ KeyInv

PairInv == AtRestInv /\ DataInv /\ ResultInv /\ BankShape /\ BankInv

\* Any set of numbers has a smallest one.
LEMMA Smallest ==
  ASSUME NEW S \in SUBSET Nat, S # {}
  PROVE  \E n \in S : \A m \in S : n <= m
<1> DEFINE R == {p \in Nat \X Nat : p[1] < p[2]}
<1>1. IsWellFoundedOn(R, Nat)
  BY NatLessThanWellFounded DEF OpToRel
<1> HIDE DEF R
<1>2. PICK n \in S : \A m \in S : <<m, n>> \notin R
  BY <1>1, WFMin
<1>3. \A m \in S : m \in Nat /\ n \in Nat /\ (m < n => <<m, n>> \in R)
  BY DEF R
<1>4. ASSUME NEW m \in S PROVE n <= m
  <2>1. m \in Nat /\ n \in Nat /\ ~(m < n)
    BY <1>2, <1>3, <1>4, Zenon
  <2> QED
    BY <2>1
<1> QED
  BY <1>4

\* A function is the memory of f up to entry n.
IsMemory(f, n, memory) ==
  memory = [e \in 0 .. n |-> IF e = 0 THEN [c \in Indices |-> Coefficient(f, c)]
                             ELSE Stage(e - 1, memory[e - 1])]

\* The recursion that defines the memory has a solution of any length: the
\* smallest length without one would follow one that has.
LEMMA MemoryExists ==
  ASSUME NEW f
  PROVE  \A n \in Nat : \E memory : IsMemory(f, n, memory)
<1> DEFINE S == {n \in Nat : ~ \E memory : IsMemory(f, n, memory)}
<1> SUFFICES ASSUME S # {} PROVE FALSE
  OBVIOUS
<1>1. PICK n \in S : \A m \in S : n <= m
  <2>1. S \in SUBSET Nat
    OBVIOUS
  <2> HIDE DEF S
  <2> QED
    BY <2>1, Smallest
<1>2. n # 0
  <2>1. IsMemory(f, 0, [e \in 0 .. 0 |-> [c \in Indices |-> Coefficient(f, c)]])
    BY DEF IsMemory
  <2> QED
    BY <2>1
<1>3. n - 1 \in Nat /\ n - 1 \notin S
  BY <1>1, <1>2
<1>4. PICK before : IsMemory(f, n - 1, before)
  BY <1>3
<1> DEFINE memory == [e \in 0 .. n |-> IF e = n THEN Stage(n - 1, before[n - 1]) ELSE before[e]]
<1>5. \A e \in 0 .. n : memory[e] = IF e = 0 THEN [c \in Indices |-> Coefficient(f, c)]
                                    ELSE Stage(e - 1, memory[e - 1])
  BY <1>2, <1>3, <1>4 DEF IsMemory
<1>6. memory = [e \in 0 .. n |-> memory[e]]
  OBVIOUS
<1>7. IsMemory(f, n, memory)
  <2> HIDE DEF memory
  <2> QED
    BY <1>5, <1>6 DEF IsMemory
<1> QED
  BY <1>7

\* What the memory is before and after each entry.
LEMMA MemoryStages ==
  ASSUME NEW f
  PROVE  /\ Memory(f)[0] = [c \in Indices |-> Coefficient(f, c)]
         /\ \A e \in 0 .. Entries - 1 : Memory(f)[e + 1] = Stage(e, Memory(f)[e])
         /\ Memory(f)[Entries] = Transform(f)
<1>1. PICK memory : IsMemory(f, Entries, memory)
  BY MemoryExists, SizeAssumption
<1>2. IsMemory(f, Entries, Memory(f))
  BY <1>1 DEF Memory, IsMemory
<1>3. Memory(f)[0] = [c \in Indices |-> Coefficient(f, c)]
  BY <1>2, SizeAssumption DEF IsMemory
<1>4. ASSUME NEW e \in 0 .. Entries - 1 PROVE Memory(f)[e + 1] = Stage(e, Memory(f)[e])
  <2>1. e + 1 \in 0 .. Entries /\ e + 1 # 0 /\ (e + 1) - 1 = e
    BY SizeAssumption
  <2> QED
    BY <1>2, <2>1 DEF IsMemory
<1>5. Memory(f)[Entries] = Transform(f)
  BY DEF Memory, Transform
<1> QED
  BY <1>3, <1>4, <1>5

\* What a step of a run leaves as it is.
InRun == state # "IDLE" /\ used' = used /\ z_seed' = z_seed

\* A step that leaves the registers and their counters alone.
LEMMA RegistersKept ==
  ASSUME RegisterInv, UNCHANGED <<ctr, reg>>
  PROVE  RegisterInv'
BY DEF RegisterInv

LEMMA BeginData ==
  ASSUME DataInv, CallInv, Ecu, Begin
  PROVE  DataInv'
<1>1. /\ state' = "START_SHA512" /\ unit_in' = [unit_in EXCEPT !["sha512"] = d_seed]
      /\ used' = [d |-> d_seed, z |-> z_seed] /\ z_seed' = z_seed /\ ~done'
      /\ UNCHANGED <<ctr, reg>>
  BY DEF Begin, Ecu, NoPulse
<1>2. RegisterInv'
  BY <1>1, RegistersKept DEF DataInv
<1>3. SeedInv'
  BY <1>1 DEF SeedInv, Hashing, CallInv, Units
<1>4. (MatrixInv /\ VectorInv /\ TransformInv /\ ProductInv)'
  BY <1>1 DEF MatrixInv, VectorInv, TransformInv, ProductInv,
              Drawing, Transforming, Multiplying, Encoding
<1>5. KeyInv'
  BY <1>1 DEF KeyInv, Finishing, KeyPairCorrect
<1> QED
  BY <1>2, <1>3, <1>4, <1>5 DEF DataInv

LEMMA SeedData ==
  ASSUME DataInv, CallInv, ResultInv, InRun, HashSeed
  PROVE  DataInv'
<1> USE DEF InRun
<1>1. CASE state = "START_SHA512" /\ Calls("sha512", unit_in["sha512"], "WAIT_SHA512")
  <2>1. /\ state' = "WAIT_SHA512" /\ unit_in'["sha512"] = unit_in["sha512"] /\ ~done'
        /\ UNCHANGED <<ctr, reg>>
    BY <1>1 DEF Calls, CallInv, Units
  <2>2. RegisterInv'
    BY <2>1, RegistersKept DEF DataInv
  <2>3. SeedInv'
    BY <1>1, <2>1 DEF DataInv, SeedInv, Hashing
  <2>4. (MatrixInv /\ VectorInv /\ TransformInv /\ ProductInv)'
    BY <2>1 DEF MatrixInv, VectorInv, TransformInv, ProductInv,
                Drawing, Transforming, Multiplying, Encoding
  <2>5. KeyInv'
    BY <2>1 DEF KeyInv, Finishing, KeyPairCorrect
  <2> QED
    BY <2>2, <2>3, <2>4, <2>5 DEF DataInv
<1>2. ASSUME state = "WAIT_SHA512", unit_done["sha512"],
             Stores("START_SNTT", [ctr EXCEPT !.i = 0, !.j = 0],
                    [reg EXCEPT !.rho = unit_out["sha512"][1], !.sigma = unit_out["sha512"][2]])
      PROVE  DataInv'
  <2>1. /\ state' = "START_SNTT" /\ ~done' /\ unit_in' = unit_in
        /\ ctr' = [ctr EXCEPT !.i = 0, !.j = 0]
        /\ reg' = [reg EXCEPT !.rho = unit_out["sha512"][1], !.sigma = unit_out["sha512"][2]]
    BY <1>2 DEF Stores, NoPulse
  <2>2. ctr' \in Counters /\ ctr'.i = 0 /\ ctr'.j = 0
    <3>1. 0 \in Vec
      BY DEF Vec, K
    <3> QED
      BY <2>1, <3>1 DEF Counters, DataInv, RegisterInv
  <2>3. DOMAIN reg' = Registers /\ \A x \in Registers \ {"rho", "sigma"} : reg'[x] = reg[x]
    BY <2>1 DEF DataInv, RegisterInv, Registers
  <2>4. RegisterInv'
    BY <2>2, <2>3 DEF DataInv, RegisterInv, Registers
  <2>5. unit_out["sha512"] = <<Rho(used.d), Sigma(used.d)>>
    BY <1>2 DEF DataInv, SeedInv, Hashing, ResultInv, Result, WaitOf, Units
  <2>6. reg'.rho = Rho(used.d) /\ reg'.sigma = Sigma(used.d)
    BY <2>1, <2>5 DEF DataInv, RegisterInv, Registers
  <2>7. SeedInv'
    BY <1>2, <2>1, <2>6 DEF DataInv, SeedInv, Hashing, Rho, Sigma
  <2>8. MatrixInv'
    BY <2>1, <2>2 DEF MatrixInv, MatrixUpTo, Drawing, Transforming, Multiplying, Vec, K
  <2>9. (VectorInv /\ TransformInv /\ ProductInv)'
    BY <2>1 DEF VectorInv, TransformInv, ProductInv, Transforming, Multiplying, Encoding
  <2>10. KeyInv'
    BY <2>1 DEF KeyInv, Finishing, KeyPairCorrect
  <2> QED
    BY <2>4, <2>7, <2>8, <2>9, <2>10 DEF DataInv
<1> QED
  BY <1>1, <1>2 DEF HashSeed

\* The next matrix entry, in the order the counters take.
LEMMA MatrixGrows ==
  ASSUME NEW n \in Nat, MatrixUpTo(n), NEW i \in Vec, NEW j \in Vec, K * i + j = n,
         IsOver(reg.A, Vec), \A a \in Vec : IsOver(reg.A[a], Vec),
         used' = used, reg'.A = [reg.A EXCEPT ![i] = [@ EXCEPT ![j] = AHat(used.d, i, j)]]
  PROVE  (\A a, b \in Vec : K * a + b < n + 1 => reg.A[a][b] = AHat(used.d, a, b))'
<1> SUFFICES ASSUME NEW a \in Vec, NEW b \in Vec, K * a + b < n + 1
             PROVE  reg'.A[a][b] = AHat(used.d, a, b)
  BY DEF AHat, SampleNTT, Rho
<1>1. CASE a = i /\ b = j
  BY <1>1 DEF IsOver
<1>2. CASE a # i \/ b # j
  <2>1. K * a + b < n
    BY <1>2 DEF K, Vec
  <2>2. reg'.A[a][b] = reg.A[a][b]
    BY <1>2 DEF IsOver
  <2> QED
    BY <2>1, <2>2 DEF MatrixUpTo
<1> QED
  BY <1>1, <1>2

LEMMA MatrixData ==
  ASSUME DataInv, CallInv, ResultInv, InRun, SampleMatrix
  PROVE  DataInv'
<1> USE DEF InRun
<1>0. /\ state' \in Sampling \cup {"START_CBD"}
      /\ state \in Sampling /\ ~done'
      /\ DOMAIN reg' = Registers /\ \A x \in Registers \ {"A"} : reg'[x] = reg[x]
  BY DEF SampleMatrix, Stores, Calls, NoPulse, Sampling, DataInv, RegisterInv, Registers
<1>1. SeedInv'
  BY <1>0 DEF DataInv, SeedInv, Hashing, Sampling, Registers, Rho, Sigma
<1>2. (TransformInv /\ ProductInv)'
  BY <1>0 DEF TransformInv, ProductInv, Sampling, Transforming, Multiplying, Encoding
<1>3. KeyInv'
  BY <1>0 DEF KeyInv, Finishing, KeyPairCorrect, Sampling
<1>4. ctr.i \in Vec /\ ctr.j \in Vec
  BY DEF DataInv, RegisterInv, Counters
<1>5. CASE /\ state = "START_SNTT"
           /\ Calls("samplentt", <<reg.rho, ctr.j, ctr.i>>, "WAIT_SNTT")
  <2>1. /\ state' = "WAIT_SNTT" /\ unit_in'["samplentt"] = <<reg.rho, ctr.j, ctr.i>>
        /\ UNCHANGED <<ctr, reg>>
    BY <1>5 DEF Calls, CallInv, Units
  <2>2. RegisterInv'
    BY <2>1, RegistersKept DEF DataInv
  <2>3. MatrixInv'
    BY <1>5, <2>1 DEF DataInv, MatrixInv, MatrixUpTo, AHat, SampleNTT, Rho,
                      Drawing, Transforming, Multiplying
  <2>4. VectorInv'
    BY <2>1 DEF VectorInv, Transforming
  <2> QED
    BY <1>1, <1>2, <1>3, <2>2, <2>3, <2>4 DEF DataInv
<1>6. ASSUME state = "WAIT_SNTT", unit_done["samplentt"],
             Stores("SNTT_NEXT", ctr, [reg EXCEPT !.A[ctr.i][ctr.j] = unit_out["samplentt"]])
      PROVE  DataInv'
  <2>1. /\ state' = "SNTT_NEXT" /\ ctr' = ctr
        /\ reg'.A = [reg.A EXCEPT ![ctr.i] = [@ EXCEPT ![ctr.j] = unit_out["samplentt"]]]
    BY <1>6 DEF Stores, DataInv, RegisterInv, Registers
  <2>2. IsOver(reg'.A, Vec) /\ \A i \in Vec : IsOver(reg'.A[i], Vec)
    <3>1. DOMAIN reg.A = Vec /\ \A i \in Vec : IsOver(reg.A[i], Vec)
      BY DEF DataInv, RegisterInv, IsOver
    <3>2. IsOver(reg'.A, Vec)
      BY <2>1, <3>1 DEF IsOver
    <3>3. \A i \in Vec \ {ctr.i} : reg'.A[i] = reg.A[i]
      BY <2>1, <3>1
    <3>4. reg'.A[ctr.i] = [reg.A[ctr.i] EXCEPT ![ctr.j] = unit_out["samplentt"]]
      BY <1>4, <2>1, <3>1
    <3>5. IsOver(reg'.A[ctr.i], Vec)
      BY <1>4, <3>1, <3>4 DEF IsOver
    <3> QED
      BY <3>1, <3>2, <3>3, <3>5
  <2>3. RegisterInv'
    BY <1>0, <2>1, <2>2 DEF DataInv, RegisterInv, Registers
  <2>4. unit_out["samplentt"] = AHat(used.d, ctr.i, ctr.j)
    BY <1>6 DEF DataInv, SeedInv, Hashing, MatrixInv, ResultInv, Result, WaitOf, Units, AHat
  <2>5. MatrixInv'
    <3>1. K * ctr.i + ctr.j \in Nat /\ MatrixUpTo(K * ctr.i + ctr.j)
      BY <1>4, <1>6 DEF K, Vec, DataInv, MatrixInv
    <3>2. MatrixUpTo(K * ctr.i + ctr.j + 1)'
      BY <1>4, <2>1, <2>4, <3>1, MatrixGrows DEF MatrixUpTo, DataInv, RegisterInv
    <3> QED
      BY <2>1, <3>2 DEF MatrixInv, Drawing, Transforming, Multiplying
  <2>6. VectorInv'
    BY <2>1 DEF VectorInv, Transforming
  <2> QED
    BY <1>1, <1>2, <1>3, <2>3, <2>5, <2>6 DEF DataInv
<1>7. ASSUME state = "SNTT_NEXT", UNCHANGED reg, ctr' \in Counters,
             \/ state' = "START_SNTT" /\ K * ctr.i + ctr.j + 1 = K * ctr'.i + ctr'.j
             \/ state' = "START_CBD" /\ K * ctr.i + ctr.j + 1 = K * K /\ ctr'.n = 0
      PROVE  DataInv'
  <2>1. RegisterInv'
    BY <1>7 DEF DataInv, RegisterInv
  <2>2. MatrixInv'
    BY <1>7 DEF DataInv, MatrixInv, MatrixUpTo, AHat, SampleNTT, Rho,
                Drawing, Transforming, Multiplying
  <2>3. VectorInv'
    BY <1>7 DEF VectorInv, VectorsUpTo, Transforming
  <2> QED
    BY <1>1, <1>2, <1>3, <2>1, <2>2, <2>3 DEF DataInv
<1>8. ASSUME state = "SNTT_NEXT", ctr.j < K - 1,
             Stores("START_SNTT", [ctr EXCEPT !.j = @ + 1], reg)
      PROVE  DataInv'
  <2>1. ctr.j + 1 \in Vec
    BY <1>4, <1>8 DEF Vec, K
  <2>2. ctr' \in Counters /\ ctr'.i = ctr.i /\ ctr'.j = ctr.j + 1
    BY <1>8, <2>1 DEF Stores, DataInv, RegisterInv, Counters
  <2> QED
    BY <1>4, <1>7, <1>8, <2>2 DEF Stores, Vec, K
<1>9. ASSUME state = "SNTT_NEXT", ctr.j = K - 1, ctr.i < K - 1,
             Stores("START_SNTT", [ctr EXCEPT !.j = 0, !.i = @ + 1], reg)
      PROVE  DataInv'
  <2>1. 0 \in Vec /\ ctr.i + 1 \in Vec
    BY <1>4, <1>9 DEF Vec, K
  <2>2. ctr' \in Counters /\ ctr'.i = ctr.i + 1 /\ ctr'.j = 0
    BY <1>9, <2>1 DEF Stores, DataInv, RegisterInv, Counters
  <2> QED
    BY <1>4, <1>7, <1>9, <2>2 DEF Stores, Vec, K
<1>10. ASSUME state = "SNTT_NEXT", ctr.j = K - 1, ctr.i = K - 1,
              Stores("START_CBD", [ctr EXCEPT !.j = 0, !.i = 0, !.n = 0], reg)
       PROVE  DataInv'
  <2>1. 0 \in Vec /\ 0 \in 0 .. 3
    BY DEF Vec, K
  <2>2. ctr' \in Counters /\ ctr'.n = 0
    BY <1>10, <2>1 DEF Stores, DataInv, RegisterInv, Counters
  <2> QED
    BY <1>7, <1>10, <2>2 DEF Stores, K
<1> QED
  BY <1>5, <1>6, <1>8, <1>9, <1>10 DEF SampleMatrix

\* The next polynomial drawn, s_vec before e_vec.
LEMMA VectorsGrow ==
  ASSUME RegisterInv, VectorsUpTo(ctr.n), used' = used, ctr' = ctr,
         reg' = IF ctr.n < K THEN [reg EXCEPT !.s_vec[ctr.n % 2] = Sampled(ctr.n)]
                             ELSE [reg EXCEPT !.e_vec[ctr.n % 2] = Sampled(ctr.n)]
  PROVE  /\ DOMAIN reg' = Registers
         /\ \A x \in Registers \ {"s_vec", "e_vec"} : reg'[x] = reg[x]
         /\ IsOver(reg'.s_vec, Vec) /\ IsOver(reg'.e_vec, Vec)
         /\ (\A m \in 0 .. 3 : m < ctr.n + 1 => Drawn(m) = Sampled(m))'
<1>1. /\ ctr.n \in 0 .. 3 /\ DOMAIN reg = Registers
      /\ IsOver(reg.s_vec, Vec) /\ IsOver(reg.e_vec, Vec)
  BY DEF RegisterInv, Counters
<1>2. /\ \A m \in 0 .. 3 : Sampled(m)' = Sampled(m)
      /\ \A m \in 0 .. 3 : m < ctr.n => Drawn(m) = Sampled(m)
  BY DEF Sampled, SampleCBD, Sigma, VectorsUpTo
<1>3. CASE ctr.n < K
  <2>1. ctr.n % 2 = ctr.n /\ ctr.n \in Vec
    BY <1>1, <1>3 DEF K, Vec
  <2>2. reg' = [reg EXCEPT !.s_vec[ctr.n] = Sampled(ctr.n)]
    BY <1>3, <2>1
  <2>3. /\ DOMAIN reg' = Registers /\ reg'.e_vec = reg.e_vec
        /\ \A x \in Registers \ {"s_vec", "e_vec"} : reg'[x] = reg[x]
        /\ reg'.s_vec = [reg.s_vec EXCEPT ![ctr.n] = Sampled(ctr.n)]
    BY <1>1, <2>2 DEF Registers
  <2>4. IsOver(reg'.s_vec, Vec)
    BY <1>1, <2>3 DEF IsOver
  <2>5. ASSUME NEW m \in 0 .. 3, m < ctr.n + 1
        PROVE  (IF m < K THEN reg'.s_vec[m] ELSE reg'.e_vec[m - K]) = Sampled(m)
    BY <1>1, <1>2, <1>3, <2>1, <2>3, <2>5 DEF IsOver, Drawn, K, Vec
  <2> QED
    BY <1>1, <1>2, <2>3, <2>4, <2>5 DEF Drawn
<1>4. CASE ~(ctr.n < K)
  <2>1. ctr.n % 2 = ctr.n - K /\ ctr.n - K \in Vec
    BY <1>1, <1>4 DEF K, Vec
  <2>2. reg' = [reg EXCEPT !.e_vec[ctr.n - K] = Sampled(ctr.n)]
    BY <1>4, <2>1
  <2>3. /\ DOMAIN reg' = Registers /\ reg'.s_vec = reg.s_vec
        /\ \A x \in Registers \ {"s_vec", "e_vec"} : reg'[x] = reg[x]
        /\ reg'.e_vec = [reg.e_vec EXCEPT ![ctr.n - K] = Sampled(ctr.n)]
    BY <1>1, <2>2 DEF Registers
  <2>4. IsOver(reg'.e_vec, Vec)
    BY <1>1, <2>3 DEF IsOver
  <2>5. ASSUME NEW m \in 0 .. 3, m < ctr.n + 1
        PROVE  (IF m < K THEN reg'.s_vec[m] ELSE reg'.e_vec[m - K]) = Sampled(m)
    BY <1>1, <1>2, <1>4, <2>1, <2>3, <2>5 DEF IsOver, Drawn, K, Vec
  <2> QED
    BY <1>1, <1>2, <2>3, <2>4, <2>5 DEF Drawn
<1> QED
  BY <1>3, <1>4

LEMMA VectorData ==
  ASSUME DataInv, CallInv, ResultInv, InRun, SampleVectors
  PROVE  DataInv'
<1> USE DEF InRun
<1>0. /\ state' \in Drawing /\ state \in Drawing /\ ~done'
      /\ DOMAIN reg' = Registers /\ \A x \in Registers \ {"s_vec", "e_vec"} : reg'[x] = reg[x]
  BY DEF SampleVectors, Stores, Calls, NoPulse, Drawing, DataInv, RegisterInv, Registers
<1>1. SeedInv'
  BY <1>0 DEF DataInv, SeedInv, Hashing, Drawing, Registers, Rho, Sigma
<1>2. MatrixInv'
  BY <1>0 DEF DataInv, MatrixInv, MatrixUpTo, AHat, SampleNTT, Rho, Registers,
              Drawing, Transforming, Multiplying, K
<1>3. (TransformInv /\ ProductInv)'
  BY <1>0 DEF TransformInv, ProductInv, Drawing, Transforming, Multiplying, Encoding
<1>4. KeyInv'
  BY <1>0 DEF KeyInv, Finishing, KeyPairCorrect, Drawing
<1>5. ctr.n \in 0 .. 3
  BY DEF DataInv, RegisterInv, Counters
<1>6. CASE state = "START_CBD" /\ Calls("cbd1", <<reg.sigma, ctr.n>>, "WAIT_CBD")
  <2>1. /\ state' = "WAIT_CBD" /\ unit_in'["cbd1"] = <<reg.sigma, ctr.n>>
        /\ UNCHANGED <<ctr, reg>>
    BY <1>6 DEF Calls, CallInv, Units
  <2>2. RegisterInv'
    BY <2>1, RegistersKept DEF DataInv
  <2>3. VectorInv'
    BY <1>6, <2>1 DEF DataInv, VectorInv, VectorsUpTo, Drawn, Sampled, SampleCBD, Sigma,
                      Transforming
  <2> QED
    BY <1>1, <1>2, <1>3, <1>4, <2>2, <2>3 DEF DataInv
<1>7. ASSUME state = "WAIT_CBD", unit_done["cbd1"],
             Stores("CBD_NEXT", ctr,
                    IF ctr.n < K THEN [reg EXCEPT !.s_vec[ctr.n % 2] = unit_out["cbd1"]]
                                 ELSE [reg EXCEPT !.e_vec[ctr.n % 2] = unit_out["cbd1"]])
      PROVE  DataInv'
  <2>1. state' = "CBD_NEXT" /\ ctr' = ctr
    BY <1>7 DEF Stores
  <2>2. unit_out["cbd1"] = Sampled(ctr.n)
    BY <1>7 DEF DataInv, SeedInv, Hashing, VectorInv, ResultInv, Result, WaitOf, Units, Sampled
  <2>3. RegisterInv /\ VectorsUpTo(ctr.n)
    BY <1>7 DEF DataInv, VectorInv
  <2>4. /\ IsOver(reg'.s_vec, Vec) /\ IsOver(reg'.e_vec, Vec)
        /\ (\A m \in 0 .. 3 : m < ctr.n + 1 => Drawn(m) = Sampled(m))'
    BY <1>7, <2>1, <2>2, <2>3, VectorsGrow DEF Stores
  <2>5. RegisterInv'
    BY <1>0, <2>1, <2>4 DEF DataInv, RegisterInv, Registers
  <2>6. VectorInv'
    BY <2>1, <2>4 DEF VectorInv, VectorsUpTo, Transforming
  <2> QED
    BY <1>1, <1>2, <1>3, <1>4, <2>5, <2>6 DEF DataInv
<1>8. ASSUME state = "CBD_NEXT", ctr.n < 2 * K - 1,
             Stores("START_CBD", [ctr EXCEPT !.n = @ + 1], reg)
      PROVE  DataInv'
  <2>1. ctr.n + 1 \in 0 .. 3
    BY <1>5, <1>8 DEF K
  <2>2. ctr' \in Counters /\ ctr'.n = ctr.n + 1 /\ state' = "START_CBD" /\ reg' = reg
    BY <1>8, <2>1 DEF Stores, DataInv, RegisterInv, Counters
  <2>3. RegisterInv'
    BY <2>2 DEF DataInv, RegisterInv
  <2>4. VectorInv'
    BY <1>8, <2>2 DEF DataInv, VectorInv, VectorsUpTo, Drawn, Sampled, SampleCBD, Sigma,
                      Transforming
  <2> QED
    BY <1>1, <1>2, <1>3, <1>4, <2>3, <2>4 DEF DataInv
<1> QED
  BY <1>6, <1>7, <1>8 DEF SampleVectors

\* A transform under way changes no register and not the transform's number.
LEMMA StageData ==
  ASSUME DataInv, InRun, LoadCoefficient \/ SetUp \/ StartStage \/ EndStage
  PROVE  DataInv'
<1> USE DEF InRun
<1>1. /\ state \in Transforming /\ state' \in Transforming \ {"READ_WAIT", "NTT_FWD_NEXT"}
      /\ ~done' /\ reg' = reg
  BY DEF LoadCoefficient, SetUp, StartStage, EndStage, Stores, NoPulse, Transforming
<1>2. /\ ctr' \in Counters /\ ctr'.fwd = ctr.fwd
      /\ state' = "READ" => ctr'.read = 0
  <2>1. /\ ctr \in Counters /\ 0 \in Indices /\ 0 \in 0 .. Entries - 1
        /\ ctr.load \in Indices /\ ctr.sched \in 0 .. Entries - 1
    BY SizeAssumption DEF DataInv, RegisterInv, Counters, Indices
  <2>2. CASE LoadCoefficient
    <3>1. ctr.load < Coeffs - 1 => ctr.load + 1 \in Indices
      BY <2>1, SizeAssumption DEF Indices
    <3> QED
      BY <2>1, <2>2, <3>1 DEF LoadCoefficient, Counters
  <2>3. CASE SetUp \/ StartStage
    BY <2>1, <2>3 DEF SetUp, StartStage
  <2>4. CASE EndStage
    <3>1. ctr.sched # Entries - 1 => ctr.sched + 1 \in 0 .. Entries - 1
      BY <2>1, SizeAssumption
    <3> QED
      BY <2>1, <2>4, <3>1 DEF EndStage, Stores, Counters
  <2> QED
    BY <2>2, <2>3, <2>4
<1>3. RegisterInv'
  BY <1>1, <1>2 DEF DataInv, RegisterInv
<1>4. SeedInv'
  BY <1>1 DEF DataInv, SeedInv, Hashing, Transforming, Rho, Sigma
<1>5. MatrixInv'
  BY <1>1 DEF DataInv, MatrixInv, MatrixUpTo, AHat, SampleNTT, Rho,
              Drawing, Transforming, Multiplying, K
<1>6. VectorInv'
  BY <1>1 DEF DataInv, VectorInv, VectorsUpTo, Drawn, Sampled, SampleCBD, Sigma, Transforming, K
<1>7. TransformInv'
  BY <1>1, <1>2 DEF DataInv, TransformInv, HatsUpTo, HatUpTo, Hat, Sampled, SampleCBD, Sigma,
                    Transforming, Multiplying, Encoding, Indices
<1>8. (ProductInv /\ KeyInv)'
  BY <1>1 DEF ProductInv, KeyInv, Transforming, Multiplying, Encoding, Finishing, KeyPairCorrect
<1> QED
  BY <1>3, <1>4, <1>5, <1>6, <1>7, <1>8 DEF DataInv

\* A transform begins: the next polynomial in poly, nothing of it loaded.
LEMMA TransformData ==
  ASSUME DataInv, InRun, FirstTransform \/ NextTransform
  PROVE  DataInv'
<1> USE DEF InRun
<1>0. DOMAIN reg = Registers /\ ctr \in Counters /\ ctr.fwd \in 0 .. 3 /\ ctr.n \in 0 .. 3
  BY DEF DataInv, RegisterInv, Counters
<1>1. /\ state \in {"CBD_NEXT", "NTT_FWD_NEXT"} /\ state' = "NTT_FWD_LOAD" /\ ~done'
      /\ DOMAIN reg' = Registers /\ \A x \in Registers \ {"poly"} : reg'[x] = reg[x]
  BY <1>0 DEF FirstTransform, NextTransform, Stores, NoPulse, Registers
<1>2. VectorsUpTo(4)
  BY <1>0 DEF DataInv, VectorInv, VectorsUpTo, FirstTransform, NextTransform, Transforming, K
<1>3. /\ ctr' \in Counters
      /\ reg'.poly = Sampled(ctr'.fwd)
      /\ HatsUpTo(ctr'.fwd)
  <2>1. 0 \in 0 .. 3 /\ 0 \in Indices
    BY SizeAssumption DEF Indices
  <2>2. CASE FirstTransform
    <3>1. ctr' = [ctr EXCEPT !.fwd = 0, !.load = 0] /\ reg' = [reg EXCEPT !.poly = reg.s_vec[0]]
      BY <2>2 DEF FirstTransform, Stores
    <3>2. ctr' \in Counters /\ ctr'.fwd = 0
      BY <1>0, <2>1, <3>1 DEF Counters
    <3>3. reg'.poly = Sampled(0)
      BY <1>0, <1>2, <3>1 DEF VectorsUpTo, Drawn, Registers, K
    <3> QED
      BY <3>2, <3>3 DEF HatsUpTo
  <2>3. CASE NextTransform
    <3>1. /\ ctr.fwd < 3 /\ ctr' = [ctr EXCEPT !.fwd = @ + 1, !.load = 0]
          /\ reg' = [reg EXCEPT !.poly = CASE ctr.fwd = 0 -> reg.s_vec[1]
                                           [] ctr.fwd = 1 -> reg.e_vec[0]
                                           [] OTHER       -> reg.e_vec[1]]
      BY <2>3 DEF NextTransform, Stores
    <3>2. ctr.fwd + 1 \in 0 .. 3
      BY <1>0, <3>1
    <3>3. ctr' \in Counters /\ ctr'.fwd = ctr.fwd + 1
      BY <1>0, <2>1, <3>1, <3>2 DEF Counters
    <3>4. reg'.poly = Sampled(ctr.fwd + 1)
      <4>1. /\ reg.s_vec[1] = Sampled(1) /\ reg.e_vec[0] = Sampled(2)
            /\ reg.e_vec[1] = Sampled(3)
        BY <1>2 DEF VectorsUpTo, Drawn, K
      <4> QED
        BY <1>0, <3>1, <4>1 DEF Registers
    <3>5. HatsUpTo(ctr.fwd + 1)
      BY <2>3 DEF NextTransform, DataInv, TransformInv
    <3> QED
      BY <3>3, <3>4, <3>5
  <2> QED
    BY <2>2, <2>3
<1>4. RegisterInv'
  BY <1>1, <1>3 DEF DataInv, RegisterInv, Registers
<1>5. SeedInv'
  BY <1>1 DEF DataInv, SeedInv, Hashing, Rho, Sigma, Registers
<1>6. MatrixInv'
  BY <1>1 DEF DataInv, MatrixInv, MatrixUpTo, AHat, SampleNTT, Rho, Registers,
              Drawing, Transforming, Multiplying, K
<1>7. VectorInv'
  BY <1>1, <1>2 DEF VectorInv, VectorsUpTo, Drawn, Sampled, SampleCBD, Sigma, Registers,
                    Transforming, K
<1>8. TransformInv'
  BY <1>1, <1>3 DEF TransformInv, HatsUpTo, Hat, Sampled, SampleCBD, Sigma, Registers,
                    Transforming, Multiplying, Encoding
<1>9. (ProductInv /\ KeyInv)'
  BY <1>1 DEF ProductInv, KeyInv, Multiplying, Encoding, Finishing, KeyPairCorrect
<1> QED
  BY <1>4, <1>5, <1>6, <1>7, <1>8, <1>9 DEF DataInv

\* A transform is defined on the coefficients' indices.
LEMMA TransformOver ==
  ASSUME NEW f
  PROVE  IsOver(Transform(f), Indices)
<1>1. Entries - 1 \in 0 .. Entries - 1 /\ (Entries - 1) + 1 = Entries
  BY SizeAssumption
<1>2. Transform(f) = Stage(Entries - 1, Memory(f)[Entries - 1])
  BY <1>1, MemoryStages
<1> QED
  BY <1>2 DEF Stage, IsOver

\* Where the coefficient read back goes, and what it leaves alone.
LEMMA ReadStores ==
  ASSUME RegisterInv, reg' = Read(reg)
  PROVE  /\ DOMAIN reg' = Registers
         /\ \A x \in Registers \ {"s_hat", "e_hat"} : reg'[x] = reg[x]
         /\ IsOver(reg'.s_hat, Vec) /\ \A i \in Vec : IsOver(reg'.s_hat[i], Indices)
         /\ IsOver(reg'.e_hat, Vec) /\ \A i \in Vec : IsOver(reg'.e_hat[i], Indices)
         /\ \A m \in 0 .. 3 \ {ctr.fwd} :
              (IF m < K THEN reg'.s_hat[m] ELSE reg'.e_hat[m - K]) = Hat(m)
         /\ (IF ctr.fwd < K THEN reg'.s_hat[ctr.fwd] ELSE reg'.e_hat[ctr.fwd - K])
              = [Hat(ctr.fwd) EXCEPT ![ctr.read] = read_data]
<1>1. /\ ctr.fwd \in 0 .. 3 /\ ctr.read \in Indices /\ DOMAIN reg = Registers
      /\ DOMAIN reg.s_hat = Vec /\ \A i \in Vec : IsOver(reg.s_hat[i], Indices)
      /\ DOMAIN reg.e_hat = Vec /\ \A i \in Vec : IsOver(reg.e_hat[i], Indices)
  BY DEF RegisterInv, Counters, IsOver
<1>2. CASE ctr.fwd < K
  <2> DEFINE i == ctr.fwd
  <2>1. i \in Vec
    BY <1>1, <1>2 DEF K, Vec
  <2>2. /\ DOMAIN reg' = Registers /\ reg'.e_hat = reg.e_hat
        /\ \A x \in Registers \ {"s_hat", "e_hat"} : reg'[x] = reg[x]
        /\ reg'.s_hat = [reg.s_hat EXCEPT ![i] = [@ EXCEPT ![ctr.read] = read_data]]
    BY <1>1, <1>2 DEF Read, Registers, K
  <2> HIDE DEF i
  <2>3. /\ IsOver(reg'.s_hat, Vec) /\ \A a \in Vec \ {i} : reg'.s_hat[a] = reg.s_hat[a]
        /\ reg'.s_hat[i] = [reg.s_hat[i] EXCEPT ![ctr.read] = read_data]
    BY <1>1, <2>1, <2>2 DEF IsOver
  <2>4. IsOver(reg'.s_hat[i], Indices)
    BY <1>1, <2>1, <2>3 DEF IsOver
  <2>5. /\ \A a \in Vec : IsOver(reg'.s_hat[a], Indices)
        /\ IsOver(reg'.e_hat, Vec) /\ \A a \in Vec : IsOver(reg'.e_hat[a], Indices)
    BY <1>1, <2>1, <2>2, <2>3, <2>4 DEF RegisterInv
  <2>6. ASSUME NEW m \in 0 .. 3, m # ctr.fwd
        PROVE  (IF m < K THEN reg'.s_hat[m] ELSE reg'.e_hat[m - K]) = Hat(m)
    BY <1>1, <1>2, <2>2, <2>3, <2>6 DEF Hat, K, Vec, i
  <2>7. (IF ctr.fwd < K THEN reg'.s_hat[ctr.fwd] ELSE reg'.e_hat[ctr.fwd - K])
           = [Hat(ctr.fwd) EXCEPT ![ctr.read] = read_data]
    BY <1>2, <2>3 DEF Hat, i
  <2> QED
    BY <2>2, <2>3, <2>5, <2>6, <2>7
<1>3. CASE ~(ctr.fwd < K)
  <2> DEFINE i == ctr.fwd - K
  <2>1. i \in Vec
    BY <1>1, <1>3 DEF K, Vec
  <2>2. /\ DOMAIN reg' = Registers /\ reg'.s_hat = reg.s_hat
        /\ \A x \in Registers \ {"s_hat", "e_hat"} : reg'[x] = reg[x]
        /\ reg'.e_hat = [reg.e_hat EXCEPT ![i] = [@ EXCEPT ![ctr.read] = read_data]]
    BY <1>1, <1>3 DEF Read, Registers, K
  <2> HIDE DEF i
  <2>3. /\ IsOver(reg'.e_hat, Vec) /\ \A a \in Vec \ {i} : reg'.e_hat[a] = reg.e_hat[a]
        /\ reg'.e_hat[i] = [reg.e_hat[i] EXCEPT ![ctr.read] = read_data]
    BY <1>1, <2>1, <2>2 DEF IsOver
  <2>4. IsOver(reg'.e_hat[i], Indices)
    BY <1>1, <2>1, <2>3 DEF IsOver
  <2>5. /\ \A a \in Vec : IsOver(reg'.e_hat[a], Indices)
        /\ IsOver(reg'.s_hat, Vec) /\ \A a \in Vec : IsOver(reg'.s_hat[a], Indices)
    BY <1>1, <2>1, <2>2, <2>3, <2>4 DEF RegisterInv
  <2>6. ASSUME NEW m \in 0 .. 3, m # ctr.fwd
        PROVE  (IF m < K THEN reg'.s_hat[m] ELSE reg'.e_hat[m - K]) = Hat(m)
    BY <1>1, <1>3, <2>2, <2>3, <2>6 DEF Hat, K, Vec, i
  <2>7. (IF ctr.fwd < K THEN reg'.s_hat[ctr.fwd] ELSE reg'.e_hat[ctr.fwd - K])
           = [Hat(ctr.fwd) EXCEPT ![ctr.read] = read_data]
    BY <1>3, <2>3 DEF Hat, i
  <2> QED
    BY <2>2, <2>3, <2>5, <2>6, <2>7
<1> QED
  BY <1>2, <1>3

\* Every coefficient read back is one of the transform of poly.
LEMMA ReadData ==
  ASSUME DataInv, InRun, ReadCoefficient,
         state = "READ_WAIT" => read_data = Transform(reg.poly)[ctr.read]
  PROVE  DataInv'
<1> USE DEF InRun
<1>0. /\ RegisterInv /\ ctr \in Counters /\ ctr.fwd \in 0 .. 3 /\ ctr.read \in Indices
  BY DEF DataInv, RegisterInv, Counters
<1>1. CASE state = "READ" /\ Stores("READ_WAIT", ctr, reg)
  <2>1. state' = "READ_WAIT" /\ ~done' /\ UNCHANGED <<ctr, reg>>
    BY <1>1 DEF Stores, NoPulse
  <2>2. RegisterInv'
    BY <2>1, RegistersKept DEF DataInv
  <2>3. SeedInv'
    BY <1>1, <2>1 DEF DataInv, SeedInv, Hashing, Rho, Sigma
  <2>4. (MatrixInv /\ VectorInv)'
    BY <1>1, <2>1 DEF DataInv, MatrixInv, MatrixUpTo, AHat, SampleNTT, Rho, VectorInv,
                      VectorsUpTo, Drawn, Sampled, SampleCBD, Sigma,
                      Drawing, Transforming, Multiplying, K
  <2>5. TransformInv'
    BY <1>1, <2>1 DEF DataInv, TransformInv, HatsUpTo, HatUpTo, Hat, Sampled, SampleCBD, Sigma,
                      Transforming, Multiplying, Encoding
  <2>6. (ProductInv /\ KeyInv)'
    BY <2>1 DEF ProductInv, KeyInv, Multiplying, Encoding, Finishing, KeyPairCorrect
  <2> QED
    BY <2>2, <2>3, <2>4, <2>5, <2>6 DEF DataInv
<1>2. ASSUME state = "READ_WAIT",
             IF ctr.read = Coeffs - 1 THEN Stores("NTT_FWD_NEXT", ctr, Read(reg))
             ELSE Stores("READ", [ctr EXCEPT !.read = @ + 1], Read(reg))
      PROVE  DataInv'
  <2>1. /\ reg' = Read(reg) /\ ~done'
        /\ IF ctr.read = Coeffs - 1 THEN state' = "NTT_FWD_NEXT" /\ ctr' = ctr
           ELSE state' = "READ" /\ ctr' = [ctr EXCEPT !.read = @ + 1]
    BY <1>2 DEF Stores, NoPulse
  <2>2. /\ ctr' \in Counters /\ ctr'.fwd = ctr.fwd
        /\ state' = "READ" => ctr'.read = ctr.read + 1
    <3>1. ctr.read # Coeffs - 1 => ctr.read + 1 \in Indices
      BY <1>0, SizeAssumption DEF Indices
    <3> QED
      BY <1>0, <2>1, <3>1 DEF Counters
  <2>3. /\ DOMAIN reg' = Registers
        /\ \A x \in Registers \ {"s_hat", "e_hat"} : reg'[x] = reg[x]
        /\ IsOver(reg'.s_hat, Vec) /\ \A i \in Vec : IsOver(reg'.s_hat[i], Indices)
        /\ IsOver(reg'.e_hat, Vec) /\ \A i \in Vec : IsOver(reg'.e_hat[i], Indices)
        /\ \A m \in 0 .. 3 \ {ctr.fwd} :
             (IF m < K THEN reg'.s_hat[m] ELSE reg'.e_hat[m - K]) = Hat(m)
        /\ (IF ctr.fwd < K THEN reg'.s_hat[ctr.fwd] ELSE reg'.e_hat[ctr.fwd - K])
             = [Hat(ctr.fwd) EXCEPT ![ctr.read] = read_data]
    BY <1>0, <2>1, ReadStores
  <2>4. RegisterInv'
    BY <1>0, <2>2, <2>3 DEF RegisterInv, Registers
  <2>5. SeedInv'
    BY <1>2, <2>1, <2>3 DEF DataInv, SeedInv, Hashing, Rho, Sigma, Registers
  <2>6. (MatrixInv /\ VectorInv)'
    BY <1>2, <2>1, <2>3 DEF DataInv, MatrixInv, MatrixUpTo, AHat, SampleNTT, Rho, VectorInv,
                            VectorsUpTo, Drawn, Sampled, SampleCBD, Sigma, Registers,
                            Drawing, Transforming, Multiplying, K
  <2>7. TransformInv'
    <3> DEFINE h == IF ctr.fwd < K THEN reg'.s_hat[ctr.fwd] ELSE reg'.e_hat[ctr.fwd - K]
               t == Transform(Sampled(ctr.fwd))
    <3>1. /\ reg.poly = Sampled(ctr.fwd) /\ HatsUpTo(ctr.fwd) /\ HatUpTo(ctr.fwd, ctr.read)
      BY <1>2 DEF DataInv, TransformInv, Transforming
    <3>2. IsOver(Hat(ctr.fwd), Indices) /\ IsOver(h, Indices)
      BY <1>0, <2>3 DEF Hat, RegisterInv, K, Vec
    <3>3. h = [Hat(ctr.fwd) EXCEPT ![ctr.read] = t[ctr.read]]
      BY <1>2, <2>3, <3>1
    <3> HIDE DEF h, t
    <3>4. \A c \in Indices : c < ctr.read + 1 => h[c] = t[c]
      <4>1. \A c \in Indices : c < ctr.read => Hat(ctr.fwd)[c] = t[c]
        BY <3>1 DEF HatUpTo, t
      <4>2. DOMAIN Hat(ctr.fwd) = Indices
        BY <3>2 DEF IsOver
      <4>3. ASSUME NEW c \in Indices, c < ctr.read + 1 PROVE c = ctr.read \/ c < ctr.read
        BY <1>0, <4>3 DEF Indices
      <4>4. \A c \in Indices : c # ctr.read => h[c] = Hat(ctr.fwd)[c]
        BY <3>3, <4>2
      <4>5. h[ctr.read] = t[ctr.read]
        BY <1>0, <3>3, <4>2
      <4>6. \A c \in Indices : c < ctr.read => c # ctr.read
        BY <1>0 DEF Indices
      <4> QED
        BY <4>1, <4>3, <4>4, <4>5, <4>6
    <3>5. \A m \in 0 .. 3 : m < ctr.fwd
            => (IF m < K THEN reg'.s_hat[m] ELSE reg'.e_hat[m - K]) = Transform(Sampled(m))
      BY <1>0, <2>3, <3>1 DEF HatsUpTo
    <3>6. CASE ctr.read # Coeffs - 1
      <4>1. state' = "READ" /\ ctr'.read = ctr.read + 1
        BY <2>1, <2>2, <3>6
      <4>2. (reg.poly = Sampled(ctr.fwd))' /\ HatsUpTo(ctr.fwd)'
        BY <2>2, <2>3, <3>1, <3>5 DEF Registers, HatsUpTo, Hat, Sampled, SampleCBD, Sigma
      <4>3. HatUpTo(ctr.fwd, ctr.read)'
        BY <2>2, <3>4, <4>1 DEF HatUpTo, Hat, Sampled, SampleCBD, Sigma, h, t
      <4> QED
        BY <4>1, <4>2, <4>3 DEF TransformInv, Multiplying, Encoding
    <3>7. CASE ctr.read = Coeffs - 1
      <4>1. state' = "NTT_FWD_NEXT" /\ ctr' = ctr
        BY <2>1, <3>7
      <4>2. h = t
        <5>1. \A c \in Indices : h[c] = t[c]
          BY <3>4, <3>7, SizeAssumption DEF Indices
        <5>2. IsOver(t, Indices)
          BY TransformOver DEF t
        <5> QED
          BY <3>2, <5>1, <5>2 DEF IsOver
      <4>3. (reg.poly = Sampled(ctr.fwd))' /\ HatsUpTo(ctr.fwd)'
        BY <2>3, <3>1, <3>5, <4>1 DEF Registers, HatsUpTo, Hat, Sampled, SampleCBD, Sigma
      <4>4. HatsUpTo(ctr.fwd + 1)'
        BY <1>0, <3>5, <4>1, <4>2 DEF HatsUpTo, Hat, Sampled, SampleCBD, Sigma, h, t
      <4> QED
        BY <4>1, <4>3, <4>4 DEF TransformInv, Multiplying, Encoding
    <3> QED
      BY <3>6, <3>7
  <2>8. (ProductInv /\ KeyInv)'
    BY <2>1 DEF ProductInv, KeyInv, Multiplying, Encoding, Finishing, KeyPairCorrect
  <2> QED
    BY <2>4, <2>5, <2>6, <2>7, <2>8 DEF DataInv
<1> QED
  BY <1>1, <1>2 DEF ReadCoefficient

\* Once all is drawn and transformed, the adder's operands are what the
\* standard says they are.
LEMMA Operands ==
  ASSUME MatrixUpTo(K * K), HatsUpTo(2 * K), NEW i \in Vec, NEW j \in Vec
  PROVE  /\ Multiply(reg.A[i][j], reg.s_hat[j]) = Product(i, j)
         /\ reg.s_hat[i] = SHat(used.d, i)
         /\ reg.e_hat[i] = EHat(used.d, i)
<1>1. reg.A[i][j] = AHat(used.d, i, j)
  BY DEF MatrixUpTo, K, Vec
<1>2. \A m \in Vec : reg.s_hat[m] = SHat(used.d, m)
  BY DEF HatsUpTo, Hat, SHat, Sampled, K, Vec
<1>3. reg.e_hat[i] = EHat(used.d, i)
  <2>1. K + i \in 0 .. 3 /\ K + i < 2 * K /\ ~(K + i < K) /\ (K + i) - K = i
    BY DEF K, Vec
  <2> QED
    BY <2>1 DEF HatsUpTo, Hat, EHat, Sampled
<1> QED
  BY <1>1, <1>2, <1>3 DEF Product

LEMMA Sums ==
  /\ \A a : Plus(Zero, a) = <<a>>
  /\ \A a, b : Plus(<<a>>, b) = <<a, b>>
  /\ \A a, b, c : Plus(<<a, b>>, c) = <<a, b, c>>
<1> SUFFICES ASSUME NEW a, NEW b, NEW c
             PROVE  /\ Plus(Zero, a) = <<a>> /\ Plus(<<a>>, b) = <<a, b>>
                    /\ Plus(<<a, b>>, c) = <<a, b, c>>
  OBVIOUS
<1> DEFINE S == {a, b, c}
<1>1. << >> \in Seq(S) /\ <<a>> \in Seq(S) /\ <<a, b>> \in Seq(S) /\ <<a, b, c>> \in Seq(S)
  OBVIOUS
<1>2. Append(<<a>>, b) = <<a, b>>
  <2> DEFINE s == Append(<<a>>, b)  t == <<a, b>>
  <2>1. s \in Seq(S) /\ Len(s) = 2 /\ s[1] = a /\ s[2] = b
    BY <1>1
  <2>2. t \in Seq(S) /\ Len(t) = 2 /\ t[1] = a /\ t[2] = b
    BY <1>1
  <2> HIDE DEF S, s, t
  <2>3. s = t
    BY <2>1, <2>2, SeqEqual
  <2> QED
    BY <2>3 DEF s, t
<1>3. Append(<<a, b>>, c) = <<a, b, c>>
  <2> DEFINE s == Append(<<a, b>>, c)  t == <<a, b, c>>
  <2>1. s \in Seq(S) /\ Len(s) = 3 /\ s[1] = a /\ s[2] = b /\ s[3] = c
    BY <1>1
  <2>2. t \in Seq(S) /\ Len(t) = 3 /\ t[1] = a /\ t[2] = b /\ t[3] = c
    BY <1>1
  <2> HIDE DEF S, s, t
  <2>3. s = t
    BY <2>1, <2>2, SeqEqual
  <2> QED
    BY <2>3 DEF s, t
<1> QED
  BY <1>2, <1>3 DEF Plus, Zero

\* The products and the sum, one row of the matrix after the other.
LEMMA ProductData ==
  ASSUME DataInv, InRun, MultiplyMatrix
  PROVE  DataInv'
<1> USE DEF InRun
<1>0. /\ RegisterInv /\ DOMAIN reg = Registers /\ ctr \in Counters
      /\ ctr.mi \in Vec /\ ctr.mj \in Vec /\ 0 \in Vec /\ IsOver(reg.t_hat, Vec)
  BY DEF DataInv, RegisterInv, Counters, Vec, K
<1>1. /\ state \in {"NTT_FWD_NEXT", "MATMUL", "MATMUL_NEXT"} /\ ~done'
      /\ state' \in Multiplying \cup {"ENCODE_T"}
      /\ DOMAIN reg' = Registers /\ \A x \in Registers \ {"acc", "t_hat"} : reg'[x] = reg[x]
  BY <1>0 DEF MultiplyMatrix, Stores, NoPulse, Registers, Multiplying
<1>2. SeedInv'
  BY <1>1 DEF DataInv, SeedInv, Hashing, Rho, Sigma, Registers, Multiplying
<1>3. MatrixUpTo(K * K) /\ MatrixInv'
  BY <1>1 DEF DataInv, MatrixInv, MatrixUpTo, AHat, SampleNTT, Rho, Registers,
              Drawing, Transforming, Multiplying, K
<1>4. VectorInv'
  BY <1>1 DEF VectorInv, Multiplying, Transforming
<1>5. HatsUpTo(2 * K)
  BY <1>1 DEF MultiplyMatrix, DataInv, TransformInv, Multiplying, K
<1>6. TransformInv'
  BY <1>1, <1>5 DEF TransformInv, HatsUpTo, Hat, Sampled, SampleCBD, Sigma, Registers,
                    Transforming, Multiplying, Encoding, K
<1>7. KeyInv'
  BY <1>1 DEF KeyInv, Multiplying, Finishing, KeyPairCorrect
<1>8. \A i, j \in Vec : Product(i, j)' = Product(i, j) /\ THat(used.d, i)' = THat(used.d, i)
  BY DEF Product, THat
<1>9. CASE /\ state = "NTT_FWD_NEXT" /\ ctr.fwd = 3
           /\ Stores("MATMUL", [ctr EXCEPT !.mi = 0, !.mj = 0], [reg EXCEPT !.acc = Zero])
  <2>1. /\ state' = "MATMUL" /\ ctr' \in Counters /\ ctr'.mi = 0 /\ ctr'.mj = 0
        /\ reg'.acc = Zero /\ reg'.t_hat = reg.t_hat
    BY <1>0, <1>9 DEF Stores, Counters, Registers
  <2>2. RegisterInv'
    BY <1>0, <1>1, <2>1 DEF RegisterInv, Registers
  <2>3. ProductInv'
    BY <2>1 DEF ProductInv, ProductsUpTo, Zero, Vec, K, Encoding
  <2> QED
    BY <1>2, <1>3, <1>4, <1>6, <1>7, <2>2, <2>3 DEF DataInv
<1>10. ASSUME state = "MATMUL",
              IF ctr.mj = K - 1
              THEN Stores("MATMUL_NEXT", [ctr EXCEPT !.mj = 0], [reg EXCEPT !.acc = Sum])
              ELSE Stores("MATMUL", [ctr EXCEPT !.mj = @ + 1], [reg EXCEPT !.acc = Sum])
       PROVE  DataInv'
  <2>1. reg'.acc = Plus(reg.acc, Product(ctr.mi, ctr.mj)) /\ reg'.t_hat = reg.t_hat
    <3>1. reg'.acc = Sum /\ reg'.t_hat = reg.t_hat
      BY <1>0, <1>10 DEF Stores, Registers
    <3>2. Sum = Plus(reg.acc, Product(ctr.mi, ctr.mj))
      BY <1>0, <1>3, <1>5, <1>10, Operands DEF Sum
    <3> QED
      BY <3>1, <3>2
  <2>2. /\ ProductsUpTo(ctr.mi)
        /\ reg.acc = IF ctr.mj = 0 THEN Zero ELSE <<Product(ctr.mi, 0)>>
    BY <1>10 DEF DataInv, ProductInv, Multiplying
  <2>3. CASE ctr.mj = K - 1
    <3>1. state' = "MATMUL_NEXT" /\ ctr' \in Counters /\ ctr'.mi = ctr.mi /\ ctr'.mj = 0
      BY <1>0, <1>10, <2>3 DEF Stores, Counters
    <3>2. reg'.acc = <<Product(ctr.mi, 0), Product(ctr.mi, 1)>>
      <4>1. ctr.mj = 1
        BY <2>3 DEF K
      <4>2. reg'.acc = Plus(<<Product(ctr.mi, 0)>>, Product(ctr.mi, 1))
        BY <2>1, <2>2, <4>1
      <4> QED
        BY <4>2, Sums
    <3>3. RegisterInv'
      BY <1>0, <1>1, <2>1, <3>1 DEF RegisterInv, Registers
    <3>4. ProductInv'
      BY <1>0, <1>8, <2>1, <2>2, <3>1, <3>2 DEF ProductInv, ProductsUpTo, Product, Encoding
    <3> QED
      BY <1>2, <1>3, <1>4, <1>6, <1>7, <3>3, <3>4 DEF DataInv
  <2>4. CASE ctr.mj # K - 1
    <3>0. ctr.mj = 0 /\ ctr.mj + 1 \in Vec
      BY <1>0, <2>4 DEF K, Vec
    <3>1. state' = "MATMUL" /\ ctr' \in Counters /\ ctr'.mi = ctr.mi /\ ctr'.mj = 1
      BY <1>0, <1>10, <2>4, <3>0 DEF Stores, Counters
    <3>2. reg'.acc = <<Product(ctr.mi, 0)>>
      BY <2>1, <2>2, <3>0, Sums
    <3>3. RegisterInv'
      BY <1>0, <1>1, <2>1, <3>1 DEF RegisterInv, Registers
    <3>4. ProductInv'
      BY <1>0, <1>8, <2>1, <2>2, <3>1, <3>2 DEF ProductInv, ProductsUpTo, Product, Encoding
    <3> QED
      BY <1>2, <1>3, <1>4, <1>6, <1>7, <3>3, <3>4 DEF DataInv
  <2> QED
    BY <2>3, <2>4
<1>11. ASSUME state = "MATMUL_NEXT",
              IF ctr.mi = K - 1
              THEN Stores("ENCODE_T", ctr, [reg EXCEPT !.t_hat[ctr.mi] = Sum])
              ELSE Stores("MATMUL", [ctr EXCEPT !.mi = @ + 1],
                          [reg EXCEPT !.t_hat[ctr.mi] = Sum, !.acc = Zero])
       PROVE  DataInv'
  <2>1. Sum = THat(used.d, ctr.mi)
    <3>1. reg.acc = <<Product(ctr.mi, 0), Product(ctr.mi, 1)>>
      BY <1>11 DEF DataInv, ProductInv
    <3>2. reg.e_hat[ctr.mi] = EHat(used.d, ctr.mi)
      BY <1>0, <1>3, <1>5, Operands
    <3> QED
      BY <1>11, <3>1, <3>2, Sums DEF Sum, THat, Product
  <2>2. reg'.t_hat = [reg.t_hat EXCEPT ![ctr.mi] = THat(used.d, ctr.mi)]
    BY <1>0, <1>11, <2>1 DEF Stores, Registers
  <2>3. IsOver(reg'.t_hat, Vec)
    BY <1>0, <2>2 DEF IsOver
  <2>4. \A i \in Vec : i < ctr.mi + 1 => reg'.t_hat[i] = THat(used.d, i)
    <3>1. ProductsUpTo(ctr.mi)
      BY <1>11 DEF DataInv, ProductInv, Multiplying
    <3>2. \A i \in Vec : i # ctr.mi => reg'.t_hat[i] = reg.t_hat[i]
      BY <1>0, <2>2 DEF IsOver
    <3>3. reg'.t_hat[ctr.mi] = THat(used.d, ctr.mi)
      BY <1>0, <2>2 DEF IsOver
    <3>4. \A i \in Vec : i < ctr.mi + 1 => i = ctr.mi \/ i < ctr.mi
      BY <1>0 DEF Vec, K
    <3>5. \A i \in Vec : i < ctr.mi => i # ctr.mi
      BY <1>0 DEF Vec, K
    <3> QED
      BY <3>1, <3>2, <3>3, <3>4, <3>5 DEF ProductsUpTo
  <2>5. CASE ctr.mi = K - 1
    <3>1. state' = "ENCODE_T" /\ ctr' = ctr
      BY <1>11, <2>5 DEF Stores
    <3>2. RegisterInv'
      BY <1>0, <1>1, <2>3, <3>1 DEF RegisterInv, Registers
    <3>3. ProductInv'
      BY <1>8, <2>4, <2>5, <3>1 DEF ProductInv, ProductsUpTo, Multiplying, Vec, K
    <3> QED
      BY <1>2, <1>3, <1>4, <1>6, <1>7, <3>2, <3>3 DEF DataInv
  <2>6. CASE ctr.mi # K - 1
    <3>0. ctr.mi + 1 \in Vec
      BY <1>0, <2>6 DEF K, Vec
    <3>1. /\ state' = "MATMUL" /\ ctr' \in Counters /\ ctr'.mi = ctr.mi + 1 /\ ctr'.mj = ctr.mj
          /\ reg'.acc = Zero
      BY <1>0, <1>11, <2>6, <3>0 DEF Stores, Counters, Registers
    <3>2. RegisterInv'
      BY <1>0, <1>1, <2>3, <3>1 DEF RegisterInv, Registers
    <3>3. ProductInv'
      <4>1. ctr.mj = 0
        BY <1>11 DEF DataInv, ProductInv
      <4> QED
        BY <1>8, <2>4, <3>1, <4>1 DEF ProductInv, ProductsUpTo, Encoding
    <3> QED
      BY <1>2, <1>3, <1>4, <1>6, <1>7, <3>2, <3>3 DEF DataInv
  <2> QED
    BY <2>5, <2>6
<1> QED
  BY <1>9, <1>10, <1>11 DEF MultiplyMatrix

\* The two keys, put together from t_hat, s_hat, rho and the hash.
LEMMA EncodeData ==
  ASSUME DataInv, CallInv, InRun, Encode
  PROVE  DataInv'
<1> USE DEF InRun
<1>0. /\ RegisterInv /\ DOMAIN reg = Registers
      /\ reg.dk = [pke |-> reg.dk.pke, ek |-> reg.dk.ek, h |-> reg.dk.h, z |-> reg.dk.z]
  BY DEF DataInv, RegisterInv
<1>1. /\ state \in Encoding /\ state' \in {"ENCODE_S", "START_SHA256"} /\ ~done' /\ ctr' = ctr
      /\ DOMAIN reg' = Registers /\ \A x \in Registers \ {"ek", "dk"} : reg'[x] = reg[x]
  BY <1>0 DEF Encode, Stores, NoPulse, Registers, Encoding
<1>2. SeedInv'
  BY <1>1 DEF DataInv, SeedInv, Hashing, Rho, Sigma, Registers, Encoding
<1>3. (MatrixInv /\ VectorInv)'
  BY <1>1 DEF MatrixInv, VectorInv, Drawing, Transforming, Multiplying
<1>4. HatsUpTo(2 * K) /\ TransformInv'
  BY <1>1 DEF DataInv, TransformInv, HatsUpTo, Hat, Sampled, SampleCBD, Sigma, Registers,
              Transforming, Multiplying, Encoding, K
<1>5. ProductsUpTo(K) /\ ProductInv'
  BY <1>1 DEF DataInv, ProductInv, ProductsUpTo, THat, Registers, Multiplying, Encoding, K
<1>6. CASE state = "ENCODE_T" /\ Stores("ENCODE_S", ctr, [reg EXCEPT !.ek = <<reg.rho, Encoded>>])
  <2>1. state' = "ENCODE_S" /\ reg'.ek = <<reg.rho, Encoded>> /\ reg'.dk = reg.dk
    BY <1>0, <1>6 DEF Stores, Registers
  <2>2. RegisterInv'
    BY <1>0, <1>1, <2>1 DEF RegisterInv, Registers
  <2>3. Encoded = [i \in Vec |-> ByteEncode12(THat(used.d, i))]
    <3>1. \A i \in Vec : reg.t_hat[i] = THat(used.d, i)
      BY <1>5 DEF ProductsUpTo, Vec, K
    <3> QED
      BY <1>6, <3>1 DEF Encoded
  <2>4. reg.rho = Rho(used.d)
    BY <1>6 DEF DataInv, SeedInv, Hashing
  <2>5. KeyInv'
    <3>1. reg'.ek = EncapsulationKey(used.d)
      BY <2>1, <2>3, <2>4 DEF EncapsulationKey
    <3> QED
      BY <1>1, <2>1, <3>1 DEF KeyInv, Finishing, KeyPairCorrect
  <2> QED
    BY <1>2, <1>3, <1>4, <1>5, <2>2, <2>5 DEF DataInv
<1>7. ASSUME state = "ENCODE_S", state' = "START_SHA256",
             reg' = [reg EXCEPT !.dk.pke = Encoded],
             unit_in' = [unit_in EXCEPT !["sha256"] = reg.ek]
      PROVE  DataInv'
  <2>1. /\ reg'.ek = reg.ek /\ reg'.dk = [reg.dk EXCEPT !.pke = Encoded]
        /\ unit_in'["sha256"] = reg.ek
    BY <1>0, <1>7 DEF Registers, CallInv, Units
  <2>2. reg'.dk = [pke |-> Encoded, ek |-> reg.dk.ek, h |-> reg.dk.h, z |-> reg.dk.z]
    BY <1>0, <2>1
  <2>3. RegisterInv'
    BY <1>0, <1>1, <2>2 DEF RegisterInv, Registers
  <2>4. Encoded = [i \in Vec |-> ByteEncode12(SHat(used.d, i))]
    <3>1. \A i \in Vec : reg.s_hat[i] = SHat(used.d, i)
      BY <1>4 DEF HatsUpTo, Hat, SHat, Sampled, K, Vec
    <3> QED
      BY <1>7, <3>1 DEF Encoded
  <2>5. reg.ek = EncapsulationKey(used.d)
    BY <1>7 DEF DataInv, KeyInv
  <2>6. KeyInv'
    <3>1. reg'.dk.pke = [i \in Vec |-> ByteEncode12(SHat(used.d, i))]
      BY <2>2, <2>4
    <3>2. /\ (reg.ek = EncapsulationKey(used.d))'
          /\ (reg.dk.pke = [i \in Vec |-> ByteEncode12(SHat(used.d, i))])'
      BY <2>1, <2>5, <3>1
    <3> QED
      BY <1>1, <1>7, <2>1, <3>2 DEF KeyInv, KeyPairCorrect
  <2> QED
    BY <1>2, <1>3, <1>4, <1>5, <2>3, <2>6 DEF DataInv
<1> QED
  BY <1>6, <1>7 DEF Encode

LEMMA FinishData ==
  ASSUME DataInv, CallInv, ResultInv, InRun, HashKey \/ Assemble \/ Complete
  PROVE  DataInv'
<1> USE DEF InRun
<1>0. /\ RegisterInv /\ DOMAIN reg = Registers
      /\ reg.dk = [pke |-> reg.dk.pke, ek |-> reg.dk.ek, h |-> reg.dk.h, z |-> reg.dk.z]
  BY DEF DataInv, RegisterInv
<1>1. /\ state \in Finishing /\ state' \in Finishing \cup {"IDLE"} /\ ctr' = ctr
      /\ DOMAIN reg' = Registers /\ \A x \in Registers \ {"H_ek", "dk"} : reg'[x] = reg[x]
  BY <1>0 DEF HashKey, Assemble, Complete, Stores, Calls, Registers, Finishing
<1>2. SeedInv'
  BY <1>1 DEF DataInv, SeedInv, Hashing, Rho, Sigma, Registers, Finishing
<1>3. (MatrixInv /\ VectorInv /\ TransformInv /\ ProductInv)'
  BY <1>1 DEF MatrixInv, VectorInv, TransformInv, ProductInv,
              Drawing, Transforming, Multiplying, Encoding, Finishing
<1>4. /\ reg.ek = EncapsulationKey(used.d)
      /\ reg.dk.pke = [i \in Vec |-> ByteEncode12(SHat(used.d, i))]
      /\ z_seed = used.z
  BY <1>1 DEF DataInv, KeyInv, SeedInv
<1>5. reg'.ek = reg.ek
  BY <1>1 DEF Registers
<1>6. CASE HashKey
  <2>1. reg'.dk = reg.dk /\ ~done'
    BY <1>0, <1>6 DEF HashKey, Stores, Calls, NoPulse, Registers
  <2>2. RegisterInv'
    BY <1>0, <1>1, <2>1 DEF RegisterInv, Registers
  <2>3. /\ (reg.ek = EncapsulationKey(used.d))'
        /\ (reg.dk.pke = [i \in Vec |-> ByteEncode12(SHat(used.d, i))])'
    BY <1>4, <1>5, <2>1
  <2>4. CASE state = "START_SHA256" /\ Calls("sha256", unit_in["sha256"], "WAIT_SHA256")
    <3>1. unit_in["sha256"] = reg.ek
      BY <2>4 DEF DataInv, KeyInv
    <3>2. state' = "WAIT_SHA256" /\ unit_in'["sha256"] = unit_in["sha256"]
      BY <2>4 DEF Calls, CallInv, Units
    <3>3. KeyInv'
      BY <1>5, <2>1, <2>3, <3>1, <3>2 DEF KeyInv, KeyPairCorrect
    <3> QED
      BY <1>2, <1>3, <2>2, <3>3 DEF DataInv
  <2>5. ASSUME state = "WAIT_SHA256", unit_done["sha256"],
               Stores("ASSEMBLE", ctr, [reg EXCEPT !.H_ek = unit_out["sha256"]])
        PROVE  DataInv'
    <3>1. state' = "ASSEMBLE" /\ reg'.H_ek = unit_out["sha256"]
      BY <1>0, <2>5 DEF Stores, Registers
    <3>2. unit_out["sha256"] = H(unit_in["sha256"])
      BY <2>5 DEF ResultInv, Result, WaitOf, Units
    <3>3. reg'.H_ek = H(reg.ek)
      BY <2>5, <3>1, <3>2 DEF DataInv, KeyInv
    <3>4. KeyInv'
      BY <1>5, <2>1, <2>3, <3>1, <3>3 DEF KeyInv, KeyPairCorrect, H
    <3> QED
      BY <1>2, <1>3, <2>2, <3>4 DEF DataInv
  <2> QED
    BY <1>6, <2>4, <2>5 DEF HashKey
<1>7. CASE Assemble
  <2>1. /\ state = "ASSEMBLE" /\ state' = "DONE" /\ ~done'
        /\ reg' = [reg EXCEPT !.dk.ek = reg.ek, !.dk.h = reg.H_ek, !.dk.z = z_seed]
    BY <1>7 DEF Assemble, Stores, NoPulse
  <2>2. reg'.dk = [reg.dk EXCEPT !.ek = reg.ek, !.h = reg.H_ek, !.z = z_seed]
    BY <1>0, <2>1 DEF Registers
  <2>3. reg'.dk = [pke |-> reg.dk.pke, ek |-> reg.ek, h |-> reg.H_ek, z |-> z_seed]
    BY <1>0, <2>2
  <2>4. RegisterInv'
    BY <1>0, <1>1, <2>3 DEF RegisterInv, Registers
  <2>5. reg.H_ek = H(reg.ek)
    BY <2>1 DEF DataInv, KeyInv
  <2>6. reg'.dk = DecapsulationKey(used.d, used.z)
    BY <1>4, <2>3, <2>5 DEF DecapsulationKey
  <2>7. /\ (reg.ek = EncapsulationKey(used.d))'
        /\ (reg.dk.pke = [i \in Vec |-> ByteEncode12(SHat(used.d, i))])'
        /\ (reg.dk = DecapsulationKey(used.d, used.z))'
    BY <1>4, <1>5, <2>3, <2>6
  <2>8. KeyInv'
    BY <2>1, <2>7 DEF KeyInv, KeyPairCorrect
  <2> QED
    BY <1>2, <1>3, <2>4, <2>8 DEF DataInv
<1>8. CASE Complete
  <2>1. state = "DONE" /\ state' = "IDLE" /\ reg' = reg
    BY <1>8 DEF Complete
  <2>2. RegisterInv'
    BY <1>1, <2>1, RegistersKept DEF DataInv
  <2>3. reg.dk = DecapsulationKey(used.d, used.z)
    BY <2>1 DEF DataInv, KeyInv
  <2>4. /\ (reg.ek = EncapsulationKey(used.d))'
        /\ (reg.dk = DecapsulationKey(used.d, used.z))'
    BY <1>4, <2>1, <2>3
  <2>5. KeyInv'
    BY <2>1, <2>4 DEF KeyInv, KeyPairCorrect, Finishing
  <2> QED
    BY <1>2, <1>3, <2>2, <2>5 DEF DataInv
<1> QED
  BY <1>6, <1>7, <1>8

\* Waiting changes nothing, and neither does an edge in the idle state.
LEMMA WaitData ==
  ASSUME DataInv, Ecu, Waiting, Waits
  PROVE  DataInv'
<1>1. /\ UNCHANGED <<state, ctr, reg, unit_in>> /\ ~done'
      /\ state # "IDLE" => used' = used /\ z_seed' = z_seed
      /\ state \in {"IDLE", "WAIT_SHA512", "WAIT_SNTT", "WAIT_CBD", "SCHED_WAIT", "READ_WAIT",
                    "WAIT_SHA256"}
  BY DEF Waiting, Waits, Stores, NoPulse, Ecu
<1>2. RegisterInv'
  BY <1>1, RegistersKept DEF DataInv
<1>3. SeedInv'
  BY <1>1 DEF DataInv, SeedInv, Hashing, Rho, Sigma
<1>4. (MatrixInv /\ VectorInv)'
  BY <1>1 DEF DataInv, MatrixInv, MatrixUpTo, AHat, SampleNTT, Rho, VectorInv, VectorsUpTo,
              Drawn, Sampled, SampleCBD, Sigma, Drawing, Transforming, Multiplying, K
<1>5. (TransformInv /\ ProductInv)'
  BY <1>1 DEF DataInv, TransformInv, HatsUpTo, HatUpTo, Hat, Sampled, SampleCBD, Sigma,
              ProductInv, Transforming, Multiplying, Encoding
<1>6. KeyInv'
  <2>1. CASE state \in Finishing
    <3>1. /\ (reg.ek = EncapsulationKey(used.d))'
          /\ (reg.dk.pke = [i \in Vec |-> ByteEncode12(SHat(used.d, i))])'
      BY <1>1, <2>1 DEF DataInv, KeyInv, Finishing
    <3> QED
      BY <1>1, <2>1, <3>1 DEF DataInv, KeyInv, Finishing, KeyPairCorrect
  <2>2. CASE state \notin Finishing
    BY <1>1, <2>2 DEF KeyInv, Finishing, KeyPairCorrect
  <2> QED
    BY <2>1, <2>2
<1> QED
  BY <1>2, <1>3, <1>4, <1>5, <1>6 DEF DataInv

LEMMA DataStep ==
  ASSUME DataInv, CallInv, ResultInv, Fsm, Ecu,
         state = "READ_WAIT" => read_data = Transform(reg.poly)[ctr.read]
  PROVE  DataInv'
<1>1. state # "IDLE" => InRun
  BY DEF Ecu, InRun
<1>2. CASE Begin
  BY <1>2, BeginData
<1>3. CASE Waiting /\ Waits
  BY <1>3, WaitData
<1>4. HashSeed \/ SampleMatrix \/ SampleVectors \/ FirstTransform \/ LoadCoefficient \/ SetUp
        \/ StartStage \/ EndStage \/ ReadCoefficient \/ NextTransform \/ MultiplyMatrix
        \/ Encode \/ HashKey \/ Assemble \/ Complete => state # "IDLE"
  BY DEF HashSeed, SampleMatrix, SampleVectors, FirstTransform, LoadCoefficient, SetUp,
         StartStage, EndStage, ReadCoefficient, NextTransform, MultiplyMatrix, Encode, HashKey,
         Assemble, Complete
<1>5. CASE HashSeed \/ SampleMatrix \/ SampleVectors
  BY <1>1, <1>4, <1>5, SeedData, MatrixData, VectorData
<1>6. CASE FirstTransform \/ NextTransform
  BY <1>1, <1>4, <1>6, TransformData
<1>7. CASE LoadCoefficient \/ SetUp \/ StartStage \/ EndStage
  BY <1>1, <1>4, <1>7, StageData
<1>8. CASE ReadCoefficient
  BY <1>1, <1>4, <1>8, ReadData
<1>9. CASE MultiplyMatrix \/ Encode
  BY <1>1, <1>4, <1>9, ProductData, EncodeData
<1>10. CASE HashKey \/ Assemble \/ Complete
  BY <1>1, <1>4, <1>10, FinishData
<1> QED
  BY <1>2, <1>3, <1>5, <1>6, <1>7, <1>8, <1>9, <1>10 DEF Fsm

\* The result is made when the input is absorbed, and kept to the done.
LEMMA ResultStep ==
  ASSUME CallInv, ResultInv, NEW go \in BOOLEAN, Clock(go)
  PROVE  ResultInv'
<1> SUFFICES ASSUME NEW u \in Units, state' = WaitOf(u),
                    unit_fsm'[u] = "SQUEEZE" \/ unit_done'[u]
             PROVE  unit_out'[u] = Result(u, unit_in'[u])
  BY DEF ResultInv, WaitOf, Result, H, SampleCBD, SampleNTT, Rho, Sigma
<1>1. FsmToUnit(u)
  BY FsmUnit DEF Clock, CallInv
<1>2. /\ unit_fsm'[u] = UnitNext(u, go)
      /\ unit_done'[u] = (unit_fsm[u] = "SQUEEZE" /\ go)
      /\ unit_out'[u] = IF unit_fsm[u] = "ABSORB" /\ go THEN Result(u, unit_in[u])
                        ELSE unit_out[u]
  BY DEF Clock, UnitsEdge
<1>3. IF state = WaitOf(u) THEN Called(u) ELSE Resting(u)
  BY DEF CallInv
<1>4. state = WaitOf(u)
  BY <1>2, <1>3 DEF Resting, UnitNext
<1>5. unit_in' = unit_in
  BY <1>1, <1>4 DEF FsmToUnit
<1>6. CASE unit_fsm[u] = "ABSORB" /\ go
  BY <1>2, <1>5, <1>6
<1>7. CASE ~(unit_fsm[u] = "ABSORB" /\ go)
  <2>1. unit_fsm[u] = "SQUEEZE"
    BY <1>2, <1>3, <1>4, <1>7 DEF UnitNext, Called
  <2>2. unit_out[u] = Result(u, unit_in[u])
    BY <1>4, <2>1 DEF ResultInv
  <2> QED
    BY <1>2, <1>5, <1>7, <2>2
<1> QED
  BY <1>6, <1>7

LEMMA BankShapeStep ==
  ASSUME BankShape, ctr \in Counters, NEW go \in BOOLEAN, Clock(go)
  PROVE  BankShape'
<1>1. /\ load' = [valid |-> load'.valid, addr |-> load'.addr, data |-> load'.data]
      /\ load'.addr \in Indices
  <2>1. CASE UNCHANGED load
    BY <2>1 DEF BankShape
  <2>2. CASE LoadCoefficient
    BY <2>2 DEF LoadCoefficient, Counters
  <2>3. CASE SetUp
    <3>1. load' = [load EXCEPT !.valid = FALSE]
      BY <2>3 DEF SetUp
    <3> QED
      BY <3>1 DEF BankShape
  <2>4. Fsm => LoadCoefficient \/ SetUp \/ UNCHANGED load
    BY DEF Fsm, Begin, HashSeed, SampleMatrix, SampleVectors, FirstTransform, StartStage,
           EndStage, ReadCoefficient, NextTransform, MultiplyMatrix, Encode, HashKey, Assemble,
           Complete, Waits, Stores, Calls, Held
  <2> QED
    BY <2>1, <2>2, <2>3, <2>4 DEF Clock
<1>2. IsOver(bank', Indices)
  BY DEF Clock, NttEdge, Loaded, Stage, BankShape, IsOver
<1> QED
  BY <1>1, <1>2 DEF BankShape, Indices

\* The edge of the memory, by the state of the FSM.
LEMMA BankStep ==
  ASSUME AtRestInv, RegisterInv, BankShape, BankInv, NEW go \in BOOLEAN, Clock(go)
  PROVE  BankInv'
<1>0. /\ bank' = Loaded(IF StageEnds(go) THEN Stage(ntt_entry, bank) ELSE bank)
      /\ ntt_fsm' = NttNext(go)
      /\ read_data' = IF Reading THEN bank[ctr.read] ELSE read_data
      /\ ctr \in Counters /\ ctr.load \in Indices /\ ctr.sched \in 0 .. Entries - 1
      /\ Fsm
  BY DEF Clock, NttEdge, RegisterInv, Counters
<1>1. state # "SCHED_WAIT" => bank' = Loaded(bank)
  BY <1>0 DEF AtRestInv, StageInv, StageEnds
<1> DEFINE Loading == {"NTT_FWD_LOAD", "SCHED_SETUP", "SCHED_START", "SCHED_WAIT",
                       "READ", "READ_WAIT"}
<1>2. CASE state' \notin Loading
  BY <1>2 DEF BankInv
<1>3. CASE FirstTransform \/ NextTransform
  <2>1. state' = "NTT_FWD_LOAD" /\ ctr'.load = 0
    BY <1>0, <1>3 DEF FirstTransform, NextTransform, Stores, Counters
  <2> QED
    BY <2>1 DEF BankInv, Indices
<1>4. CASE LoadCoefficient
  <2>1. /\ state = "NTT_FWD_LOAD" /\ reg' = reg
        /\ load' = [valid |-> TRUE, addr |-> ctr.load, data |-> Coefficient(reg.poly, ctr.load)]
    BY <1>4 DEF LoadCoefficient
  <2>2. \A c \in Indices : c < ctr.load => bank'[c] = Coefficient(reg.poly, c)
    BY <1>1, <2>1 DEF BankInv
  <2>3. IsOver(bank', Indices)
    BY BankShapeStep, <1>0 DEF BankShape
  <2>4. Loaded(bank)' = [bank' EXCEPT ![ctr.load] = Coefficient(reg.poly, ctr.load)]
    BY <2>1 DEF Loaded
  <2>5. ASSUME NEW c \in Indices, c < ctr.load + 1
        PROVE  Loaded(bank)'[c] = Coefficient(reg.poly, c)
    <3>1. c = ctr.load \/ (c < ctr.load /\ c # ctr.load)
      BY <1>0, <2>5 DEF Indices
    <3>2. DOMAIN bank' = Indices
      BY <2>3 DEF IsOver
    <3> QED
      BY <1>0, <2>2, <2>4, <3>1, <3>2
  <2>6. CASE ctr.load < Coeffs - 1
    <3>1. state' = "NTT_FWD_LOAD" /\ ctr'.load = ctr.load + 1
      BY <1>0, <1>4, <2>1, <2>6 DEF LoadCoefficient, Counters, Indices
    <3> QED
      BY <2>1, <2>5, <3>1 DEF BankInv, Coefficient
  <2>7. CASE ~(ctr.load < Coeffs - 1)
    <3>1. ctr.load = Coeffs - 1 /\ state' = "SCHED_SETUP" /\ ctr'.sched = 0
      BY <1>0, <1>4, <2>7 DEF LoadCoefficient, Counters, Indices
    <3>2. \A c \in Indices : Loaded(bank)'[c] = Coefficient(reg.poly, c)
      BY <2>5, <3>1, SizeAssumption DEF Indices
    <3>3. IsOver(Loaded(bank)', Indices)
      BY <2>3, <2>4 DEF IsOver
    <3>4. Loaded(bank)' = [c \in Indices |-> Coefficient(reg.poly, c)]
      BY <3>2, <3>3 DEF IsOver
    <3>5. Loaded(bank)' = Memory(reg.poly)[0]
      BY <3>4, MemoryStages
    <3> QED
      BY <2>1, <3>1, <3>5 DEF BankInv, Memory, Stage, Coefficient
  <2> QED
    BY <2>6, <2>7
<1>5. CASE SetUp
  <2>1. /\ state = "SCHED_SETUP" /\ state' = "SCHED_START" /\ reg' = reg /\ ctr' = ctr
        /\ ntt_entry' = ctr.sched
    BY <1>5 DEF SetUp
  <2>2. bank' = Memory(reg.poly)[ctr.sched]
    BY <1>1, <2>1 DEF BankInv
  <2> QED
    BY <2>1, <2>2 DEF BankInv
<1>6. CASE StartStage
  <2>1. /\ state = "SCHED_START" /\ state' = "SCHED_WAIT" /\ reg' = reg /\ ctr' = ctr
        /\ ntt_entry' = ntt_entry
    BY <1>6 DEF StartStage, Held
  <2>2. bank' = Memory(reg.poly)[ctr.sched] /\ ntt_entry = ctr.sched
    BY <1>1, <2>1 DEF BankInv, Loaded, AtRestInv, StageInv
  <2>3. ntt_fsm' = "IDLE"
    BY <1>0, <2>1 DEF AtRestInv, StageInv, NttNext
  <2> QED
    BY <2>1, <2>2, <2>3 DEF BankInv
<1>7. CASE EndStage
  <2>1. /\ state = "SCHED_WAIT" /\ stage_done /\ reg' = reg /\ load' = load
        /\ IF ctr.sched = Entries - 1 THEN state' = "READ"
           ELSE state' = "SCHED_SETUP" /\ ctr' = [ctr EXCEPT !.sched = @ + 1]
    BY <1>7 DEF EndStage, Stores, Held
  <2>2. ntt_fsm = "DONE" /\ ~load.valid
    BY <2>1 DEF AtRestInv, StageInv
  <2>3. bank' = bank /\ bank = Memory(reg.poly)[ctr.sched + 1]
    BY <1>0, <2>1, <2>2 DEF StageEnds, Loaded, BankInv
  <2>4. CASE ctr.sched = Entries - 1
    <3>1. ctr.sched + 1 = Entries
      BY <2>4, SizeAssumption
    <3> QED
      BY <2>1, <2>2, <2>3, <2>4, <3>1 DEF BankInv
  <2>5. CASE ctr.sched # Entries - 1
    <3>1. ctr'.sched = ctr.sched + 1
      BY <1>0, <2>1, <2>5 DEF Counters
    <3> QED
      BY <2>1, <2>2, <2>3, <2>5, <3>1 DEF BankInv, Loaded
  <2> QED
    BY <2>4, <2>5
<1>8. CASE ReadCoefficient
  <2>1. /\ state \in {"READ", "READ_WAIT"} /\ load' = load
        /\ state' \in {"READ", "READ_WAIT", "NTT_FWD_NEXT"}
        /\ state' = "READ_WAIT" => state = "READ" /\ ctr' = ctr
        /\ reg'.poly = reg.poly
    <3>1. DOMAIN reg = Registers
      BY DEF RegisterInv
    <3> QED
      BY <1>8, <3>1 DEF ReadCoefficient, Stores, Held, Read, Registers
  <2>2. bank' = bank /\ ~load.valid /\ bank = Memory(reg.poly)[Entries]
    BY <1>1, <2>1 DEF Loaded, BankInv
  <2>3. state' = "READ_WAIT" => read_data' = bank[ctr.read]
    BY <1>0, <2>1 DEF Reading
  <2> QED
    BY <2>1, <2>2, <2>3 DEF BankInv
<1>9. CASE Waiting /\ Waits
  <2>1. /\ UNCHANGED <<state, ctr, reg, load, ntt_entry>>
        /\ state \in {"IDLE", "WAIT_SHA512", "WAIT_SNTT", "WAIT_CBD", "SCHED_WAIT", "READ_WAIT",
                      "WAIT_SHA256"}
        /\ state = "SCHED_WAIT" => ~stage_done
    BY <1>9 DEF Waiting, Waits, Stores, Held
  <2>2. CASE state = "SCHED_WAIT"
    <3>1. /\ ntt_entry = ctr.sched /\ ~load.valid /\ ntt_fsm \in {"IDLE", "RUN"}
          /\ bank = Memory(reg.poly)[ctr.sched]
      BY <2>1, <2>2 DEF BankInv, AtRestInv, StageInv
    <3>2. CASE StageEnds(go)
      <4>1. bank' = Stage(ctr.sched, bank) /\ ntt_fsm' = "DONE"
        BY <1>0, <3>1, <3>2 DEF Loaded, StageEnds, NttNext
      <4>2. bank' = Memory(reg.poly)[ctr.sched + 1]
        BY <1>0, <3>1, <4>1, MemoryStages
      <4> QED
        BY <2>1, <2>2, <3>1, <4>1, <4>2 DEF BankInv
    <3>3. CASE ~StageEnds(go)
      <4>1. bank' = bank /\ ntt_fsm' # "DONE"
        BY <1>0, <3>1, <3>3 DEF Loaded, StageEnds, NttNext
      <4> QED
        BY <2>1, <2>2, <3>1, <4>1 DEF BankInv
    <3> QED
      BY <3>2, <3>3
  <2>3. CASE state = "READ_WAIT"
    <3>1. ~load.valid /\ bank = Memory(reg.poly)[Entries] /\ bank' = bank
      BY <1>1, <2>3 DEF BankInv, Loaded
    <3>2. read_data' = bank[ctr.read]
      BY <1>0, <2>3 DEF Reading
    <3> QED
      BY <2>1, <2>3, <3>1, <3>2 DEF BankInv
  <2>4. CASE state \notin {"SCHED_WAIT", "READ_WAIT"}
    BY <2>1, <2>4 DEF BankInv
  <2> QED
    BY <2>2, <2>3, <2>4
<1>10. Begin \/ HashSeed \/ SampleMatrix \/ SampleVectors \/ MultiplyMatrix \/ Encode \/ HashKey
         \/ Assemble \/ Complete => state' \notin Loading
  BY DEF Begin, HashSeed, SampleMatrix, SampleVectors, MultiplyMatrix, Encode, HashKey, Assemble,
         Complete, Stores, Calls
<1> QED
  BY <1>0, <1>2, <1>3, <1>4, <1>5, <1>6, <1>7, <1>8, <1>9, <1>10 DEF Fsm

LEMMA PairStep == PairInv /\ [Next]_vars => PairInv'
<1> SUFFICES ASSUME PairInv, [Next]_vars PROVE PairInv'
  OBVIOUS
<1>1. AtRestInv'
  BY AtRestStep DEF PairInv
<1>2. ASSUME NEW go \in BOOLEAN, Clock(go) PROVE PairInv'
  <2>1. /\ DataInv /\ CallInv /\ ResultInv /\ RegisterInv /\ ctr \in Counters /\ Fsm /\ Ecu
        /\ AtRestInv /\ BankShape /\ BankInv
    BY <1>2 DEF PairInv, AtRestInv, DataInv, RegisterInv, Clock
  <2>2. state = "READ_WAIT" => read_data = Transform(reg.poly)[ctr.read]
    BY <2>1, MemoryStages DEF BankInv
  <2>3. DataInv'
    BY <2>1, <2>2, DataStep
  <2>4. ResultInv' /\ BankShape' /\ BankInv'
    BY <1>2, <2>1, ResultStep, BankShapeStep, BankStep
  <2> QED
    BY <1>1, <2>3, <2>4 DEF PairInv
<1>3. CASE Reset
  <2>1. /\ state' = "IDLE" /\ ~done' /\ reg' = reg /\ load' = load
        /\ ctr' = [ctr EXCEPT !.i = 0, !.j = 0, !.n = 0]
        /\ \E memory \in CutOff : bank' = Loaded(memory)
    BY <1>3 DEF Reset, NoPulse
  <2>2. RegisterInv'
    <3>1. 0 \in Vec /\ 0 \in 0 .. 3 /\ ctr \in Counters
      BY DEF Vec, K, PairInv, DataInv, RegisterInv
    <3>2. ctr' \in Counters
      BY <2>1, <3>1 DEF Counters
    <3> QED
      BY <2>1, <3>2 DEF PairInv, DataInv, RegisterInv
  <2>3. DataInv'
    BY <2>1, <2>2 DEF DataInv, SeedInv, MatrixInv, VectorInv, TransformInv, ProductInv, KeyInv,
                      KeyPairCorrect, Hashing, Drawing, Transforming, Multiplying, Encoding,
                      Finishing
  <2>4. BankShape'
    <3>1. \A memory \in CutOff : IsOver(memory, Indices)
      BY DEF CutOff, IsOver, PairInv, BankShape
    <3>2. \A memory : IsOver(memory, Indices) => IsOver(Loaded(memory), Indices)
      BY DEF Loaded, IsOver
    <3>3. IsOver(bank', Indices)
      BY <2>1, <3>1, <3>2
    <3> QED
      BY <2>1, <3>3 DEF PairInv, BankShape, Indices
  <2>5. ResultInv' /\ BankInv'
    BY <2>1 DEF ResultInv, WaitOf, BankInv
  <2> QED
    BY <1>1, <2>3, <2>4, <2>5 DEF PairInv
<1>4. CASE UNCHANGED vars
  <2>1. /\ UNCHANGED <<state, ctr, reg, done, unit_in, unit_fsm, unit_out, unit_done, ntt_entry>>
        /\ UNCHANGED <<load, ntt_fsm, bank, read_data, z_seed, used>>
    BY <1>4 DEF vars, fsmVars, unitVars, nttVars, ecuVars
  <2>2. (RegisterInv /\ SeedInv /\ ProductInv /\ KeyInv)'
    BY <2>1 DEF PairInv, DataInv, RegisterInv, SeedInv, ProductInv, ProductsUpTo, Product, THat,
                KeyInv, KeyPairCorrect, Rho, Sigma, EncapsulationKey, DecapsulationKey
  <2>3. (MatrixInv /\ VectorInv /\ TransformInv)'
    BY <2>1 DEF PairInv, DataInv, MatrixInv, MatrixUpTo, AHat, SampleNTT, Rho, VectorInv,
                VectorsUpTo, TransformInv, HatsUpTo, HatUpTo, Drawn, Hat, Sampled, SampleCBD, Sigma
  <2>4. ResultInv'
    BY <2>1 DEF PairInv, ResultInv, WaitOf, Result, H, SampleCBD, SampleNTT, Rho, Sigma
  <2>5. BankShape' /\ BankInv'
    BY <2>1 DEF PairInv, BankShape, BankInv, Loaded, Coefficient, Memory
  <2> QED
    BY <1>1, <2>2, <2>3, <2>4, <2>5 DEF PairInv, DataInv
<1> QED
  BY <1>2, <1>3, <1>4 DEF Next

LEMMA PairInit == Init => PairInv
<1> SUFFICES ASSUME Init PROVE PairInv
  OBVIOUS
<1>1. AtRestInv
  BY CallInit DEF AtRestInv, LoadShape, Init
<1>2. RegisterInv
  BY SizeAssumption DEF Init, RegisterInv, Counters, Registers, IsOver, Vec, K, Indices
<1>3. DataInv
  BY <1>2 DEF Init, DataInv, SeedInv, MatrixInv, VectorInv, TransformInv, ProductInv, KeyInv,
              KeyPairCorrect, Hashing, Drawing, Transforming, Multiplying, Encoding, Finishing
<1>4. BankShape
  BY SizeAssumption DEF Init, BankShape, IsOver, Indices
<1>5. ResultInv /\ BankInv
  BY DEF Init, ResultInv, WaitOf, BankInv
<1> QED
  BY <1>1, <1>3, <1>4, <1>5 DEF PairInv

(***************************************************************************)
(* Both keys are those of the seeds at START whenever done rises, for      *)
(* every number of coefficients and of schedule entries, whatever the      *)
(* latencies, earlier runs and resets in the middle of one.                *)
(***************************************************************************)
THEOREM KeysAreOfTheSeeds == Spec => []KeyPairCorrect
<1>1. PairInv => KeyPairCorrect
  BY DEF PairInv, DataInv, KeyInv
<1> QED
  BY <1>1, PairInit, PairStep, PTL DEF Spec
=============================================================================
