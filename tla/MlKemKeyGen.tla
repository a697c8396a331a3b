---------------------------- MODULE MlKemKeyGen -----------------------------
(***************************************************************************)
(* The ML-KEM key generation of the Trust Anchor Unit,                     *)
(* hardware/pqc-rtl/fpga/tau/pqc_mlkem_keygen_core.sv: one FSM calls the   *)
(* hash, sampling and NTT units in turn, without a reset between two calls *)
(* or two runs, and keeps what they return in shared registers.            *)
(*                                                                         *)
(* One step is one clock edge.  Data is symbolic: every function is a free *)
(* constructor, and a polynomial in the NTT memory has Coeffs coefficients *)
(* that pass through Entries stages (256 and 64 in the code).  A unit      *)
(* reads its registered inputs some time after start, and takes any number *)
(* of edges.                                                               *)
(***************************************************************************)
EXTENDS Integers, Sequences

CONSTANTS Seeds,        \* the values of d_seed and z_seed
          Coeffs,       \* the coefficients of a polynomial
          Entries,      \* the entries of ntt_schedule_rom
          Undefined,    \* a register before it is written
          MaxStarts,    \* bound on the runs begun
          MaxResets     \* bound on the resets

ASSUME SizeAssumption ==
  /\ Coeffs \in Nat /\ Coeffs > 0
  /\ Entries \in Nat /\ Entries > 0
  /\ MaxStarts \in Nat /\ MaxResets \in Nat

K == 2
Vec == 0 .. K - 1
Indices == 0 .. Coeffs - 1
Units == {"sha512", "samplentt", "cbd1", "sha256"}

VARIABLES
  state,
  ctr,         \* i_ctr, j_ctr, n_ctr, fwd_ctr, mm_i, mm_j, load_idx, read_idx, sched_idx
  reg,         \* rho, sigma, A, s_vec, e_vec, s_hat, e_hat, t_hat, mm_acc,
               \* fwd_poly_in, H_ek, ek_reg, dk_reg
  done,
  unit_start, unit_in,              \* what the FSM drives into the units
  unit_fsm, unit_out, unit_done,    \* the units
  ntt_start, ntt_entry, load,       \* what the FSM drives into the NTT core
  ntt_fsm, bank, stage_done, read_valid, read_data,     \* the NTT core
  d_seed, z_seed, start,            \* the wrapper's registers and pulse
  used,                             \* history: the seeds at the START of this run
  starts, resets

fsmVars  == <<state, ctr, reg, done, unit_start, unit_in, ntt_start, ntt_entry, load>>
unitVars == <<unit_fsm, unit_out, unit_done>>
nttVars  == <<ntt_fsm, bank, stage_done, read_valid, read_data>>
ecuVars  == <<d_seed, z_seed, start, used, starts, resets>>
vars     == <<fsmVars, unitVars, nttVars, ecuVars>>

-----------------------------------------------------------------------------
\* The functions of FIPS 203, as constructors.
Rho(d)   == <<"rho", d>>
Sigma(d) == <<"sigma", d>>
SampleNTT(rho, j, i) == <<"A", rho, j, i>>
SampleCBD(sigma, n)  == <<"cbd", sigma, n>>
Multiply(f, g)  == <<"mul", f, g>>
ByteEncode12(f) == <<"enc", f>>
H(ek)           == <<"H", ek>>
Coefficient(f, c) == <<f, c>>

\* A sum of polynomials, as the sequence of its terms.
Zero      == << >>
Plus(a, b) == Append(a, b)

\* One entry of the schedule, over the whole memory.
Stage(entry, memory) == [c \in Indices |-> <<entry, c, memory>>]

-----------------------------------------------------------------------------
Init ==
  /\ state = "IDLE"
  /\ ctr = [i |-> 0, j |-> 0, n |-> 0, fwd |-> 0, mi |-> 0, mj |-> 0,
            load |-> 0, read |-> 0, sched |-> 0]
  /\ reg = [rho |-> Undefined, sigma |-> Undefined,
            A |-> [i \in Vec |-> [j \in Vec |-> Undefined]],
            s_vec |-> [i \in Vec |-> Undefined], e_vec |-> [i \in Vec |-> Undefined],
            s_hat |-> [i \in Vec |-> [c \in Indices |-> Undefined]],
            e_hat |-> [i \in Vec |-> [c \in Indices |-> Undefined]],
            t_hat |-> [i \in Vec |-> Undefined],
            acc |-> Zero, poly |-> Undefined,
            H_ek |-> Undefined, ek |-> Undefined,
            dk |-> [pke |-> Undefined, ek |-> Undefined, h |-> Undefined, z |-> Undefined]]
  /\ done = FALSE
  /\ unit_start = [u \in Units |-> FALSE]
  /\ unit_in = [u \in Units |-> Undefined]
  /\ unit_fsm = [u \in Units |-> "IDLE"]
  /\ unit_out = [u \in Units |-> Undefined]
  /\ unit_done = [u \in Units |-> FALSE]
  /\ ntt_start = FALSE
  /\ ntt_entry = 0
  /\ load = [valid |-> FALSE, addr |-> 0, data |-> Undefined]
  /\ ntt_fsm = "IDLE"
  /\ bank = [c \in Indices |-> Undefined]
  /\ stage_done = FALSE
  /\ read_valid = FALSE
  /\ read_data = Undefined
  /\ d_seed \in Seeds
  /\ z_seed \in Seeds
  /\ start = FALSE
  /\ used = Undefined
  /\ starts = 0
  /\ resets = 0

-----------------------------------------------------------------------------
(***************************************************************************)
(* The orchestrating FSM.  All pulses are low unless the action raises     *)
(* one.                                                                    *)
(***************************************************************************)
Raise(u)  == unit_start' = [x \in Units |-> x = u]
NoStart   == unit_start' = [x \in Units |-> FALSE]
NoPulse   == NoStart /\ ntt_start' = FALSE /\ done' = FALSE
Held      == UNCHANGED <<ntt_entry, load>>

\* A step that only touches the counters and registers.
Stores(s, c, r) ==
  state' = s /\ ctr' = c /\ reg' = r /\ NoPulse /\ Held /\ UNCHANGED unit_in

\* Start unit u on input x, and wait for it in state s.
Calls(u, x, s) ==
  /\ Raise(u) /\ unit_in' = [unit_in EXCEPT ![u] = x] /\ state' = s
  /\ ntt_start' = FALSE /\ done' = FALSE
  /\ Held /\ UNCHANGED <<ctr, reg>>

\* Stay in a wait state.
Waits == Stores(state, ctr, reg)

Begin ==
  /\ state = "IDLE" /\ start
  /\ state' = "START_SHA512"
  /\ unit_in' = [unit_in EXCEPT !["sha512"] = d_seed]
  /\ NoPulse /\ Held /\ UNCHANGED <<ctr, reg>>

HashSeed ==
  \/ state = "START_SHA512" /\ Calls("sha512", unit_in["sha512"], "WAIT_SHA512")
  \/ /\ state = "WAIT_SHA512" /\ unit_done["sha512"]
     /\ Stores("START_SNTT", [ctr EXCEPT !.i = 0, !.j = 0],
               [reg EXCEPT !.rho = unit_out["sha512"][1], !.sigma = unit_out["sha512"][2]])

SampleMatrix ==
  \/ /\ state = "START_SNTT"
     /\ Calls("samplentt", <<reg.rho, ctr.j, ctr.i>>, "WAIT_SNTT")
  \/ /\ state = "WAIT_SNTT" /\ unit_done["samplentt"]
     /\ Stores("SNTT_NEXT", ctr, [reg EXCEPT !.A[ctr.i][ctr.j] = unit_out["samplentt"]])
  \/ /\ state = "SNTT_NEXT" /\ ctr.j < K - 1
     /\ Stores("START_SNTT", [ctr EXCEPT !.j = @ + 1], reg)
  \/ /\ state = "SNTT_NEXT" /\ ctr.j = K - 1 /\ ctr.i < K - 1
     /\ Stores("START_SNTT", [ctr EXCEPT !.j = 0, !.i = @ + 1], reg)
  \/ /\ state = "SNTT_NEXT" /\ ctr.j = K - 1 /\ ctr.i = K - 1
     /\ Stores("START_CBD", [ctr EXCEPT !.j = 0, !.i = 0, !.n = 0], reg)

SampleVectors ==
  \/ state = "START_CBD" /\ Calls("cbd1", <<reg.sigma, ctr.n>>, "WAIT_CBD")
  \/ /\ state = "WAIT_CBD" /\ unit_done["cbd1"]
     /\ Stores("CBD_NEXT", ctr,
               IF ctr.n < K THEN [reg EXCEPT !.s_vec[ctr.n % 2] = unit_out["cbd1"]]
                            ELSE [reg EXCEPT !.e_vec[ctr.n % 2] = unit_out["cbd1"]])
  \/ /\ state = "CBD_NEXT" /\ ctr.n < 2 * K - 1
     /\ Stores("START_CBD", [ctr EXCEPT !.n = @ + 1], reg)

\* After the last polynomial the first transform begins.
FirstTransform ==
  /\ state = "CBD_NEXT" /\ ctr.n = 2 * K - 1
  /\ Stores("NTT_FWD_LOAD", [ctr EXCEPT !.fwd = 0, !.load = 0],
            [reg EXCEPT !.poly = reg.s_vec[0]])

LoadCoefficient ==
  /\ state = "NTT_FWD_LOAD"
  /\ load' = [valid |-> TRUE, addr |-> ctr.load, data |-> Coefficient(reg.poly, ctr.load)]
  /\ \/ /\ ctr.load < Coeffs - 1
        /\ ctr' = [ctr EXCEPT !.load = @ + 1] /\ UNCHANGED state
     \/ /\ ctr.load = Coeffs - 1
        /\ ctr' = [ctr EXCEPT !.sched = 0] /\ state' = "SCHED_SETUP"
  /\ NoPulse /\ UNCHANGED <<reg, unit_in, ntt_entry>>

\* load_valid left up, so that the last coefficient is written again and again.
\* The parameters of one entry, in an edge of their own before the start.
SetUp ==
  /\ state = "SCHED_SETUP"
  /\ load' = [load EXCEPT !.valid = FALSE]
  /\ ntt_entry' = ctr.sched
  /\ state' = "SCHED_START"
  /\ NoPulse /\ UNCHANGED <<ctr, reg, unit_in>>

StartStage ==
  /\ state = "SCHED_START"
  /\ ntt_start' = TRUE /\ state' = "SCHED_WAIT"
  /\ NoStart /\ done' = FALSE /\ Held /\ UNCHANGED <<ctr, reg, unit_in>>

EndStage ==
  /\ state = "SCHED_WAIT" /\ stage_done
  /\ IF ctr.sched = Entries - 1 THEN Stores("READ", [ctr EXCEPT !.read = 0], reg)
     ELSE Stores("SCHED_SETUP", [ctr EXCEPT !.sched = @ + 1], reg)

\* The coefficient read, at its place in s_hat or e_hat.
Read(r) ==
  CASE ctr.fwd = 0 -> [r EXCEPT !.s_hat[0][ctr.read] = read_data]
    [] ctr.fwd = 1 -> [r EXCEPT !.s_hat[1][ctr.read] = read_data]
    [] ctr.fwd = 2 -> [r EXCEPT !.e_hat[0][ctr.read] = read_data]
    [] OTHER       -> [r EXCEPT !.e_hat[1][ctr.read] = read_data]

\* The next address and the next look at read_valid in one edge.
ReadCoefficientEager ==
  \/ state = "READ" /\ Stores("READ_WAIT", ctr, reg)
  \/ /\ state = "READ_WAIT" /\ read_valid
     /\ IF ctr.read = Coeffs - 1 THEN Stores("NTT_FWD_NEXT", ctr, Read(reg))
        ELSE Stores("READ_WAIT", [ctr EXCEPT !.read = @ + 1], Read(reg))
\* An address, then one edge for the registered answer.
ReadCoefficient ==
  \/ state = "READ" /\ Stores("READ_WAIT", ctr, reg)
  \/ /\ state = "READ_WAIT" /\ read_valid
     /\ IF ctr.read = Coeffs - 1 THEN Stores("NTT_FWD_NEXT", ctr, Read(reg))
        ELSE Stores("READ", [ctr EXCEPT !.read = @ + 1], Read(reg))

\* fwd_ctr not counted.
NextTransformAgain ==
  /\ state = "NTT_FWD_NEXT" /\ ctr.fwd < 3
  /\ Stores("NTT_FWD_LOAD", [ctr EXCEPT !.load = 0], [reg EXCEPT !.poly = reg.s_vec[1]])
NextTransform ==
  /\ state = "NTT_FWD_NEXT" /\ ctr.fwd < 3
  /\ Stores("NTT_FWD_LOAD", [ctr EXCEPT !.fwd = @ + 1, !.load = 0],
            [reg EXCEPT !.poly = CASE ctr.fwd = 0 -> reg.s_vec[1]
                                   [] ctr.fwd = 1 -> reg.e_vec[0]
                                   [] OTHER       -> reg.e_vec[1]])

\* The one adder: a product in MATMUL, the error in MATMUL_NEXT.
Sum ==
  Plus(reg.acc, IF state = "MATMUL_NEXT" THEN reg.e_hat[ctr.mi]
                ELSE Multiply(reg.A[ctr.mi][ctr.mj], reg.s_hat[ctr.mj]))

MultiplyMatrix ==
  \/ /\ state = "NTT_FWD_NEXT" /\ ctr.fwd = 3
     /\ Stores("MATMUL", [ctr EXCEPT !.mi = 0, !.mj = 0], [reg EXCEPT !.acc = Zero])
  \/ /\ state = "MATMUL"
     /\ IF ctr.mj = K - 1
        THEN Stores("MATMUL_NEXT", [ctr EXCEPT !.mj = 0], [reg EXCEPT !.acc = Sum])
        ELSE Stores("MATMUL", [ctr EXCEPT !.mj = @ + 1], [reg EXCEPT !.acc = Sum])
  \/ /\ state = "MATMUL_NEXT"
     /\ IF ctr.mi = K - 1
        THEN Stores("ENCODE_T", ctr, [reg EXCEPT !.t_hat[ctr.mi] = Sum])
        ELSE Stores("MATMUL", [ctr EXCEPT !.mi = @ + 1],
                    [reg EXCEPT !.t_hat[ctr.mi] = Sum, !.acc = Zero])

\* The two encoders, shared by t_hat and s_hat.
Encoded ==
  LET f == IF state = "ENCODE_S" THEN reg.s_hat ELSE reg.t_hat
  IN  [i \in Vec |-> ByteEncode12(f[i])]

Encode ==
  \/ /\ state = "ENCODE_T"
     /\ Stores("ENCODE_S", ctr, [reg EXCEPT !.ek = <<reg.rho, Encoded>>])
  \/ /\ state = "ENCODE_S"
     /\ state' = "START_SHA256"
     /\ reg' = [reg EXCEPT !.dk.pke = Encoded]
     /\ unit_in' = [unit_in EXCEPT !["sha256"] = reg.ek]
     /\ NoPulse /\ Held /\ UNCHANGED ctr

HashKey ==
  \/ state = "START_SHA256" /\ Calls("sha256", unit_in["sha256"], "WAIT_SHA256")
  \/ /\ state = "WAIT_SHA256" /\ unit_done["sha256"]
     /\ Stores("ASSEMBLE", ctr, [reg EXCEPT !.H_ek = unit_out["sha256"]])

\* done with the last store, one edge early.
AssembleDone ==
  /\ state = "ASSEMBLE"
  /\ state' = "DONE" /\ done' = TRUE
  /\ reg' = [reg EXCEPT !.dk.ek = reg.ek, !.dk.h = reg.H_ek, !.dk.z = z_seed]
  /\ NoStart /\ ntt_start' = FALSE /\ Held /\ UNCHANGED <<ctr, unit_in>>
Assemble ==
  /\ state = "ASSEMBLE"
  /\ Stores("DONE", ctr, [reg EXCEPT !.dk.ek = reg.ek, !.dk.h = reg.H_ek, !.dk.z = z_seed])

Complete ==
  /\ state = "DONE"
  /\ state' = "IDLE" /\ done' = TRUE
  /\ NoStart /\ ntt_start' = FALSE /\ Held /\ UNCHANGED <<ctr, reg, unit_in>>

Waiting ==
  \/ state = "IDLE" /\ ~start
  \/ state = "WAIT_SHA512" /\ ~unit_done["sha512"]
  \/ state = "WAIT_SNTT" /\ ~unit_done["samplentt"]
  \/ state = "WAIT_CBD" /\ ~unit_done["cbd1"]
  \/ state = "SCHED_WAIT" /\ ~stage_done
  \/ state = "READ_WAIT" /\ ~read_valid
  \/ state = "WAIT_SHA256" /\ ~unit_done["sha256"]

Fsm ==
  \/ Begin \/ HashSeed \/ SampleMatrix \/ SampleVectors
  \/ FirstTransform \/ LoadCoefficient \/ SetUp \/ StartStage \/ EndStage
  \/ ReadCoefficient \/ NextTransform
  \/ MultiplyMatrix \/ Encode \/ HashKey \/ Assemble \/ Complete
  \/ Waiting /\ Waits

-----------------------------------------------------------------------------
(***************************************************************************)
(* The units: idle until start; the input is absorbed some edges later,    *)
(* and done is high for the one edge after the run.  go is the progress    *)
(* of whoever runs at this edge.                                           *)
(***************************************************************************)
Result(u, x) ==
  CASE u = "sha512"    -> <<Rho(x), Sigma(x)>>
    [] u = "samplentt" -> SampleNTT(x[1], x[2], x[3])
    [] u = "cbd1"      -> SampleCBD(x[1], x[2])
    [] OTHER           -> H(x)

\* The FSM of unit u after an edge.
UnitNext(u, go) ==
  CASE unit_fsm[u] = "IDLE"    -> IF unit_start[u] THEN "ABSORB" ELSE "IDLE"
    [] unit_fsm[u] = "ABSORB"  -> IF go THEN "SQUEEZE" ELSE "ABSORB"
    [] OTHER                   -> IF go THEN "IDLE" ELSE "SQUEEZE"

UnitsEdge(go) ==
  /\ unit_fsm' = [u \in Units |-> UnitNext(u, go)]
  /\ unit_done' = [u \in Units |-> unit_fsm[u] = "SQUEEZE" /\ go]
  /\ unit_out' = [u \in Units |-> IF unit_fsm[u] = "ABSORB" /\ go
                                  THEN Result(u, unit_in[u]) ELSE unit_out[u]]

(***************************************************************************)
(* The NTT core: stage_done is high for two edges (the last write and      *)
(* S_DONE both set it), a load writes the memory at every edge with        *)
(* load_valid, whatever the core does, and a read is answered one edge     *)
(* later.                                                                  *)
(***************************************************************************)
NttNext(go) ==
  CASE ntt_fsm = "IDLE" -> IF ntt_start THEN "RUN" ELSE "IDLE"
    [] ntt_fsm = "RUN"  -> IF go THEN "DONE" ELSE "RUN"
    [] OTHER            -> "IDLE"

StageEnds(go) == ntt_fsm = "RUN" /\ go

Loaded(memory) ==
  IF load.valid THEN [memory EXCEPT ![load.addr] = load.data] ELSE memory

Reading == state \in {"READ", "READ_WAIT"}

NttEdge(go) ==
  /\ ntt_fsm' = NttNext(go)
  /\ stage_done' = (StageEnds(go) \/ ntt_fsm = "DONE")
  /\ bank' = Loaded(IF StageEnds(go) THEN Stage(ntt_entry, bank) ELSE bank)
  /\ read_valid' = Reading
  /\ read_data' = IF Reading THEN bank[ctr.read] ELSE read_data

-----------------------------------------------------------------------------
(***************************************************************************)
(* The wrapper's side.  d_seed may be overwritten at any time.  z_seed is  *)
(* only written while the core idles: the core reads it at the end of the  *)
(* run.  A START pulse may come at any time, and is ignored in a run.      *)
(***************************************************************************)
Ecu ==
  /\ \/ start' = FALSE /\ UNCHANGED starts
     \/ start' = TRUE /\ starts < MaxStarts /\ starts' = starts + 1
  /\ d_seed' \in Seeds
  /\ z_seed' \in Seeds
  /\ (state # "IDLE" \/ start) => z_seed' = z_seed
  /\ used' = IF state = "IDLE" /\ start THEN [d |-> d_seed, z |-> z_seed] ELSE used
  /\ UNCHANGED resets

(***************************************************************************)
(* An edge with reset high.  Of the FSM's registers only the state, the    *)
(* pulses and three counters are cleared: load_valid, the other counters   *)
(* and all data stay as they are, and so does the NTT memory, which has    *)
(* some of the writes of a stage that is cut off.                          *)
(***************************************************************************)
CutOff ==
  IF ntt_fsm = "RUN"
  THEN {[c \in Indices |-> IF c \in written THEN Stage(ntt_entry, bank)[c] ELSE bank[c]] :
          written \in SUBSET Indices}
  ELSE {bank}

Reset ==
  /\ resets < MaxResets
  /\ state' = "IDLE"
  /\ ctr' = [ctr EXCEPT !.i = 0, !.j = 0, !.n = 0]
  /\ NoPulse
  /\ unit_fsm' = [u \in Units |-> "IDLE"]
  /\ unit_done' = [u \in Units |-> FALSE]
  /\ ntt_fsm' = "IDLE"
  /\ \E memory \in CutOff : bank' = Loaded(memory)
  /\ stage_done' = FALSE
  /\ read_valid' = FALSE
  /\ start' = FALSE
  /\ d_seed' \in Seeds /\ z_seed' \in Seeds
  /\ resets' = resets + 1
  /\ UNCHANGED <<reg, unit_in, ntt_entry, load, unit_out, read_data, used, starts>>

Clock(go) == Fsm /\ UnitsEdge(go) /\ NttEdge(go) /\ Ecu

Next == Reset \/ \E go \in BOOLEAN : Clock(go)

Spec == Init /\ [][Next]_vars

\* The clock runs, and no unit runs for ever.
FairSpec == Spec /\ WF_vars(Clock(TRUE))

-----------------------------------------------------------------------------
\* What FIPS 203, Algorithm 16, makes of a pair of seeds.
Transform(f) ==
  LET memory[e \in 0 .. Entries] ==
        IF e = 0 THEN [c \in Indices |-> Coefficient(f, c)]
        ELSE Stage(e - 1, memory[e - 1])
  IN  memory[Entries]

SHat(d, i) == Transform(SampleCBD(Sigma(d), i))
EHat(d, i) == Transform(SampleCBD(Sigma(d), K + i))
AHat(d, i, j) == SampleNTT(Rho(d), j, i)
THat(d, i) == <<Multiply(AHat(d, i, 0), SHat(d, 0)),
                Multiply(AHat(d, i, 1), SHat(d, 1)), EHat(d, i)>>

EncapsulationKey(d) == <<Rho(d), [i \in Vec |-> ByteEncode12(THat(d, i))]>>
DecapsulationKey(d, z) ==
  [pke |-> [i \in Vec |-> ByteEncode12(SHat(d, i))], ek |-> EncapsulationKey(d),
   h |-> H(EncapsulationKey(d)), z |-> z]

(***************************************************************************)
(* When done rises, both keys are those of the seeds the wrapper held at   *)
(* START, in every run: whatever earlier runs and a reset in the middle of *)
(* one left in the counters, the shared registers, load_valid and the NTT  *)
(* memory, whatever the latencies, and whatever d_seed became meanwhile.   *)
(***************************************************************************)
KeyPairCorrect ==
  done => /\ reg.ek = EncapsulationKey(used.d)
          /\ reg.dk = DecapsulationKey(used.d, used.z)

(***************************************************************************)
(* The units are never reset between calls, so each call must find its     *)
(* unit at rest: no unit is started while it runs, none sees its input     *)
(* change while it runs, no stage starts while the done of the stage       *)
(* before is up, and no coefficient is loaded into a running stage.        *)
(***************************************************************************)
UnitsAtRest ==
  [][/\ \A u \in Units :
          /\ unit_start[u] => unit_fsm[u] = "IDLE"
          /\ unit_fsm[u] # "IDLE" => unit_in'[u] = unit_in[u]
     /\ ntt_start => ntt_fsm = "IDLE" /\ ~stage_done
     /\ ntt_fsm # "IDLE" => ~load.valid]_vars

\* To the wrapper the core is an operation: one START that finds it idle
\* gives one run, which ends with one edge of done and never without it.
Op == INSTANCE Operation WITH running <- state # "IDLE"
ImplementsOperation == Op!Spec

\* Every run ends: no count of the nine counters and no pulse is missed, so
\* the core idles again.
RunsEnd == (state # "IDLE") ~> (state = "IDLE")
=============================================================================
