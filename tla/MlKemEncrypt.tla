---------------------------- MODULE MlKemEncrypt -----------------------------
(***************************************************************************)
(* pqc_mlkem_decaps_b1_core.sv: K-PKE.Encrypt followed by the choice of    *)
(* the secret, used by decapsulation (phase B) and by encapsulation.       *)
(*                                                                         *)
(* The inputs are wires: the core reads ek_in when it starts, r_prime_in   *)
(* while it samples, m_prime_in after the last transform, c_in, z_in and   *)
(* K_prime_in at the end.                                                  *)
(***************************************************************************)
EXTENDS KemTerms

VARIABLES
  b_start, ek_in, r_prime_in, m_prime_in, c_in, z_in, K_prime_in,   \* inputs
  b_state,
  b_ctr,      \* i_ctr, j_ctr, n_ctr, fwd_ctr, mm_col, mm_j, inv_col, mu_bit_idx
  b_fwd,      \* load_idx, sched_idx, read_idx
  b_inv,      \* inv_load_idx, inv_sched_idx, inv_read_idx
  b_reg,      \* the data registers
  b_done,
  b_call,     \* the unit whose start is high, or "none"
  b_in,       \* the inputs of the units
  b_unit,     \* samplentt_dut, cbd1_dut, cbd2_dut, shake256_dut
  b_drive, b_ntt                                        \* see NttPass

Forward == INSTANCE NttPass WITH state <- b_state, idx <- b_fwd, drive <- b_drive, ntt <- b_ntt
Inverse == INSTANCE NttPass WITH state <- b_state, idx <- b_inv, drive <- b_drive, ntt <- b_ntt

Units == {"samplentt", "cbd1", "cbd2", "shake256"}

Init ==
  /\ b_state = "IDLE"
  /\ b_ctr = [i |-> 0, j |-> 0, n |-> 0, fwd |-> 0, col |-> 0, mj |-> 0, inv |-> 0, bit |-> 0]
  /\ b_fwd = [load |-> 0, sched |-> 0, read |-> 0]
  /\ b_inv = [load |-> 0, sched |-> 0, read |-> 0]
  /\ LET none == [i \in Vec |-> Undefined]
         blank == Loaded(Undefined)
     IN  b_reg = [ek |-> Undefined, rho |-> Undefined, t_hat |-> none,
                  A |-> [i \in Vec |-> none], y_vec |-> none, e1 |-> none, e2 |-> Undefined,
                  y_hat |-> [i \in Vec |-> blank], padd_a |-> Undefined, padd_b |-> Undefined,
                  u_acc |-> none, v_acc |-> Undefined,
                  raw_u |-> blank, raw_v |-> blank, scale_in |-> Undefined,
                  scaled_v |-> Undefined, u_vec |-> none, v_poly |-> Undefined,
                  bdec1_in |-> Undefined, c1_y_in |-> Loaded(Undefined)[0], mu |-> blank,
                  bcompu_in |-> none, bencu_in |-> none,
                  bcompv_in |-> Undefined, bencv_in |-> Undefined,
                  c_prime |-> <<Undefined, Undefined, Undefined>>,
                  match |-> Undefined, K_final |-> Undefined]
  /\ b_done = FALSE
  /\ b_call = "none"
  /\ b_in = [u \in Units |-> Undefined]
  /\ b_unit = [u \in Units |-> IdleUnit]
  /\ b_drive = Forward!IdleDrive
  /\ b_ntt = Forward!IdleNtt

-----------------------------------------------------------------------------
\* A step that only touches the counters and registers.
Quiet == b_done' = FALSE /\ b_call' = "none" /\ UNCHANGED b_in
Stores(s, c, r) == b_state' = s /\ b_ctr' = c /\ b_reg' = r /\ Quiet /\ Forward!Low

\* Start unit u on input x, and wait for it in state s.
Calls(u, x, s) ==
  /\ b_state' = s /\ b_call' = u /\ b_in' = [b_in EXCEPT ![u] = x]
  /\ b_done' = FALSE /\ Forward!Low /\ UNCHANGED <<b_ctr, b_reg>>

Begin ==
  \/ /\ b_state = "IDLE" /\ b_start
     /\ Stores("DECODE_T", b_ctr, [b_reg EXCEPT !.ek = ek_in, !.rho = Part(ek_in, K)])
  \/ /\ b_state = "DECODE_T"
     /\ Stores("START_SNTT", [b_ctr EXCEPT !.i = 0, !.j = 0],
               [b_reg EXCEPT !.t_hat = [i \in Vec |-> ByteDecode(12, Part(b_reg.ek, i))]])

SampleMatrix ==
  \/ /\ b_state = "START_SNTT"
     /\ Calls("samplentt", <<b_reg.rho, b_ctr.j, b_ctr.i>>, "WAIT_SNTT")
  \/ /\ b_state = "WAIT_SNTT" /\ b_unit["samplentt"].done
     /\ Stores("SNTT_NEXT", b_ctr,
               [b_reg EXCEPT !.A[b_ctr.i][b_ctr.j] = b_unit["samplentt"].out])
  \/ /\ b_state = "SNTT_NEXT" /\ b_ctr.j < K - 1
     /\ Stores("START_SNTT", [b_ctr EXCEPT !.j = @ + 1], b_reg)
  \/ /\ b_state = "SNTT_NEXT" /\ b_ctr.j = K - 1 /\ b_ctr.i < K - 1
     /\ Stores("START_SNTT", [b_ctr EXCEPT !.j = 0, !.i = @ + 1], b_reg)
  \/ /\ b_state = "SNTT_NEXT" /\ b_ctr.j = K - 1 /\ b_ctr.i = K - 1
     /\ Stores("START_CBD1", [b_ctr EXCEPT !.j = 0, !.i = 0, !.n = 0], b_reg)

SampleVectors ==
  \/ b_state = "START_CBD1" /\ Calls("cbd1", <<r_prime_in, b_ctr.n>>, "WAIT_CBD1")
  \/ /\ b_state = "WAIT_CBD1" /\ b_unit["cbd1"].done
     /\ Stores(IF b_ctr.n = K - 1 THEN "START_CBD2" ELSE "START_CBD1",
               [b_ctr EXCEPT !.n = @ + 1],
               [b_reg EXCEPT !.y_vec[b_ctr.n % 2] = b_unit["cbd1"].out])
  \/ b_state = "START_CBD2" /\ Calls("cbd2", <<r_prime_in, b_ctr.n>>, "WAIT_CBD2")
  \/ /\ b_state = "WAIT_CBD2" /\ b_unit["cbd2"].done /\ b_ctr.n < 2 * K
     /\ Stores("START_CBD2", [b_ctr EXCEPT !.n = @ + 1],
               [b_reg EXCEPT !.e1[b_ctr.n - K] = b_unit["cbd2"].out])

\* The last sample is e2; the transforms of y_vec follow.
SampleLast ==
  /\ b_state = "WAIT_CBD2" /\ b_unit["cbd2"].done /\ b_ctr.n = 2 * K
  /\ Stores("FWD_LOAD", [b_ctr EXCEPT !.fwd = 0], [b_reg EXCEPT !.e2 = b_unit["cbd2"].out])
  /\ b_fwd' = [b_fwd EXCEPT !.load = 0]

Transform ==
  /\ Forward!Pass(Forward!FWD, b_reg.y_vec[b_ctr.fwd], "ntt", "FWD_NEXT")
  /\ b_reg' = IF Forward!Arrives(Forward!FWD)
              THEN [b_reg EXCEPT !.y_hat[b_ctr.fwd][b_fwd.read] = b_ntt.read_data] ELSE b_reg
  /\ Quiet /\ UNCHANGED b_ctr

NextTransform ==
  /\ b_state = "FWD_NEXT" /\ b_ctr.fwd < K - 1
  /\ Stores("FWD_LOAD", [b_ctr EXCEPT !.fwd = @ + 1], b_reg)
  /\ b_fwd' = [b_fwd EXCEPT !.load = 0]

-----------------------------------------------------------------------------
\* What the shared multiplier and adder show; first with A not transposed.
ProductTransposed ==
  Multiply(IF b_state = "MATMUL_V" THEN b_reg.t_hat[b_ctr.mj] ELSE b_reg.A[b_ctr.col][b_ctr.mj],
           Gather(b_reg.y_hat[b_ctr.mj]))
Product ==
  Multiply(IF b_state = "MATMUL_V" THEN b_reg.t_hat[b_ctr.mj] ELSE b_reg.A[b_ctr.mj][b_ctr.col],
           Gather(b_reg.y_hat[b_ctr.mj]))
Sum == Plus(b_reg.padd_a, b_reg.padd_b)

\* The operands of the adder in one edge, its sum in the next.
Adds(f, g, s) == Stores(s, b_ctr, [b_reg EXCEPT !.padd_a = f, !.padd_b = g])

MultiplyMatrix ==
  \/ /\ b_state = "FWD_NEXT" /\ b_ctr.fwd = K - 1
     /\ Stores("MATMUL_U", [b_ctr EXCEPT !.col = 0, !.mj = 0],
               [b_reg EXCEPT !.u_acc = [i \in Vec |-> Zero], !.v_acc = Zero])
  \/ b_state = "MATMUL_U" /\ Adds(b_reg.u_acc[b_ctr.col], Product, "MATMUL_U_CAPTURE")
  \/ /\ b_state = "MATMUL_U_CAPTURE"
     /\ LET r == [b_reg EXCEPT !.u_acc[b_ctr.col] = Sum]
        IN  IF b_ctr.mj = K - 1 THEN Stores("MATMUL_U_NEXT", [b_ctr EXCEPT !.mj = 0], r)
            ELSE Stores("MATMUL_U", [b_ctr EXCEPT !.mj = @ + 1], r)
  \/ /\ b_state = "MATMUL_U_NEXT"
     /\ IF b_ctr.col = K - 1 THEN Stores("MATMUL_V", b_ctr, b_reg)
        ELSE Stores("MATMUL_U", [b_ctr EXCEPT !.col = @ + 1], b_reg)
  \/ b_state = "MATMUL_V" /\ Adds(b_reg.v_acc, Product, "MATMUL_V_CAPTURE")
  \/ /\ b_state = "MATMUL_V_CAPTURE" /\ b_ctr.mj < K - 1
     /\ Stores("MATMUL_V", [b_ctr EXCEPT !.mj = @ + 1], [b_reg EXCEPT !.v_acc = Sum])

FirstInverse ==
  /\ b_state = "MATMUL_V_CAPTURE" /\ b_ctr.mj = K - 1
  /\ Stores("INV_U_LOAD", [b_ctr EXCEPT !.inv = 0], [b_reg EXCEPT !.v_acc = Sum])
  /\ b_inv' = [b_inv EXCEPT !.load = 0]

InvertU ==
  /\ Inverse!Pass(Inverse!INV_U, b_reg.u_acc[b_ctr.inv], "inverse", "INV_U_SCALE")
  /\ b_reg' = IF Inverse!Arrives(Inverse!INV_U)
              THEN [b_reg EXCEPT !.raw_u[b_inv.read] = b_ntt.read_data] ELSE b_reg
  /\ Quiet /\ UNCHANGED b_ctr

AddError ==
  \/ /\ b_state = "INV_U_SCALE"
     /\ Stores("INV_U_ADD_E1", b_ctr, [b_reg EXCEPT !.scale_in = Gather(b_reg.raw_u)])
  \/ /\ b_state = "INV_U_ADD_E1"
     /\ Adds(Scale(b_reg.scale_in), b_reg.e1[b_ctr.inv], "INV_U_NEXT")

NextInverse ==
  /\ b_state = "INV_U_NEXT"
  /\ LET r == [b_reg EXCEPT !.u_vec[b_ctr.inv] = Sum]
     IN  IF b_ctr.inv = K - 1 THEN Stores("INV_V_LOAD", b_ctr, r)
         ELSE Stores("INV_U_LOAD", [b_ctr EXCEPT !.inv = @ + 1], r)
  /\ b_inv' = [b_inv EXCEPT !.load = 0]

InvertV ==
  /\ Inverse!Pass(Inverse!INV_V, b_reg.v_acc, "inverse", "INV_V_SCALE")
  /\ b_reg' = IF Inverse!Arrives(Inverse!INV_V)
              THEN [b_reg EXCEPT !.raw_v[b_inv.read] = b_ntt.read_data] ELSE b_reg
  /\ Quiet /\ UNCHANGED b_ctr

-----------------------------------------------------------------------------
\* mu, one bit of m' after the other, through a registered input.
DecodeMessage ==
  \/ /\ b_state = "INV_V_SCALE"
     /\ Stores("DECODE_MU_SETUP", b_ctr, [b_reg EXCEPT !.scale_in = Gather(b_reg.raw_v)])
  \/ /\ b_state = "DECODE_MU_SETUP"
     /\ Stores("DECODE_MU", [b_ctr EXCEPT !.bit = 0],
               [b_reg EXCEPT !.scaled_v = Scale(b_reg.scale_in), !.bdec1_in = m_prime_in])
  \/ /\ b_state = "DECODE_MU"
     /\ Stores("DECODE_MU_CAPTURE", b_ctr,
               [b_reg EXCEPT !.c1_y_in = Coefficient("mu", 0, b_reg.bdec1_in, b_ctr.bit)])
  \/ /\ b_state = "DECODE_MU_CAPTURE"
     /\ LET r == [b_reg EXCEPT !.mu[b_ctr.bit] = b_reg.c1_y_in]
        IN  IF b_ctr.bit = Coeffs - 1 THEN Stores("ADD_E2", b_ctr, r)
            ELSE Stores("DECODE_MU", [b_ctr EXCEPT !.bit = @ + 1], r)

AddMessage ==
  \/ b_state = "ADD_E2" /\ Adds(b_reg.scaled_v, b_reg.e2, "ADD_MU")
  \/ b_state = "ADD_MU" /\ Adds(Sum, Gather(b_reg.mu), "COMPRESS_U_SETUP")

EncodeCiphertext ==
  \/ /\ b_state = "COMPRESS_U_SETUP"
     /\ Stores("COMPRESS_U", b_ctr, [b_reg EXCEPT !.v_poly = Sum, !.bcompu_in = b_reg.u_vec])
  \/ /\ b_state = "COMPRESS_U"
     /\ Stores("ENCODE_U", b_ctr,
               [b_reg EXCEPT !.bencu_in = [i \in Vec |-> Compress(10, b_reg.bcompu_in[i])]])
  \/ /\ b_state = "ENCODE_U"
     /\ Stores("COMPRESS_V_SETUP", b_ctr,
               [b_reg EXCEPT !.c_prime[1] = ByteEncode(10, b_reg.bencu_in[0]),
                             !.c_prime[2] = ByteEncode(10, b_reg.bencu_in[1]),
                             !.bcompv_in = b_reg.v_poly])
  \/ b_state = "COMPRESS_V_SETUP" /\ Stores("COMPRESS_V", b_ctr, b_reg)
  \/ /\ b_state = "COMPRESS_V"
     /\ Stores("ENCODE_V", b_ctr, [b_reg EXCEPT !.bencv_in = Compress(4, b_reg.bcompv_in)])
  \/ /\ b_state = "ENCODE_V"
     /\ Stores("START_SHAKE256", b_ctr,
               [b_reg EXCEPT !.c_prime[3] = ByteEncode(4, b_reg.bencv_in)])

\* c, read again, against c': K' or the secret of the rejection.
SelectSecret ==
  \/ b_state = "START_SHAKE256" /\ Calls("shake256", <<z_in, c_in>>, "WAIT_SHAKE256")
  \/ /\ b_state = "WAIT_SHAKE256" /\ b_unit["shake256"].done
     /\ LET match == c_in = b_reg.c_prime
        IN  Stores("DONE", b_ctr,
                   [b_reg EXCEPT !.match = match,
                                 !.K_final = IF match THEN K_prime_in
                                             ELSE b_unit["shake256"].out])

\* Without the pulse.
CompleteSilently ==
  b_state = "DONE" /\ Stores("IDLE", b_ctr, b_reg)
Complete ==
  /\ b_state = "DONE"
  /\ b_state' = "IDLE" /\ b_done' = TRUE
  /\ b_call' = "none" /\ Forward!Low /\ UNCHANGED <<b_ctr, b_reg, b_in>>

Waiting ==
  /\ \/ b_state = "IDLE" /\ ~b_start
     \/ b_state = "WAIT_SNTT" /\ ~b_unit["samplentt"].done
     \/ b_state = "WAIT_CBD1" /\ ~b_unit["cbd1"].done
     \/ b_state = "WAIT_CBD2" /\ ~b_unit["cbd2"].done
     \/ b_state = "WAIT_SHAKE256" /\ ~b_unit["shake256"].done
  /\ Stores(b_state, b_ctr, b_reg)

Fsm ==
  \/ /\ Begin \/ SampleMatrix \/ SampleVectors \/ MultiplyMatrix \/ AddError
          \/ DecodeMessage \/ AddMessage \/ EncodeCiphertext \/ SelectSecret
          \/ Complete \/ Waiting
     /\ UNCHANGED <<b_fwd, b_inv>>
  \/ (SampleLast \/ Transform \/ NextTransform) /\ UNCHANGED b_inv
  \/ (FirstInverse \/ InvertU \/ NextInverse \/ InvertV) /\ UNCHANGED b_fwd

-----------------------------------------------------------------------------
Result(u, x) ==
  CASE u = "samplentt" -> SampleNTT(x[1], x[2], x[3])
    [] u = "cbd1"      -> SampleCBD(3, x[1], x[2])
    [] u = "cbd2"      -> SampleCBD(2, x[1], x[2])
    [] OTHER           -> J(x[1], x[2])

UnitsEdge(go) ==
  b_unit' = [u \in Units |-> UnitAfter(b_unit[u], b_call = u,
               IF b_unit[u].fsm = "ABSORB" THEN Result(u, b_in[u]) ELSE Undefined, go)]

ReadingOf(p) == b_state \in {p.read, p.fetched}
Inverting == ReadingOf(Inverse!INV_U) \/ ReadingOf(Inverse!INV_V)
Reading   == Inverting \/ ReadingOf(Forward!FWD)

\* A clock edge, with reset low and with reset high: data and counters stay.
Clock(go) ==
  /\ Fsm
  /\ UnitsEdge(go)
  /\ Forward!NttEdge(Reading, IF Inverting THEN b_inv.read ELSE b_fwd.read, go)

Reset ==
  /\ b_state' = "IDLE" /\ Quiet /\ Forward!Low
  /\ UNCHANGED <<b_ctr, b_fwd, b_inv, b_reg>>
  /\ b_unit' = [u \in Units |-> UnitReset(b_unit[u])]
  /\ Forward!NttReset

(***************************************************************************)
(* The units are never reset between calls: none is started while it runs, *)
(* none sees its input change while it runs, and no stage starts while the *)
(* core is busy or the done of the stage before is up.                     *)
(***************************************************************************)
AtRest ==
  /\ \A u \in Units : /\ b_call = u => b_unit[u].fsm = "IDLE"
                      /\ b_unit[u].fsm # "IDLE" => b_in'[u] = b_in[u]
  /\ b_drive.start => b_ntt.fsm = "IDLE" /\ ~b_ntt.stage_done
  /\ b_ntt.fsm # "IDLE" => ~b_drive.load
=============================================================================
