---------------------------- MODULE MlKemDecrypt -----------------------------
(***************************************************************************)
(* pqc_mlkem_decaps_a_core.sv: K-PKE.Decrypt and G(m' || h), phases A and  *)
(* G of decapsulation.  c_in and dkPKE_in are read when the core starts,   *)
(* h_in when G does.                                                       *)
(***************************************************************************)
EXTENDS KemTerms

VARIABLES
  a_start, c_in, dkPKE_in, h_in,      \* inputs
  a_state,
  a_ctr,      \* fwd_ctr, mm_i, m_bit_idx
  a_idx,      \* load_idx, sched_idx, read_idx
  a_reg,      \* the data registers
  a_done,
  a_call,     \* sha512_start
  a_in,       \* sha512_msg_in
  a_unit,     \* sha512_dut
  a_drive, a_ntt                      \* see NttPass

Transforms ==
  INSTANCE NttPass WITH state <- a_state, idx <- a_idx, drive <- a_drive, ntt <- a_ntt

Init ==
  /\ a_state = "IDLE"
  /\ a_ctr = [fwd |-> 0, mi |-> 0, bit |-> 0]
  /\ a_idx = [load |-> 0, sched |-> 0, read |-> 0]
  /\ LET none == [i \in Vec |-> Undefined]
         blank == Loaded(Undefined)
     IN  a_reg = [c |-> Undefined, dkPKE |-> Undefined,
                  decompU_in |-> none, decompV_in |-> Undefined,
                  u_prime |-> none, v_prime |-> Undefined, s_hat |-> none,
                  u_hat |-> [i \in Vec |-> blank], acc |-> Undefined,
                  inner_raw |-> blank, inner |-> Undefined, w |-> Undefined,
                  c1_x_in |-> blank[0], m_bits |-> blank,
                  K_prime |-> Undefined, r_prime |-> Undefined]
  /\ a_done = FALSE /\ a_call = FALSE /\ a_in = Undefined
  /\ a_unit = IdleUnit
  /\ a_drive = Transforms!IdleDrive
  /\ a_ntt = Transforms!IdleNtt

-----------------------------------------------------------------------------
\* A step that only touches the counters and registers.
Quiet == a_done' = FALSE /\ a_call' = FALSE /\ UNCHANGED a_in
Stores(s, c, r) == a_state' = s /\ a_ctr' = c /\ a_reg' = r /\ Quiet /\ Transforms!Low

Begin ==
  \/ /\ a_state = "IDLE" /\ a_start
     /\ Stores("DECODE_U_V", a_ctr, [a_reg EXCEPT !.c = c_in, !.dkPKE = dkPKE_in])
  \/ /\ a_state = "DECODE_U_V"
     /\ Stores("DECODE_S", a_ctr,
               [a_reg EXCEPT !.decompU_in = [i \in Vec |-> ByteDecode(10, a_reg.c[i + 1])],
                             !.decompV_in = ByteDecode(4, a_reg.c[3])])

FirstTransform ==
  /\ a_state = "DECODE_S"
  /\ Stores("FWD_LOAD", [a_ctr EXCEPT !.fwd = 0],
            [a_reg EXCEPT !.u_prime = [i \in Vec |-> Decompress(10, a_reg.decompU_in[i])],
                          !.v_prime = Decompress(4, a_reg.decompV_in),
                          !.s_hat = [i \in Vec |-> ByteDecode(12, Part(a_reg.dkPKE, i))]])
  /\ a_idx' = [a_idx EXCEPT !.load = 0]

Transform ==
  /\ Transforms!Pass(Transforms!FWD, a_reg.u_prime[a_ctr.fwd], "ntt", "FWD_NEXT")
  /\ a_reg' = IF Transforms!Arrives(Transforms!FWD)
              THEN [a_reg EXCEPT !.u_hat[a_ctr.fwd][a_idx.read] = a_ntt.read_data] ELSE a_reg
  /\ Quiet /\ UNCHANGED a_ctr

NextTransform ==
  /\ a_state = "FWD_NEXT" /\ a_ctr.fwd < K - 1
  /\ Stores("FWD_LOAD", [a_ctr EXCEPT !.fwd = @ + 1], a_reg)
  /\ a_idx' = [a_idx EXCEPT !.load = 0]

\* The multiplier and the adder are combinational: one product an edge.
Sum == Plus(a_reg.acc, Multiply(a_reg.s_hat[a_ctr.mi], Gather(a_reg.u_hat[a_ctr.mi])))

MultiplyVectors ==
  \/ /\ a_state = "FWD_NEXT" /\ a_ctr.fwd = K - 1
     /\ Stores("MATMUL", [a_ctr EXCEPT !.mi = 0], [a_reg EXCEPT !.acc = Zero])
  \/ /\ a_state = "MATMUL" /\ a_ctr.mi < K - 1
     /\ Stores("MATMUL", [a_ctr EXCEPT !.mi = @ + 1], [a_reg EXCEPT !.acc = Sum])

LastProduct ==
  /\ a_state = "MATMUL" /\ a_ctr.mi = K - 1
  /\ Stores("INV_LOAD", a_ctr, [a_reg EXCEPT !.acc = Sum])
  /\ a_idx' = [a_idx EXCEPT !.load = 0]

Invert ==
  /\ Transforms!Pass(Transforms!INV, a_reg.acc, "inverse", "SCALE")
  /\ a_reg' = IF Transforms!Arrives(Transforms!INV)
              THEN [a_reg EXCEPT !.inner_raw[a_idx.read] = a_ntt.read_data] ELSE a_reg
  /\ Quiet /\ UNCHANGED a_ctr

\* The input of the rounder and its answer in one edge.
EncodeMessageEager ==
  \/ /\ a_state = "SCALE"
     /\ Stores("SUB", a_ctr, [a_reg EXCEPT !.inner = Scale(Gather(a_reg.inner_raw))])
  \/ /\ a_state = "SUB"
     /\ Stores("ENCODE_M", [a_ctr EXCEPT !.bit = 0],
               [a_reg EXCEPT !.w = Minus(a_reg.v_prime, a_reg.inner)])
  \/ /\ a_state = "ENCODE_M"
     /\ Stores(IF a_ctr.bit = Coeffs - 1 THEN "START_SHA512" ELSE "ENCODE_M",
               [a_ctr EXCEPT !.bit = IF @ = Coeffs - 1 THEN @ ELSE @ + 1],
               [a_reg EXCEPT !.c1_x_in = Coefficient("bit", 0, a_reg.w, a_ctr.bit),
                             !.m_bits[a_ctr.bit] = a_reg.c1_x_in])
\* One bit of m' after the other, through a registered input.
EncodeMessage ==
  \/ /\ a_state = "SCALE"
     /\ Stores("SUB", a_ctr, [a_reg EXCEPT !.inner = Scale(Gather(a_reg.inner_raw))])
  \/ /\ a_state = "SUB"
     /\ Stores("ENCODE_M_SETUP", [a_ctr EXCEPT !.bit = 0],
               [a_reg EXCEPT !.w = Minus(a_reg.v_prime, a_reg.inner)])
  \/ /\ a_state = "ENCODE_M_SETUP"
     /\ Stores("ENCODE_M", a_ctr,
               [a_reg EXCEPT !.c1_x_in = Coefficient("bit", 0, a_reg.w, a_ctr.bit)])
  \/ /\ a_state = "ENCODE_M"
     /\ LET r == [a_reg EXCEPT !.m_bits[a_ctr.bit] = a_reg.c1_x_in]
        IN  IF a_ctr.bit = Coeffs - 1 THEN Stores("START_SHA512", a_ctr, r)
            ELSE Stores("ENCODE_M_SETUP", [a_ctr EXCEPT !.bit = @ + 1], r)

m_prime_out == Message(a_reg.m_bits)

DeriveSecret ==
  \/ /\ a_state = "START_SHA512"
     /\ a_state' = "WAIT_SHA512" /\ a_call' = TRUE /\ a_in' = <<m_prime_out, h_in>>
     /\ a_done' = FALSE /\ Transforms!Low /\ UNCHANGED <<a_ctr, a_reg>>
  \/ /\ a_state = "WAIT_SHA512" /\ a_unit.done
     /\ Stores("DONE", a_ctr,
               [a_reg EXCEPT !.K_prime = a_unit.out[1], !.r_prime = a_unit.out[2]])

Complete ==
  /\ a_state = "DONE"
  /\ a_state' = "IDLE" /\ a_done' = TRUE
  /\ a_call' = FALSE /\ Transforms!Low /\ UNCHANGED <<a_ctr, a_reg, a_in>>

Waiting ==
  /\ \/ a_state = "IDLE" /\ ~a_start
     \/ a_state = "WAIT_SHA512" /\ ~a_unit.done
  /\ Stores(a_state, a_ctr, a_reg)

Fsm ==
  \/ /\ Begin \/ MultiplyVectors \/ EncodeMessage \/ DeriveSecret \/ Complete \/ Waiting
     /\ UNCHANGED a_idx
  \/ FirstTransform \/ Transform \/ NextTransform \/ LastProduct \/ Invert

-----------------------------------------------------------------------------
Reading == a_state \in {p.read : p \in {Transforms!FWD, Transforms!INV}}
                        \cup {p.fetched : p \in {Transforms!FWD, Transforms!INV}}

\* A clock edge, with reset low and with reset high: data and counters stay.
Clock(go) ==
  /\ Fsm
  /\ a_unit' = UnitAfter(a_unit, a_call,
                 IF a_unit.fsm = "ABSORB" THEN G(a_in[1], a_in[2]) ELSE Undefined, go)
  /\ Transforms!NttEdge(Reading, a_idx.read, go)

Reset ==
  /\ a_state' = "IDLE" /\ Quiet /\ Transforms!Low
  /\ UNCHANGED <<a_ctr, a_idx, a_reg>>
  /\ a_unit' = UnitReset(a_unit)
  /\ Transforms!NttReset
=============================================================================
