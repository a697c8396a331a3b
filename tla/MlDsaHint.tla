------------------------------ MODULE MlDsaHint ------------------------------
(***************************************************************************)
(* pqc_dilithium_sign_hint_core.sv: c*s2, c*t0, the hints made of them and *)
(* of w, and the three checks on them.                                     *)
(***************************************************************************)
EXTENDS MlDsaCore

VARIABLES start, w_in, s2_in, t0_in, c_in       \* inputs, read while the core runs

Zeros == <<"zeros">>
Polys(f) == [i \in Rows |-> f]

Init ==
  /\ core = [state |-> "IDLE", done |-> FALSE, call |-> "none",
             fwd_in |-> Undefined, inv_in |-> Undefined, mm_a |-> Undefined, mm_b |-> Undefined,
             ctr |-> 0, row |-> 0, coeff |-> 0, c_hat |-> Undefined,
             s2_hat |-> Polys(Undefined), t0_hat |-> Polys(Undefined),
             c_s2_hat |-> Polys(Blank), c_t0_hat |-> Polys(Blank),
             c_s2_raw |-> Polys(Undefined), c_t0_raw |-> Polys(Undefined)]
  /\ fwd = IdleUnit /\ inv = IdleUnit

TransformSecret ==
  \/ Forward(FWD_S2, s2_in[core.ctr])
  \/ /\ core.state = "FWD_S2_STORE"
     /\ core' = LET stored == [Low EXCEPT !.s2_hat[core.ctr] = fwd.out]
                IN  IF core.ctr = K - 1 THEN [stored EXCEPT !.ctr = 0, !.state = "FWD_T0_START"]
                    ELSE [stored EXCEPT !.ctr = @ + 1, !.state = "FWD_S2_START"]

TransformLowBits ==
  \/ Forward(FWD_T0, t0_in[core.ctr])
  \/ /\ core.state = "FWD_T0_STORE"
     /\ core' = LET stored == [Low EXCEPT !.t0_hat[core.ctr] = fwd.out]
                IN  IF core.ctr = K - 1 THEN [stored EXCEPT !.state = "FWD_C_START"]
                    ELSE [stored EXCEPT !.ctr = @ + 1, !.state = "FWD_T0_START"]

TransformChallenge ==
  \/ Forward(FWD_C, Zq(c_in))
  \/ /\ core.state = "FWD_C_STORE"
     /\ core' = [Low EXCEPT !.c_hat = fwd.out, !.row = 0, !.coeff = 0, !.state = "MUL_S2_SETUP"]

\* The next coefficient or row of loop p, whose counters are cleared for what follows.
NextProduct(p, cleared) ==
  /\ core.state = p.next
  /\ core' = IF core.coeff < Coeffs - 1
             THEN [Low EXCEPT !.coeff = @ + 1, !.state = p.setup]
             ELSE IF core.row < K - 1
             THEN [Low EXCEPT !.row = @ + 1, !.coeff = 0, !.state = p.setup]
             ELSE cleared

ScaleSecret ==
  \/ Operands(MUL_S2, core.s2_hat[core.row], core.c_hat)
  \/ /\ core.state = "MUL_S2_CAPTURE"
     /\ core' = [Low EXCEPT !.c_s2_hat[core.row][core.coeff] = mm_out, !.state = "MUL_S2_NEXT"]
  \/ NextProduct(MUL_S2, [Low EXCEPT !.row = 0, !.coeff = 0, !.state = "MUL_T0_SETUP"])

ScaleLowBits ==
  \/ Operands(MUL_T0, core.t0_hat[core.row], core.c_hat)
  \/ /\ core.state = "MUL_T0_CAPTURE"
     /\ core' = [Low EXCEPT !.c_t0_hat[core.row][core.coeff] = mm_out, !.state = "MUL_T0_NEXT"]
  \/ NextProduct(MUL_T0, [Low EXCEPT !.row = 0, !.state = "INV_S2_START"])

InvertSecret ==
  \/ Inverse(INV_S2, Gather(core.c_s2_hat[core.row]))
  \/ /\ core.state = "INV_S2_STORE"
     /\ core' = LET stored == [Low EXCEPT !.c_s2_raw[core.row] = inv.out]
                IN  IF core.row = K - 1 THEN [stored EXCEPT !.row = 0, !.state = "INV_T0_START"]
                    ELSE [stored EXCEPT !.row = @ + 1, !.state = "INV_S2_START"]

InvertLowBits ==
  \/ Inverse(INV_T0, Gather(core.c_t0_hat[core.row]))
  \/ /\ core.state = "INV_T0_STORE"
     /\ core' = LET stored == [Low EXCEPT !.c_t0_raw[core.row] = inv.out]
                IN  IF core.row = K - 1 THEN [stored EXCEPT !.state = "DONE"]
                    ELSE [stored EXCEPT !.row = @ + 1, !.state = "INV_T0_START"]

\* Combinational outputs.
h_out == [i \in Rows |-> MakeHint(w_in[i], core.c_s2_raw[i], core.c_t0_raw[i])]
reject == RejectsH(h_out)

Clock(go) ==
  /\ \/ Begin(start, "FWD_S2_START") \/ TransformSecret \/ TransformLowBits
     \/ TransformChallenge \/ ScaleSecret \/ ScaleLowBits \/ InvertSecret \/ InvertLowBits
     \/ Complete \/ Waiting(start, {FWD_S2, FWD_T0, FWD_C}, {INV_S2, INV_T0})
  /\ UnitsEdge(go)

\* The data registers of this core are cleared, those of the others are not.
Reset ==
  /\ core' = [Low EXCEPT !.state = "IDLE", !.c_hat = Zeros,
                         !.s2_hat = Polys(Zeros), !.t0_hat = Polys(Zeros),
                         !.c_s2_hat = Polys([c \in Indices |-> At(Zeros, c)]),
                         !.c_t0_hat = Polys([c \in Indices |-> At(Zeros, c)]),
                         !.c_s2_raw = Polys(Zeros), !.c_t0_raw = Polys(Zeros)]
  /\ UnitsReset
=============================================================================
