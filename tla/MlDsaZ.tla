------------------------------- MODULE MlDsaZ --------------------------------
(***************************************************************************)
(* pqc_dilithium_sign_z_core.sv: z = y + c*s1 and its norm check.          *)
(***************************************************************************)
EXTENDS MlDsaCore

VARIABLES start, s1_in, y_in, c_in      \* inputs, read while the core runs

Init ==
  /\ core = [state |-> "IDLE", done |-> FALSE, call |-> "none",
             fwd_in |-> Undefined, inv_in |-> Undefined, mm_a |-> Undefined, mm_b |-> Undefined,
             ctr |-> 0, row |-> 0, coeff |-> 0, c_hat |-> Undefined,
             s1_hat |-> [i \in Columns |-> Undefined],
             c_s1_hat |-> [i \in Columns |-> Blank],
             c_s1_raw |-> [i \in Columns |-> Undefined]]
  /\ fwd = IdleUnit /\ inv = IdleUnit

TransformSecret ==
  \/ Forward(FWD_S1, s1_in[core.ctr])
  \/ /\ core.state = "FWD_S1_STORE"
     /\ core' = LET stored == [Low EXCEPT !.s1_hat[core.ctr] = fwd.out]
                IN  IF core.ctr = L - 1 THEN [stored EXCEPT !.state = "FWD_C_START"]
                    ELSE [stored EXCEPT !.ctr = @ + 1, !.state = "FWD_S1_START"]

TransformChallenge ==
  \/ Forward(FWD_C, Zq(c_in))
  \/ /\ core.state = "FWD_C_STORE"
     /\ core' = [Low EXCEPT !.c_hat = fwd.out, !.row = 0, !.coeff = 0, !.state = "MUL_SETUP"]

Scale ==
  \/ Operands(MUL, core.s1_hat[core.row], core.c_hat)
  \/ /\ core.state = "MUL_CAPTURE"
     /\ core' = [Low EXCEPT !.c_s1_hat[core.row][core.coeff] = mm_out, !.state = "MUL_NEXT"]
  \/ /\ core.state = "MUL_NEXT"
     /\ core' = IF core.coeff < Coeffs - 1 THEN [Low EXCEPT !.coeff = @ + 1, !.state = "MUL_SETUP"]
                ELSE IF core.row < L - 1
                THEN [Low EXCEPT !.row = @ + 1, !.coeff = 0, !.state = "MUL_SETUP"]
                ELSE [Low EXCEPT !.row = 0, !.state = "INV_START"]

InvertRows ==
  \/ Inverse(INV, Gather(core.c_s1_hat[core.row]))
  \/ /\ core.state = "INV_STORE"
     /\ core' = LET stored == [Low EXCEPT !.c_s1_raw[core.row] = inv.out]
                IN  IF core.row = L - 1 THEN [stored EXCEPT !.state = "DONE"]
                    ELSE [stored EXCEPT !.row = @ + 1, !.state = "INV_START"]

\* Combinational outputs.
z_out == [i \in Columns |-> Plus(y_in[i], core.c_s1_raw[i])]
reject == RejectsZ(z_out)

Clock(go) ==
  /\ \/ Begin(start, "FWD_S1_START") \/ TransformSecret \/ TransformChallenge \/ Scale
     \/ InvertRows \/ Complete \/ Waiting(start, {FWD_S1, FWD_C}, {INV})
  /\ UnitsEdge(go)

Reset == core' = [Low EXCEPT !.state = "IDLE"] /\ UnitsReset
=============================================================================
