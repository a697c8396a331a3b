------------------------------- MODULE MlDsaW --------------------------------
(***************************************************************************)
(* pqc_dilithium_sign_w_core.sv: w = NTT^-1(A_hat @ NTT(y)).               *)
(***************************************************************************)
EXTENDS MlDsaCore

VARIABLES start, A_hat_in, y_in     \* inputs, read while the core runs

Init ==
  /\ core = [state |-> "IDLE", done |-> FALSE, call |-> "none",
             fwd_in |-> Undefined, inv_in |-> Undefined, mm_a |-> Undefined, mm_b |-> Undefined,
             ctr |-> 0, row |-> 0, coeff |-> 0, acc |-> Undefined, col |-> 0,
             y_hat |-> [j \in Columns |-> Undefined],
             w_hat |-> [i \in Rows |-> Blank],
             w_raw |-> [i \in Rows |-> Undefined]]
  /\ fwd = IdleUnit /\ inv = IdleUnit

TransformMask ==
  \/ Forward(FWD_Y, y_in[core.ctr])
  \/ /\ core.state = "FWD_Y_STORE"
     /\ core' = LET stored == [Low EXCEPT !.y_hat[core.ctr] = fwd.out]
                IN  IF core.ctr = L - 1 THEN [stored EXCEPT !.row = 0, !.state = "MM_ROW_INIT"]
                    ELSE [stored EXCEPT !.ctr = @ + 1, !.state = "FWD_Y_START"]

\* One coefficient of one row: the products of all columns are summed up.
MultiplyMatrix ==
  \/ /\ core.state = "MM_ROW_INIT"
     /\ core' = [Low EXCEPT !.col = 0, !.coeff = 0, !.acc = Zero, !.state = "MM_ACC_SETUP"]
  \/ Operands(MM_ACC, A_hat_in[core.row][core.col], core.y_hat[core.col])
  \/ /\ core.state = "MM_ACC_CAPTURE"
     /\ core' = [Low EXCEPT !.acc = Accumulate(@, mm_out), !.state = "MM_ACC_NEXT"]
  \/ /\ core.state = "MM_ACC_NEXT" /\ core.col < L - 1
     /\ core' = [Low EXCEPT !.col = @ + 1, !.state = "MM_ACC_SETUP"]

NextCoefficient ==
  /\ core.state = "MM_ACC_NEXT" /\ core.col = L - 1
  /\ core' =
       LET stored == [Low EXCEPT !.w_hat[core.row][core.coeff] = core.acc,
                                 !.col = 0, !.acc = Zero]
       IN  IF core.coeff < Coeffs - 1 THEN [stored EXCEPT !.coeff = @ + 1, !.state = "MM_ACC_SETUP"]
           ELSE IF core.row < K - 1
           THEN [stored EXCEPT !.row = @ + 1, !.coeff = 0, !.state = "MM_ACC_SETUP"]
           ELSE [stored EXCEPT !.row = 0, !.state = "INV_START"]

InvertRows ==
  \/ Inverse(INV, Gather(core.w_hat[core.row]))
  \/ /\ core.state = "INV_STORE"
     /\ core' = LET stored == [Low EXCEPT !.w_raw[core.row] = inv.out]
                IN  IF core.row = K - 1 THEN [stored EXCEPT !.state = "DONE"]
                    ELSE [stored EXCEPT !.row = @ + 1, !.state = "INV_START"]

Clock(go) ==
  /\ \/ Begin(start, "FWD_Y_START") \/ TransformMask \/ MultiplyMatrix \/ NextCoefficient
     \/ InvertRows \/ Complete \/ Waiting(start, {FWD_Y}, {INV})
  /\ UnitsEdge(go)

Reset == core' = [Low EXCEPT !.state = "IDLE"] /\ UnitsReset
=============================================================================
