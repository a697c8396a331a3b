------------------------------ MODULE MlDsaCore ------------------------------
(***************************************************************************)
(* What the arithmetic cores of ML-DSA signing have in common              *)
(* (pqc_dilithium_sign_w_core.sv, ..._z_core.sv, ..._hint_core.sv): one    *)
(* forward and one inverse NTT core, one multiplier behind two input       *)
(* registers, and start and wait states named after what is transformed.   *)
(***************************************************************************)
EXTENDS MlDsaTerms

VARIABLES
  core,     \* state, counters, data registers, done, call (fwd_start, inv_start)
  fwd, inv  \* fwd_dut, inv_dut

Blank == [c \in Indices |-> Undefined]

\* The registers of the next edge with all pulses low.
Low == [core EXCEPT !.call = "none", !.done = FALSE]

Begin(start, s) ==
  core.state = "IDLE" /\ start /\ core' = [Low EXCEPT !.state = s, !.ctr = 0]

\* The states of each transform and of each product.
Transform(start, wait, store) == [start |-> start, wait |-> wait, store |-> store]
FWD_Y  == Transform("FWD_Y_START", "FWD_Y_WAIT", "FWD_Y_STORE")
FWD_S1 == Transform("FWD_S1_START", "FWD_S1_WAIT", "FWD_S1_STORE")
FWD_S2 == Transform("FWD_S2_START", "FWD_S2_WAIT", "FWD_S2_STORE")
FWD_T0 == Transform("FWD_T0_START", "FWD_T0_WAIT", "FWD_T0_STORE")
FWD_C  == Transform("FWD_C_START", "FWD_C_WAIT", "FWD_C_STORE")
INV    == Transform("INV_START", "INV_WAIT", "INV_STORE")
INV_S2 == Transform("INV_S2_START", "INV_S2_WAIT", "INV_S2_STORE")
INV_T0 == Transform("INV_T0_START", "INV_T0_WAIT", "INV_T0_STORE")

Product(setup, capture, next) == [setup |-> setup, capture |-> capture, next |-> next]
MM_ACC == Product("MM_ACC_SETUP", "MM_ACC_CAPTURE", "MM_ACC_NEXT")
MUL    == Product("MUL_SETUP", "MUL_CAPTURE", "MUL_NEXT")
MUL_S2 == Product("MUL_S2_SETUP", "MUL_S2_CAPTURE", "MUL_S2_NEXT")
MUL_T0 == Product("MUL_T0_SETUP", "MUL_T0_CAPTURE", "MUL_T0_NEXT")

\* f is sent to a transform and waited for; the core's own STORE state follows.
Forward(p, f) ==
  \/ /\ core.state = p.start
     /\ core' = [Low EXCEPT !.fwd_in = f, !.call = "fwd", !.state = p.wait]
  \/ /\ core.state = p.wait /\ fwd.done
     /\ core' = [Low EXCEPT !.state = p.store]
Inverse(p, f) ==
  \/ /\ core.state = p.start
     /\ core' = [Low EXCEPT !.inv_in = f, !.call = "inv", !.state = p.wait]
  \/ /\ core.state = p.wait /\ inv.done
     /\ core' = [Low EXCEPT !.state = p.store]

\* The operands of the multiplier, at the running coefficient.
Operands(p, f, g) ==
  /\ core.state = p.setup
  /\ core' = [Low EXCEPT !.mm_a = At(f, core.coeff), !.mm_b = At(g, core.coeff),
                         !.state = p.capture]
mm_out == Times(core.mm_a, core.mm_b)

Complete == core.state = "DONE" /\ core' = [Low EXCEPT !.state = "IDLE", !.done = TRUE]

Waiting(start, forwards, inverses) ==
  /\ \/ core.state = "IDLE" /\ ~start
     \/ core.state \in {p.wait : p \in forwards} /\ ~fwd.done
     \/ core.state \in {p.wait : p \in inverses} /\ ~inv.done
  /\ core' = Low

UnitsEdge(go) ==
  /\ fwd' = UnitAfter(fwd, core.call = "fwd", NTT(core.fwd_in), go)
  /\ inv' = UnitAfter(inv, core.call = "inv", InverseNTT(core.inv_in), go)
UnitsReset == fwd' = UnitReset(fwd) /\ inv' = UnitReset(inv)
=============================================================================
