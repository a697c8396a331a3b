----------------------------- MODULE MlKemDecaps -----------------------------
(***************************************************************************)
(* pqc_mlkem_decaps_top.sv: decrypt and derive (phases A and G), encrypt   *)
(* again and choose the secret (phase B).  c_in and dk_in are the          *)
(* wrapper's buffers; both phases read them as wires, at different times.  *)
(***************************************************************************)
EXTENDS KemTerms

CONSTANTS Inputs,       \* the pairs <<dk, c>> the ECU may write into the buffers
          MaxStarts,    \* bound on the START pulses
          MaxResets     \* bound on the resets

ASSUME BoundAssumption == MaxStarts \in Nat /\ MaxResets \in Nat

VARIABLES
  state, done, call,                                  \* the top module
  a_state, a_ctr, a_idx, a_reg, a_done, a_call, a_in, a_unit, a_drive, a_ntt,
  b_state, b_ctr, b_fwd, b_inv, b_reg, b_done, b_call, b_in, b_unit, b_drive, b_ntt,
  c_in, dk_in, start,                                 \* the wrapper's buffers and pulse
  used,                                               \* history: the inputs of this run
  starts, resets

topVars == <<state, done, call>>
aVars   == <<a_state, a_ctr, a_idx, a_reg, a_done, a_call, a_in, a_unit, a_drive, a_ntt>>
bVars   == <<b_state, b_ctr, b_fwd, b_inv, b_reg, b_done, b_call, b_in, b_unit, b_drive, b_ntt>>
ecuVars == <<c_in, dk_in, start, used, starts, resets>>
vars    == <<topVars, aVars, bVars, ecuVars>>

decaps_a ==
  INSTANCE MlKemDecrypt WITH a_start <- call = "A", dkPKE_in <- dk_in.pke, h_in <- dk_in.h
decaps_b ==
  INSTANCE MlKemEncrypt WITH b_start <- call = "B", ek_in <- dk_in.ek, z_in <- dk_in.z,
    r_prime_in <- a_reg.r_prime, m_prime_in <- decaps_a!m_prime_out, K_prime_in <- a_reg.K_prime

Init ==
  /\ state = "IDLE" /\ done = FALSE /\ call = "none"
  /\ decaps_a!Init /\ decaps_b!Init
  /\ \E x \in Inputs : dk_in = x[1] /\ c_in = x[2]
  /\ start = FALSE /\ used = Undefined /\ starts = 0 /\ resets = 0

-----------------------------------------------------------------------------
\* To state s, with the start pulse of phase p.
Goes(s, p) == state' = s /\ call' = p /\ done' = FALSE

Begin    == state = "IDLE" /\ start /\ Goes("WAIT_A", "A")
\* The start pulse of the wrong phase.
ContinueWithA == state = "WAIT_A" /\ a_done /\ Goes("WAIT_B", "A")
Continue == state = "WAIT_A" /\ a_done /\ Goes("WAIT_B", "B")
\* done with the end of phase B, one edge early.
FinishDone == state = "WAIT_B" /\ b_done /\ state' = "DONE" /\ call' = "none" /\ done' = TRUE
Finish   == state = "WAIT_B" /\ b_done /\ Goes("DONE", "none")
Complete == state = "DONE" /\ state' = "IDLE" /\ call' = "none" /\ done' = TRUE
Waiting ==
  /\ \/ state = "IDLE" /\ ~start
     \/ state = "WAIT_A" /\ ~a_done
     \/ state = "WAIT_B" /\ ~b_done
  /\ Goes(state, "none")

Fsm == Begin \/ Continue \/ Finish \/ Complete \/ Waiting

(***************************************************************************)
(* The wrapper's side.  The buffers are not rewritten during a run: c_in   *)
(* is decrypted at its beginning and compared at its end.  A START pulse   *)
(* may come at any time, and is ignored in a run.                          *)
(***************************************************************************)
Ecu ==
  /\ \/ start' = FALSE /\ UNCHANGED starts
     \/ start' = TRUE /\ starts < MaxStarts /\ starts' = starts + 1
  /\ \/ UNCHANGED <<c_in, dk_in>>
     \/ /\ state = "IDLE" /\ ~start
        /\ \E x \in Inputs : dk_in' = x[1] /\ c_in' = x[2]
  /\ used' = IF state = "IDLE" /\ start THEN <<dk_in, c_in>> ELSE used
  /\ UNCHANGED resets

Clock(go) == Fsm /\ decaps_a!Clock(go) /\ decaps_b!Clock(go) /\ Ecu

\* An edge with reset high.
Reset ==
  /\ resets < MaxResets /\ resets' = resets + 1
  /\ Goes("IDLE", "none")
  /\ decaps_a!Reset /\ decaps_b!Reset
  /\ start' = FALSE
  /\ UNCHANGED <<c_in, dk_in, used, starts>>

Next == Reset \/ \E go \in BOOLEAN : Clock(go)

Spec == Init /\ [][Next]_vars

\* The clock runs, and no unit runs for ever.
FairSpec == Spec /\ WF_vars(Clock(TRUE))

-----------------------------------------------------------------------------
(***************************************************************************)
(* When done rises, match_out and K_final_out are what Algorithm 18 makes  *)
(* of the key and the ciphertext in the buffers at START: the shared       *)
(* secret for an honest ciphertext, the secret of the rejection for an     *)
(* altered one, whatever earlier runs or a reset in the middle of one left *)
(* behind in the two cores.                                                *)
(***************************************************************************)
DecapsulationCorrect ==
  done => LET d == Decapsulated(used[1], used[2])
          IN  b_reg.match = d.match /\ b_reg.K_final = d.secret

\* To the wrapper decapsulation is an operation: one START that finds it
\* idle gives one run, which ends with one edge of done and never without it.
Op == INSTANCE Operation WITH running <- state # "IDLE"
ImplementsOperation == Op!Spec
=============================================================================
