---------------------------- MODULE MlDsaSampling -----------------------------
(***************************************************************************)
(* The three cores of ML-DSA signing that call samplers:                   *)
(* pqc_dilithium_expand_a.sv (A: the K x L polynomials of A_hat, row by    *)
(* row), ..._expand_mask_vector.sv (em: the L polynomials of y) and        *)
(* ..._sign_challenge.sv (ch: the hash of mu and the high bits of w, and   *)
(* the challenge polynomial made of it).  Inputs are registers and ports   *)
(* of the signing above, and call its start pulse.                         *)
(***************************************************************************)
EXTENDS MlDsaTerms

VARIABLES
  call, reg, in,        \* of MlDsaSign: the unit started, its registers, its ports
  A, A_poly,            \* state, i_ctr, j_ctr, i_reg and j_reg, A_mem, done, poly_start
  em, em_poly,          \* state, i_ctr, kappa_plus_i, y_mem, done, poly_start
  ch, ch_shake, ch_sib  \* state, shake_msg_in, c_tilde_out, done, shake_start, sib_start

samplingVars == <<A, A_poly, em, em_poly, ch, ch_shake, ch_sib>>

SamplingInit ==
  /\ A = [state |-> "IDLE", done |-> FALSE, call |-> "none", i |-> 0, j |-> 0, at |-> <<0, 0>>,
          A_mem |-> [i \in Rows |-> [j \in Columns |-> Undefined]]]
  /\ em = [state |-> "IDLE", done |-> FALSE, call |-> "none", i |-> 0, kappa_plus_i |-> 0,
           y_mem |-> [j \in Columns |-> Undefined]]
  /\ ch = [state |-> "IDLE", done |-> FALSE, call |-> "none",
           msg |-> <<Undefined, Undefined>>, c_tilde |-> Undefined]
  /\ A_poly = IdleUnit /\ em_poly = IdleUnit /\ ch_shake = IdleUnit /\ ch_sib = IdleUnit

\* The registers of a core on the next edge with all pulses low.
Low(core) == [core EXCEPT !.call = "none", !.done = FALSE]

\* From s to t with the start pulse of unit u; from s to t when the unit is done.
CallsUnit(core, s, u, t) == core.state = s /\ core' = [Low(core) EXCEPT !.call = u, !.state = t]
UnitDone(core, s, unit, t) == core.state = s /\ unit.done /\ core' = [Low(core) EXCEPT !.state = t]

CoreComplete(core) ==
  core.state = "DONE" /\ core' = [Low(core) EXCEPT !.state = "IDLE", !.done = TRUE]
CoreWaits(core, s, unit) == core.state = s /\ ~unit.done /\ core' = Low(core)
CoreIdles(core, name) == core.state = "IDLE" /\ call # name /\ core' = Low(core)

-----------------------------------------------------------------------------
ExpandA ==
  \/ CoreIdles(A, "A")
  \/ /\ A.state = "IDLE" /\ call = "A"
     /\ A' = [Low(A) EXCEPT !.i = 0, !.j = 0, !.state = "START_POLY"]
  \/ /\ A.state = "START_POLY"
     /\ A' = [Low(A) EXCEPT !.at = <<A.i, A.j>>, !.call = "poly", !.state = "WAIT_POLY"]
  \/ CoreWaits(A, "WAIT_POLY", A_poly) \/ UnitDone(A, "WAIT_POLY", A_poly, "STORE")
  \/ A.state = "STORE" /\ A' = [Low(A) EXCEPT !.A_mem[A.i][A.j] = A_poly.out, !.state = "NEXT"]
  \/ /\ A.state = "NEXT"
     /\ A' = IF A.j < L - 1 THEN [Low(A) EXCEPT !.j = @ + 1, !.state = "START_POLY"]
             ELSE IF A.i < K - 1
             THEN [Low(A) EXCEPT !.i = @ + 1, !.j = 0, !.state = "START_POLY"]
             ELSE [Low(A) EXCEPT !.j = 0, !.state = "DONE"]
  \/ CoreComplete(A)

ExpandMaskVector ==
  \/ CoreIdles(em, "em")
  \/ em.state = "IDLE" /\ call = "em" /\ em' = [Low(em) EXCEPT !.i = 0, !.state = "START_POLY"]
  \/ /\ em.state = "START_POLY"
     /\ em' = [Low(em) EXCEPT !.kappa_plus_i = reg.kappa + em.i, !.call = "poly",
                              !.state = "WAIT_POLY"]
  \/ CoreWaits(em, "WAIT_POLY", em_poly) \/ UnitDone(em, "WAIT_POLY", em_poly, "STORE")
  \/ /\ em.state = "STORE"
     /\ em' = LET stored == [Low(em) EXCEPT !.y_mem[em.i] = em_poly.out]
              IN  IF em.i = L - 1 THEN [stored EXCEPT !.state = "DONE"]
                  ELSE [stored EXCEPT !.i = @ + 1, !.state = "START_POLY"]
  \/ CoreComplete(em)

SignChallenge ==
  \/ CoreIdles(ch, "ch")
  \/ /\ ch.state = "IDLE" /\ call = "ch"
     /\ ch' = [Low(ch) EXCEPT !.msg = <<reg.mu, [i \in Rows |-> HighBits(reg.w[i])]>>,
                              !.state = "START_SHAKE"]
  \/ CallsUnit(ch, "START_SHAKE", "shake", "WAIT_SHAKE")
  \/ CoreWaits(ch, "WAIT_SHAKE", ch_shake)
  \/ /\ ch.state = "WAIT_SHAKE" /\ ch_shake.done
     /\ ch' = [Low(ch) EXCEPT !.c_tilde = ch_shake.out, !.state = "START_SIB"]
  \/ CallsUnit(ch, "START_SIB", "sib", "WAIT_SIB")
  \/ CoreWaits(ch, "WAIT_SIB", ch_sib) \/ UnitDone(ch, "WAIT_SIB", ch_sib, "DONE")
  \/ CoreComplete(ch)

SamplersEdge(go) ==
  /\ A_poly' = UnitAfter(A_poly, A.call = "poly",
                         RejNTTPoly(Port("rho", in), A.at[1], A.at[2]), go)
  /\ em_poly' = UnitAfter(em_poly, em.call = "poly",
                          ExpandMask(reg.rho_prime, em.kappa_plus_i), go)
  /\ ch_shake' = UnitAfter(ch_shake, ch.call = "shake", ChallengeHash(ch.msg[1], ch.msg[2]), go)
  /\ ch_sib' = UnitAfter(ch_sib, ch.call = "sib", SampleInBall(ch.c_tilde), go)

SamplingClock(go) == ExpandA /\ ExpandMaskVector /\ SignChallenge /\ SamplersEdge(go)

CoreReset(core) == core' = [Low(core) EXCEPT !.state = "IDLE"]
SamplingReset ==
  /\ CoreReset(A) /\ CoreReset(em) /\ CoreReset(ch)
  /\ A_poly' = UnitReset(A_poly) /\ em_poly' = UnitReset(em_poly)
  /\ ch_shake' = UnitReset(ch_shake) /\ ch_sib' = UnitReset(ch_sib)
=============================================================================
