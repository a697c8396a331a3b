------------------------------ MODULE MlDsaSign ------------------------------
(***************************************************************************)
(* pqc_dilithium_sign_top2.sv: ML-DSA signing with its rejection loop.     *)
(* Every stage reads registers and ends in registers; the five cores are   *)
(* called again for each attempt, without a reset in between.  The ports   *)
(* (key, message, randomness) are read when they are needed.               *)
(***************************************************************************)
EXTENDS MlDsaSampling

CONSTANTS MaxStarts,    \* bound on the start pulses
          MaxResets     \* bound on the resets

ASSUME BoundAssumption == MaxStarts \in Nat /\ MaxResets \in Nat

VARIABLES
  state, done,          \* the FSM and its output
  mu_dut, rp_dut,       \* the two hash units of this module
  w, w_fwd, w_inv, z, z_fwd, z_inv, h, h_fwd, h_inv,    \* the arithmetic cores
  start,                \* the start pulse
  used,                 \* history: the input of this run
  starts, resets

coreVars == <<samplingVars, w, w_fwd, w_inv, z, z_fwd, z_inv, h, h_fwd, h_inv>>
vars == <<state, done, call, reg, mu_dut, rp_dut, coreVars, in, start, used, starts, resets>>

Secret(name, range) == [i \in range |-> Poly(name, in, i)]

w_dut == INSTANCE MlDsaW WITH
  start <- call = "w", A_hat_in <- reg.A_hat, y_in <- reg.y_zq,
  core <- w, fwd <- w_fwd, inv <- w_inv
z_dut == INSTANCE MlDsaZ WITH
  start <- call = "z", s1_in <- Secret("s1", Columns), y_in <- reg.y, c_in <- reg.c,
  core <- z, fwd <- z_fwd, inv <- z_inv
h_dut == INSTANCE MlDsaHint WITH
  start <- call = "h", w_in <- reg.w, s2_in <- Secret("s2", Rows), t0_in <- Secret("t0", Rows),
  c_in <- reg.c, core <- h, fwd <- h_fwd, inv <- h_inv

Init ==
  /\ state = "IDLE" /\ done = FALSE /\ call = "none"
  /\ LET y == [j \in Columns |-> Undefined]
         v == [i \in Rows |-> Undefined]
     IN  reg = [mu_msg |-> <<Undefined, Undefined>>, mu |-> Undefined,
                rp_msg |-> <<Undefined, Undefined, Undefined>>, rho_prime |-> Undefined,
                A_hat |-> [i \in Rows |-> y], y |-> y, y_zq |-> y, w |-> v,
                c_tilde |-> Undefined, c |-> Undefined, z |-> y, z_reject |-> FALSE,
                h |-> v, h_reject |-> FALSE, kappa |-> 0, iter |-> 0]
  /\ mu_dut = IdleUnit /\ rp_dut = IdleUnit
  /\ SamplingInit /\ w_dut!Init /\ z_dut!Init /\ h_dut!Init
  /\ in \in Inputs /\ start = FALSE /\ used = Undefined /\ starts = 0 /\ resets = 0

-----------------------------------------------------------------------------
\* To state s with registers r.
Goes(s, r) == state' = s /\ call' = "none" /\ done' = FALSE /\ reg' = r
\* From s to t, with the start pulse of unit u and registers r.
Starts(s, u, r, t) == state = s /\ state' = t /\ call' = u /\ done' = FALSE /\ reg' = r

Begin ==
  /\ state = "IDLE" /\ start
  /\ Goes("START_MU", [reg EXCEPT !.mu_msg = <<Port("tr", in), Port("m", in)>>])

DeriveSeeds ==
  \/ Starts("START_MU", "mu", reg, "WAIT_MU")
  \/ /\ state = "WAIT_MU" /\ mu_dut.done
     /\ Goes("START_RP", [reg EXCEPT !.mu = mu_dut.out,
                            !.rp_msg = <<Port("K", in), Port("rnd", in), mu_dut.out>>])
  \/ Starts("START_RP", "rp", reg, "WAIT_RP")
  \/ /\ state = "WAIT_RP" /\ rp_dut.done
     /\ Goes("START_A", [reg EXCEPT !.rho_prime = rp_dut.out])

\* A counter that goes on from the last signature.
ExpandMatrixKeeps ==
  \/ Starts("START_A", "A", reg, "WAIT_A")
  \/ /\ state = "WAIT_A" /\ A.done
     /\ Goes("LOOP_START_EM", [reg EXCEPT !.A_hat = A.A_mem, !.iter = 0])
ExpandMatrix ==
  \/ Starts("START_A", "A", reg, "WAIT_A")
  \/ /\ state = "WAIT_A" /\ A.done
     /\ Goes("LOOP_START_EM", [reg EXCEPT !.A_hat = A.A_mem, !.kappa = 0, !.iter = 0])

Commit ==
  \/ Starts("LOOP_START_EM", "em", reg, "LOOP_WAIT_EM")
  \/ /\ state = "LOOP_WAIT_EM" /\ em.done
     /\ Goes("LOOP_START_W", [reg EXCEPT !.y = em.y_mem])
  \/ Starts("LOOP_START_W", "w", [reg EXCEPT !.y_zq = [j \in Columns |-> Zq(reg.y[j])]],
            "LOOP_WAIT_W")
  \/ /\ state = "LOOP_WAIT_W" /\ w.done
     /\ Goes("LOOP_START_CH", [reg EXCEPT !.w = w.w_raw])

Challenge ==
  \/ Starts("LOOP_START_CH", "ch", reg, "LOOP_WAIT_CH")
  \/ /\ state = "LOOP_WAIT_CH" /\ ch.done
     /\ Goes("LOOP_START_Z", [reg EXCEPT !.c_tilde = ch.c_tilde, !.c = ch_sib.out])

\* Back to the sampler's wait state instead of its start state.
RetryWaits == Goes("LOOP_WAIT_EM", [reg EXCEPT !.kappa = @ + L, !.iter = @ + 1])
\* Another attempt, with fresh masks.
Retry == Goes("LOOP_START_EM", [reg EXCEPT !.kappa = @ + L, !.iter = @ + 1])

Respond ==
  \/ Starts("LOOP_START_Z", "z", reg, "LOOP_WAIT_Z")
  \/ /\ state = "LOOP_WAIT_Z" /\ z.done
     /\ Goes("LOOP_CHECK_Z", [reg EXCEPT !.z = z_dut!z_out, !.z_reject = z_dut!reject])
  \/ state = "LOOP_CHECK_Z" /\ reg.z_reject /\ Retry
  \/ state = "LOOP_CHECK_Z" /\ ~reg.z_reject /\ Goes("LOOP_START_H", reg)

\* done with the verdict on the hints, one edge early.
HintDone ==
  \/ Starts("LOOP_START_H", "h", reg, "LOOP_WAIT_H")
  \/ /\ state = "LOOP_WAIT_H" /\ h.done
     /\ Goes("LOOP_CHECK_H", [reg EXCEPT !.h = h_dut!h_out, !.h_reject = h_dut!reject])
  \/ state = "LOOP_CHECK_H" /\ reg.h_reject /\ Retry
  \/ /\ state = "LOOP_CHECK_H" /\ ~reg.h_reject
     /\ state' = "DONE" /\ done' = TRUE /\ call' = "none" /\ UNCHANGED reg
Hint ==
  \/ Starts("LOOP_START_H", "h", reg, "LOOP_WAIT_H")
  \/ /\ state = "LOOP_WAIT_H" /\ h.done
     /\ Goes("LOOP_CHECK_H", [reg EXCEPT !.h = h_dut!h_out, !.h_reject = h_dut!reject])
  \/ state = "LOOP_CHECK_H" /\ reg.h_reject /\ Retry
  \/ state = "LOOP_CHECK_H" /\ ~reg.h_reject /\ Goes("DONE", reg)

Complete == state = "DONE" /\ state' = "IDLE" /\ call' = "none" /\ done' = TRUE /\ UNCHANGED reg

Waiting ==
  /\ \/ state = "IDLE" /\ ~start
     \/ state = "WAIT_MU" /\ ~mu_dut.done
     \/ state = "WAIT_RP" /\ ~rp_dut.done
     \/ state = "WAIT_A" /\ ~A.done
     \/ state = "LOOP_WAIT_EM" /\ ~em.done
     \/ state = "LOOP_WAIT_W" /\ ~w.done
     \/ state = "LOOP_WAIT_CH" /\ ~ch.done
     \/ state = "LOOP_WAIT_Z" /\ ~z.done
     \/ state = "LOOP_WAIT_H" /\ ~h.done
  /\ Goes(state, reg)

Fsm == Begin \/ DeriveSeeds \/ ExpandMatrix \/ Commit \/ Challenge \/ Respond \/ Hint
         \/ Complete \/ Waiting

HashEdge(go) ==
  /\ mu_dut' = UnitAfter(mu_dut, call = "mu", Mu(reg.mu_msg[1], reg.mu_msg[2]), go)
  /\ rp_dut' = UnitAfter(rp_dut, call = "rp",
                         RhoPrime(reg.rp_msg[1], reg.rp_msg[2], reg.rp_msg[3]), go)

CoresEdge(go) ==
  SamplingClock(go) /\ w_dut!Clock(go) /\ z_dut!Clock(go) /\ h_dut!Clock(go)

(***************************************************************************)
(* The user.  The ports are held from start to done; start may be pulsed   *)
(* at any time and is ignored in a run.                                    *)
(***************************************************************************)
User ==
  /\ \/ start' = FALSE /\ UNCHANGED starts
     \/ start' = TRUE /\ starts < MaxStarts /\ starts' = starts + 1
  /\ \/ UNCHANGED in
     \/ state = "IDLE" /\ ~start /\ in' \in Inputs
  /\ used' = IF state = "IDLE" /\ start THEN in ELSE used
  /\ UNCHANGED resets

Clock(go) == Fsm /\ HashEdge(go) /\ CoresEdge(go) /\ User

\* An edge with reset high: of the registers only those of the hint core are cleared.
Reset ==
  /\ resets < MaxResets /\ resets' = resets + 1
  /\ Goes("IDLE", reg)
  /\ mu_dut' = UnitReset(mu_dut) /\ rp_dut' = UnitReset(rp_dut)
  /\ SamplingReset /\ w_dut!Reset /\ z_dut!Reset /\ h_dut!Reset
  /\ start' = FALSE
  /\ UNCHANGED <<in, used, starts>>

Next == Reset \/ \E go \in BOOLEAN : Clock(go)

Spec == Init /\ [][Next]_vars

\* The clock runs, and no unit runs for ever.
FairSpec == Spec /\ WF_vars(Clock(TRUE))

-----------------------------------------------------------------------------
(***************************************************************************)
(* When done rises, the outputs are the signature that Algorithm 7 makes   *)
(* of the input at start: of its first attempt that passes both checks,    *)
(* and of nothing an attempt before it, an earlier signature or a run cut  *)
(* off by reset left in the registers of the cores.  kappa_final_out and   *)
(* iter_count_out say which attempt it was.                                *)
(***************************************************************************)
SignatureCorrect ==
  done => LET n == Passing(used)
              s == Made[<<used, n>>]
          IN  /\ reg.c_tilde = s.c_tilde /\ reg.z = s.z /\ reg.h = s.h
              /\ reg.kappa = Counter(n) /\ reg.iter = n - 1

\* To its user signing is an operation: one start that finds it idle gives
\* one run, which ends with one edge of done and never without it.
Op == INSTANCE Operation WITH running <- state # "IDLE"
ImplementsOperation == Op!Spec

\* Every run ends, however many attempts are rejected before one passes.
RunsEnd == (state # "IDLE") ~> (state = "IDLE")
=============================================================================
