----------------------------- MODULE MlKemEncaps -----------------------------
(***************************************************************************)
(* pqc_mlkem_encaps_top.sv: H(ek), G(m || H(ek)), then K-PKE.Encrypt in    *)
(* the core of decapsulation's phase B, whose inputs for the choice of the *)
(* secret are tied to zero.  ek_in and m_in are the wrapper's buffers.     *)
(***************************************************************************)
EXTENDS KemTerms

CONSTANTS Requests,     \* the pairs <<ek, m>> the ECU may write into the buffers
          MaxStarts,    \* bound on the START pulses
          MaxResets     \* bound on the resets

VARIABLES
  state, done, call, msg, K_val, r_val, unit,         \* the top module
  b_state, b_ctr, b_fwd, b_inv, b_reg, b_done, b_call, b_in, b_unit, b_drive, b_ntt,
  ek_in, m_in, start,                                 \* the wrapper's buffers and pulse
  used,                                               \* history: the inputs of this run
  starts, resets

topVars == <<state, done, call, msg, K_val, r_val, unit>>
bVars   == <<b_state, b_ctr, b_fwd, b_inv, b_reg, b_done, b_call, b_in, b_unit, b_drive, b_ntt>>
ecuVars == <<ek_in, m_in, start, used, starts, resets>>
vars    == <<topVars, bVars, ecuVars>>

Low == <<"zero">>
kpke_encrypt ==
  INSTANCE MlKemEncrypt WITH b_start <- call = "encrypt", r_prime_in <- r_val,
    m_prime_in <- m_in, c_in <- <<Low, Low, Low>>, z_in <- Low, K_prime_in <- Low

Hashes == {"sha256", "sha512"}

Init ==
  /\ state = "IDLE" /\ done = FALSE /\ call = "none"
  /\ msg = [u \in Hashes |-> Undefined]
  /\ K_val = Undefined /\ r_val = Undefined
  /\ unit = [u \in Hashes |-> IdleUnit]
  /\ kpke_encrypt!Init
  /\ \E x \in Requests : ek_in = x[1] /\ m_in = x[2]
  /\ start = FALSE /\ used = Undefined /\ starts = 0 /\ resets = 0

-----------------------------------------------------------------------------
\* To state s, with the start pulse of c.
Goes(s, c) == state' = s /\ call' = c /\ done' = FALSE
Kept == UNCHANGED <<msg, K_val, r_val>>

Begin ==
  /\ state = "IDLE" /\ start
  /\ Goes("START_H", "none")
  /\ msg' = [msg EXCEPT !["sha256"] = ek_in] /\ UNCHANGED <<K_val, r_val>>

HashKey ==
  \/ state = "START_H" /\ Goes("WAIT_H", "sha256") /\ Kept
  \/ /\ state = "WAIT_H" /\ unit["sha256"].done
     /\ Goes("START_G", "none")
     /\ msg' = [msg EXCEPT !["sha512"] = <<m_in, unit["sha256"].out>>]
     /\ UNCHANGED <<K_val, r_val>>

DeriveSecret ==
  \/ state = "START_G" /\ Goes("WAIT_G", "sha512") /\ Kept
  \/ /\ state = "WAIT_G" /\ unit["sha512"].done
     /\ Goes("START_ENC", "none")
     /\ K_val' = unit["sha512"].out[1] /\ r_val' = unit["sha512"].out[2]
     /\ UNCHANGED msg

\* done with the end of the encryption, one edge early.
EncryptDone ==
  \/ state = "START_ENC" /\ Goes("WAIT_ENC", "encrypt") /\ Kept
  \/ state = "WAIT_ENC" /\ b_done /\ state' = "DONE" /\ call' = "none" /\ done' = TRUE /\ Kept
Encrypt ==
  \/ state = "START_ENC" /\ Goes("WAIT_ENC", "encrypt") /\ Kept
  \/ state = "WAIT_ENC" /\ b_done /\ Goes("DONE", "none") /\ Kept

Complete ==
  /\ state = "DONE" /\ state' = "IDLE" /\ call' = "none" /\ done' = TRUE /\ Kept

Waiting ==
  /\ \/ state = "IDLE" /\ ~start
     \/ state = "WAIT_H" /\ ~unit["sha256"].done
     \/ state = "WAIT_G" /\ ~unit["sha512"].done
     \/ state = "WAIT_ENC" /\ ~b_done
  /\ Goes(state, "none") /\ Kept

Fsm == Begin \/ HashKey \/ DeriveSecret \/ Encrypt \/ Complete \/ Waiting

UnitsEdge(go) ==
  unit' = [u \in Hashes |-> UnitAfter(unit[u], call = u,
             IF unit[u].fsm # "ABSORB" THEN Undefined
             ELSE IF u = "sha256" THEN H(msg[u]) ELSE G(msg[u][1], msg[u][2]), go)]

(***************************************************************************)
(* The wrapper's side.  The buffers are not rewritten during a run: m_in   *)
(* is read for G and again for mu, ek_in for H and again when encryption   *)
(* begins.  A START pulse may come at any time, and is ignored in a run.   *)
(***************************************************************************)
Ecu ==
  /\ \/ start' = FALSE /\ UNCHANGED starts
     \/ start' = TRUE /\ starts < MaxStarts /\ starts' = starts + 1
  /\ \/ UNCHANGED <<ek_in, m_in>>
     \/ /\ state = "IDLE" /\ ~start
        /\ \E x \in Requests : ek_in' = x[1] /\ m_in' = x[2]
  /\ used' = IF state = "IDLE" /\ start THEN <<ek_in, m_in>> ELSE used
  /\ UNCHANGED resets

Clock(go) == Fsm /\ UnitsEdge(go) /\ kpke_encrypt!Clock(go) /\ Ecu

\* An edge with reset high.
Reset ==
  /\ resets < MaxResets /\ resets' = resets + 1
  /\ Goes("IDLE", "none") /\ Kept
  /\ unit' = [u \in Hashes |-> UnitReset(unit[u])]
  /\ kpke_encrypt!Reset
  /\ start' = FALSE
  /\ UNCHANGED <<ek_in, m_in, used, starts>>

Next == Reset \/ \E go \in BOOLEAN : Clock(go)

Spec == Init /\ [][Next]_vars

\* The clock runs, and no unit runs for ever.
FairSpec == Spec /\ WF_vars(Clock(TRUE))

-----------------------------------------------------------------------------
(***************************************************************************)
(* When done rises, K_out and c_out are what Algorithm 17 makes of the key *)
(* and the message in the buffers at START: both of the same message,      *)
(* whatever earlier runs or a reset in the middle of one left in the       *)
(* counters, pipeline registers, units and NTT memory.                     *)
(***************************************************************************)
EncapsulationCorrect ==
  done => LET e == Encapsulated(used[1], used[2])
          IN  K_val = e.secret /\ b_reg.c_prime = e.c

\* To the wrapper the core is an operation: one START that finds it idle
\* gives one run, which ends with one edge of done and never without it.
Op == INSTANCE Operation WITH running <- state # "IDLE"
ImplementsOperation == Op!Spec

\* The units and the NTT core are never reset between the calls of one run
\* or of two: each call finds its unit at rest and leaves its input alone.
CallsFindRest == [][kpke_encrypt!AtRest]_vars
=============================================================================
