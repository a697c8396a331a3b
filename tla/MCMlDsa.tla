------------------------------- MODULE MCMlDsa --------------------------------
(***************************************************************************)
(* The signing and the samplers its cores call, each on its own: unit says *)
(* which of the two is clocked in a behaviour.                             *)
(***************************************************************************)
EXTENDS MlDsaSign

CONSTANTS x1, x2,
          N, Tau, SignBytes, XofBytes, Sampled, Candidates, Values, TooLarge

\* A block holds the signs and at least one byte, or at least one candidate.
ASSUME SamplerAssumption ==
  /\ N \in Nat /\ Tau \in 1 .. N
  /\ SignBytes \in Nat /\ XofBytes \in Nat /\ SignBytes < XofBytes
  /\ Sampled \in Nat \ {0} /\ Candidates \in Nat \ {0}
  /\ TooLarge \notin Values

\* Both checks reject once before an attempt passes; the other passes at once.
TwoFates == [x \in Inputs |-> IF x = x1 THEN <<"z", "h", "ok">> ELSE <<"ok">>]

VARIABLES unit, sampler, s_state, s_done, coeffs, at, sign_reg, i_ctr, init_idx, accepted,
          shake_start, shake, s_start, ending, s_starts, s_resets

S == INSTANCE MlDsaSamplers WITH
  Samplers <- {"ball", "reject"}, Coeffs <- Sampled, state <- s_state, done <- s_done,
  start <- s_start, starts <- s_starts, resets <- s_resets

samplerVars == <<sampler, s_state, s_done, coeffs, at, sign_reg, i_ctr, init_idx, accepted,
                 shake_start, shake, s_start, ending, s_starts, s_resets>>
mcVars == <<unit, vars, samplerVars>>

MCInit ==
  /\ Init /\ S!Init
  /\ \/ unit = "signing" /\ sampler = "ball"
     \/ unit = "sampler" /\ in = x1

Signing(go) == unit = "signing" /\ Clock(go) /\ UNCHANGED <<unit, samplerVars>>
SigningReset == unit = "signing" /\ Reset /\ UNCHANGED <<unit, samplerVars>>
Sampler(go) == unit = "sampler" /\ S!Clock(go) /\ UNCHANGED <<unit, vars>>
SamplerReset == unit = "sampler" /\ S!Reset /\ UNCHANGED <<unit, vars>>

MCNext ==
  SigningReset \/ SamplerReset \/ \E go \in BOOLEAN : Signing(go) \/ Sampler(go)

MCSpec ==
  MCInit /\ [][MCNext]_mcVars /\ WF_mcVars(Signing(TRUE) \/ Sampler(TRUE))

SamplesCorrect == S!SamplesCorrect

(***************************************************************************)
(* Every run ends: of signing, however many attempts are rejected, and of  *)
(* a sampler, but for the block that lacks exactly one coefficient.        *)
(***************************************************************************)
AllRunsEnd == RunsEnd /\ S!MostRunsEnd
=============================================================================
