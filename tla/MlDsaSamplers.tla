---------------------------- MODULE MlDsaSamplers -----------------------------
(***************************************************************************)
(* The samplers of ML-DSA, each fed by one block of SHAKE output: the      *)
(* challenge polynomial (pqc_dilithium_sample_in_ball.sv, FIPS 204,        *)
(* Algorithm 29), a shuffle in which bytes above the running index are     *)
(* skipped; and rejection sampling (..._rej_ntt_poly.sv and                *)
(* ..._rej_bounded_poly.sv), where a candidate is three bytes in the one   *)
(* and half a byte in the other.  Start, hash and end are the same in all. *)
(* sampler tells which it is; the output of the hash is any block.         *)
(***************************************************************************)
EXTENDS Integers, Sequences, FiniteSets, FiniteSetsExt, CalledUnit

CONSTANTS Samplers,     \* of {"ball", "reject"}
          N,            \* coefficients of a challenge; its bytes are 0 .. N - 1
          Tau,          \* coefficients of a challenge that are not zero
          SignBytes,    \* bytes of its block that hold the signs
          XofBytes,     \* XOF_BYTES: its block
          Coeffs,       \* coefficients of the other polynomials
          Candidates,   \* candidates in their block
          Values,       \* what a candidate below the bound stands for
          TooLarge,     \* a candidate that is not below it
          MaxStarts,    \* bound on the start pulses
          MaxResets     \* bound on the resets

VARIABLES
  sampler,
  state, done, coeffs,
  at,                   \* byte_idx, with half_sel
  sign_reg, i_ctr, init_idx,    \* of the challenge
  accepted,             \* of the others
  shake_start, shake,   \* shake_dut and its start pulse
  start,                \* the start pulse of the caller
  ending,               \* history: the state the last run ended in
  starts, resets

data == <<coeffs, at, sign_reg, i_ctr, init_idx, accepted>>
vars == <<sampler, state, done, data, shake_start, shake, start, ending, starts, resets>>

Indices == 0 .. (IF sampler = "ball" THEN N ELSE Coeffs) - 1

\* Signs of the first Tau coefficients to be set, and the bytes after them.
BallBlocks == [sign : [1 .. Tau -> {1, -1}], byte : [SignBytes .. XofBytes - 1 -> 0 .. N - 1]]
Blocks ==
  IF sampler = "ball" THEN BallBlocks ELSE [0 .. Candidates - 1 -> Values \union {TooLarge}]

Init ==
  /\ sampler \in Samplers
  /\ state = "IDLE" /\ done = FALSE
  /\ coeffs = [c \in Indices |-> Undefined]
  /\ at = 0 /\ sign_reg = Undefined /\ i_ctr = N - Tau /\ init_idx = 0 /\ accepted = 0
  /\ shake_start = FALSE /\ shake = IdleUnit
  /\ start = FALSE /\ ending = "none" /\ starts = 0 /\ resets = 0

-----------------------------------------------------------------------------
Goes(s) == state' = s /\ shake_start' = FALSE /\ done' = FALSE

Hash ==
  \/ state = "IDLE" /\ start /\ Goes("START_SHAKE") /\ UNCHANGED <<data, ending>>
  \/ /\ state = "START_SHAKE"
     /\ state' = "WAIT_SHAKE" /\ shake_start' = TRUE /\ done' = FALSE
     /\ UNCHANGED <<data, ending>>

Complete ==
  /\ state \in {"DONE", "EXHAUSTED"}
  /\ state' = "IDLE" /\ shake_start' = FALSE /\ done' = TRUE
  /\ ending' = state
  /\ UNCHANGED data

Waiting ==
  /\ \/ state = "IDLE" /\ ~start
     \/ state = "WAIT_SHAKE" /\ ~shake.done
  /\ Goes(state) /\ UNCHANGED <<data, ending>>

-----------------------------------------------------------------------------
(***************************************************************************)
(* The challenge.                                                          *)
(***************************************************************************)
cur_byte == shake.out.byte[at]
LastByte == at = XofBytes - 1

TakeSigns ==
  /\ state = "WAIT_SHAKE" /\ shake.done /\ Goes("INIT_COEFFS")
  /\ sign_reg' = shake.out.sign /\ at' = SignBytes /\ init_idx' = 0
  /\ UNCHANGED <<coeffs, i_ctr, accepted, ending>>

\* Only the coefficients above the first index are cleared.
InitCoeffsHalf ==
  /\ state = "INIT_COEFFS"
  /\ coeffs' = [coeffs EXCEPT ![init_idx] = IF init_idx < N - Tau THEN @ ELSE 0]
  /\ IF init_idx = N - 1
     THEN Goes("SAMPLE_J") /\ i_ctr' = N - Tau /\ UNCHANGED init_idx
     ELSE Goes(state) /\ init_idx' = init_idx + 1 /\ UNCHANGED i_ctr
  /\ UNCHANGED <<at, sign_reg, accepted, ending>>
InitCoeffs ==
  /\ state = "INIT_COEFFS"
  /\ coeffs' = [coeffs EXCEPT ![init_idx] = 0]
  /\ IF init_idx = N - 1
     THEN Goes("SAMPLE_J") /\ i_ctr' = N - Tau /\ UNCHANGED init_idx
     ELSE Goes(state) /\ init_idx' = init_idx + 1 /\ UNCHANGED i_ctr
  /\ UNCHANGED <<at, sign_reg, accepted, ending>>

\* A byte above the index is skipped; the test leaves out the last one.
SampleForever ==
  /\ state = "SAMPLE_J"
  /\ \/ cur_byte <= i_ctr /\ Goes("SWAP") /\ UNCHANGED at
     \/ cur_byte > i_ctr /\ LastByte /\ Goes(state) /\ UNCHANGED at
     \/ cur_byte > i_ctr /\ ~LastByte /\ Goes(state) /\ at' = at + 1
  /\ UNCHANGED <<coeffs, sign_reg, i_ctr, init_idx, accepted, ending>>
SampleIndex ==
  /\ state = "SAMPLE_J"
  /\ \/ cur_byte <= i_ctr /\ Goes("SWAP") /\ UNCHANGED at
     \/ cur_byte > i_ctr /\ LastByte /\ Goes("EXHAUSTED") /\ UNCHANGED at
     \/ cur_byte > i_ctr /\ ~LastByte /\ Goes(state) /\ at' = at + 1
  /\ UNCHANGED <<coeffs, sign_reg, i_ctr, init_idx, accepted, ending>>

\* The old coefficient is moved after the new one is set.
SwapLate ==
  /\ state = "SWAP"
  /\ coeffs' = [coeffs EXCEPT ![cur_byte] = Head(sign_reg), ![i_ctr] = coeffs[cur_byte]]
  /\ sign_reg' = Tail(sign_reg)
  /\ at' = IF LastByte THEN at ELSE at + 1
  /\ IF i_ctr = N - 1
     THEN Goes("DONE") /\ UNCHANGED i_ctr
     ELSE Goes("SAMPLE_J") /\ i_ctr' = i_ctr + 1
  /\ UNCHANGED <<init_idx, accepted, ending>>
Swap ==
  /\ state = "SWAP"
  /\ coeffs' = [coeffs EXCEPT ![i_ctr] = coeffs[cur_byte], ![cur_byte] = Head(sign_reg)]
  /\ sign_reg' = Tail(sign_reg)
  /\ at' = IF LastByte THEN at ELSE at + 1
  /\ IF i_ctr = N - 1
     THEN Goes("DONE") /\ UNCHANGED i_ctr
     ELSE Goes("SAMPLE_J") /\ i_ctr' = i_ctr + 1
  /\ UNCHANGED <<init_idx, accepted, ending>>

SampleInBall == sampler = "ball" /\ (TakeSigns \/ InitCoeffs \/ SampleIndex \/ Swap)

-----------------------------------------------------------------------------
(***************************************************************************)
(* Rejection sampling.                                                     *)
(***************************************************************************)
candidate == shake.out[at]
Fits == candidate # TooLarge
Last == at = Candidates - 1

Begin ==
  /\ state = "WAIT_SHAKE" /\ shake.done /\ Goes("SAMPLE")
  /\ accepted' = 0 /\ at' = 0
  /\ UNCHANGED <<coeffs, sign_reg, i_ctr, init_idx, ending>>

Accept ==
  IF Fits
  THEN /\ coeffs' = [coeffs EXCEPT ![accepted] = candidate]
       /\ accepted' = IF accepted = Coeffs - 1 THEN accepted ELSE accepted + 1
  ELSE UNCHANGED <<coeffs, accepted>>

Advance == at' = (IF Last THEN at ELSE at + 1) /\ UNCHANGED <<sign_reg, i_ctr, init_idx, ending>>

\* The block is given up as soon as its last candidate is reached.
SampleGivesUp ==
  /\ state = "SAMPLE" /\ Accept /\ Advance
  /\ \/ Last /\ Goes("EXHAUSTED")
     \/ ~Last /\ Goes(IF Fits /\ accepted = Coeffs - 1 THEN "DONE" ELSE "SAMPLE")
\* The last coefficient is not waited for when it is rejected once.
SampleShort ==
  /\ state = "SAMPLE" /\ Accept /\ Advance
  /\ \/ accepted = Coeffs - 1 /\ Goes(IF Fits THEN "DONE" ELSE "WAIT_SHAKE")
     \/ accepted # Coeffs - 1 /\ Goes(IF Last THEN "EXHAUSTED" ELSE "SAMPLE")
Sample ==
  /\ state = "SAMPLE" /\ Accept /\ Advance
  /\ \/ accepted = Coeffs - 1 /\ Goes(IF Fits THEN "DONE" ELSE "SAMPLE")
     \/ accepted # Coeffs - 1 /\ Goes(IF Last THEN "EXHAUSTED" ELSE "SAMPLE")

RejectPoly == sampler = "reject" /\ (Begin \/ Sample)

-----------------------------------------------------------------------------
\* The hash unit, whose block is drawn when it has absorbed its input.
ShakeEdge(go) ==
  \E block \in IF shake.fsm = "ABSORB" /\ go THEN Blocks ELSE {Undefined} :
    shake' = UnitAfter(shake, shake_start, block, go)

Clock(go) ==
  /\ Hash \/ SampleInBall \/ RejectPoly \/ Complete \/ Waiting
  /\ ShakeEdge(go)
  /\ \/ start' = FALSE /\ UNCHANGED starts
     \/ start' = TRUE /\ starts < MaxStarts /\ starts' = starts + 1
  /\ UNCHANGED <<sampler, resets>>

Reset ==
  /\ resets < MaxResets /\ resets' = resets + 1
  /\ Goes("IDLE") /\ shake' = UnitReset(shake) /\ start' = FALSE
  /\ UNCHANGED <<sampler, data, ending, starts>>

Next == Reset \/ \E go \in BOOLEAN : Clock(go)

\* The clock runs, and the hash does not run for ever.
Spec == Init /\ [][Next]_vars /\ WF_vars(Clock(TRUE))

-----------------------------------------------------------------------------
(***************************************************************************)
(* Algorithm 29 on a block: every index from N - Tau on takes the next     *)
(* byte that is not above it; enough says that there was one for each.     *)
(***************************************************************************)
Shuffled(block) ==
  LET ball[n \in 0 .. Tau] ==
        IF n = 0 THEN [enough |-> TRUE, c |-> [c \in Indices |-> 0], next |-> SignBytes]
        ELSE LET i == N - Tau + n - 1
                 p == ball[n - 1]
                 fit == {b \in p.next .. XofBytes - 1 : block.byte[b] <= i}
                 j == block.byte[Min(fit)]
             IN  IF fit = {} THEN [p EXCEPT !.enough = FALSE]
                 ELSE [p EXCEPT !.c = [p.c EXCEPT ![i] = p.c[j], ![j] = block.sign[n]],
                                !.next = Min(fit) + 1]
  IN  ball[Tau]

(***************************************************************************)
(* At done of a challenge, if the block had enough bytes, the coefficients *)
(* are those of Algorithm 29, whatever an earlier run or one cut off by    *)
(* reset left.  A run that does not give up leaves exactly Tau             *)
(* coefficients that are not zero, all of them 1 or -1: also when it swaps *)
(* twice by the last byte.                                                 *)
(***************************************************************************)
BallCorrect ==
  sampler = "ball" /\ done =>
    /\ Shuffled(shake.out).enough => coeffs = Shuffled(shake.out).c
    /\ ending = "DONE" =>
         /\ Cardinality({c \in Indices : coeffs[c] # 0}) = Tau
         /\ \A c \in Indices : coeffs[c] \in {-1, 0, 1}

\* The candidates that fit among the first n of a block, whether there are
\* enough of them in all, and the one that c others come before.
Fitting(block, n) == {m \in 0 .. n - 1 : block[m] # TooLarge}
Enough(block) == Cardinality(Fitting(block, Candidates)) >= Coeffs
FittingAfter(block, c) ==
  block[CHOOSE n \in Fitting(block, Candidates) : Cardinality(Fitting(block, n)) = c]

(***************************************************************************)
(* At done of rejection sampling the coefficients are the first candidates *)
(* that fit, in order and each once, up to the last candidate of the       *)
(* block; and the run has given up if and only if there were too few.      *)
(***************************************************************************)
PolyCorrect ==
  sampler = "reject" /\ done =>
    /\ ending = "DONE" <=> Enough(shake.out)
    /\ ending = "DONE" => \A c \in Indices : coeffs[c] = FittingAfter(shake.out, c)

(***************************************************************************)
(* Every run ends, of any block, but one: where rejection sampling lacks   *)
(* exactly the last coefficient, neither S_DONE nor S_EXHAUSTED is         *)
(* entered, and the caller waits for ever.                                 *)
(***************************************************************************)
LacksOne ==
  /\ sampler = "reject" /\ state = "SAMPLE"
  /\ Cardinality(Fitting(shake.out, Candidates)) = Coeffs - 1
MostRunsEnd == (state # "IDLE") ~> (state = "IDLE" \/ LacksOne)

\* Both samplers compute what FIPS 204 does of any block, or give up.
SamplesCorrect == BallCorrect /\ PolyCorrect
=============================================================================
